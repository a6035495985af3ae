----------------------------- MODULE Configuration -----------------------------
(***************************************************************************)
(* cll::ConfigurationManager, its Configurations and the                   *)
(* FileConfigurationCache, with the crashes and restarts of the process.   *)
(*                                                                         *)
(* EventManager only uses the manager in its constructor and under         *)
(* configUpdateMutex, so one download runs at a time; it stops at every    *)
(* request, where time passes and the server may publish another version.  *)
(* A point in time is kept as the time left until it, 0 when it has come.  *)
(* The server is external: it answers 304 exactly when the etag it is sent *)
(* is that of the version it has.  Of the three properties a configuration *)
(* holds, onConfigurationUpdated passes on two, maxEventsPerPost and       *)
(* maxEventSizeInBytes; queueDrainInterval is read by the constructor of   *)
(* EventManager only, and a new one is used from the next start on.        *)
(***************************************************************************)
EXTENDS Integers, FiniteSetsExt

CONSTANTS NumConfigs,
          Props, Unset,           \* Unset: ConfigurationProperty::isSet() is false
          Forwarded,              \* the properties onConfigurationUpdated passes on
          Default,                \* the value of each property no server has set
          Versions,               \* what the server can publish, by etag
          SettingsOf, IntervalOf, \* the "settings" and "refreshInterval" of a version
          NoEtag, NoEntry, Unreadable,
          MaxShift,               \* the largest exponent of the back-off (8)
          MaxInterval,            \* bound: the refresh intervals
          MaxElapsed              \* bound: how long a request takes

Configs == 1..NumConfigs
Values == {Unset} \cup UNION {{SettingsOf[v][p] : p \in Props} : v \in Versions}
Settings == [Props -> Values]

Entries == [etag : Versions \cup {NoEtag}, data : Settings,
            expires : 0..MaxInterval, refreshInterval : 0..MaxInterval]

ASSUME ConfigurationAssumption ==
    /\ NumConfigs \in Nat \ {0} /\ Forwarded \subseteq Props
    /\ MaxShift \in Nat /\ MaxInterval \in Nat /\ MaxElapsed \in Nat
    /\ IntervalOf \in [Versions -> 0..MaxInterval] /\ SettingsOf \in [Versions -> Settings]
    /\ Default \in [Props -> {Default[p] : p \in Props}]
    /\ NoEtag \notin Versions /\ {NoEntry, Unreadable} \cap Entries = {}
    /\ NoEntry # Unreadable

VARIABLES conf,     \* the Configurations
          data,     \* FileConfigurationCache::data
          file,     \* the entries on disk: what load() will get out of them
          server,   \* the version of each configuration that is published
          at, k,    \* where downloadConfigs is, and with which configuration
          downloadedAnything,
          elapsed,  \* time since requestStart
          limits    \* what the queues and the uploader use of it

vars == <<conf, data, file, server, at, k, downloadedAnything, elapsed, limits>>

Configurations == [downloaded : BOOLEAN, expires : 0..MaxInterval, settings : Settings,
                   downloadAttempt : 0..MaxShift, downloadMinRetryTime : 0..2^MaxShift]

TypeOK ==
    /\ conf \in [Configs -> Configurations]
    /\ data \in [Configs -> Entries \cup {NoEntry, Unreadable}]
    /\ file \in [Configs -> Entries \cup {NoEntry, Unreadable}]
    /\ server \in [Configs -> Versions]
    /\ at \in {"off", "aborted", "idle", "next", "sent"} /\ k \in 1..(NumConfigs + 1)
    /\ downloadedAnything \in BOOLEAN /\ elapsed \in 0..MaxElapsed
    /\ limits \in [Props -> Values \cup {Default[p] : p \in Props}]

NoSettings == [p \in Props |-> Unset]

NewConfiguration ==
    [downloaded |-> FALSE, expires |-> 0, settings |-> NoSettings,
     downloadAttempt |-> 0, downloadMinRetryTime |-> 0]

NewConfigurations == [u \in Configs |-> NewConfiguration]
NoEntries == [u \in Configs |-> NoEntry]

Init ==
    /\ conf = NewConfigurations /\ data = NoEntries /\ file = NoEntries
    /\ server \in [Configs -> Versions]
    /\ at = "off" /\ k = 1 /\ downloadedAnything = FALSE /\ elapsed = 0
    /\ limits = Default

(* The process ends and what it had in memory is gone. *)
Dies(where) ==
    /\ conf' = NewConfigurations /\ data' = NoEntries
    /\ at' = where /\ k' = 1 /\ downloadedAnything' = FALSE /\ elapsed' = 0
    /\ limits' = Default

-----------------------------------------------------------------------------
(* ConfigurationManager::get: the first configuration that sets it. *)
Get(c) ==
    [p \in Props |->
        LET setIn == {u \in Configs : c[u].settings[p] # Unset}
        IN  IF setIn = {} THEN Default[p] ELSE c[Min(setIn)].settings[p]]

ImportCached(c, e) ==
    [c EXCEPT !.downloaded = TRUE, !.expires = e.expires, !.settings = e.data]

NeedsRedownload(u) == ~conf[u].downloaded \/ conf[u].expires = 0

Monus(a, b) == IF a > b THEN a - b ELSE 0

(* EventManager::EventManager: the cache is loaded, every configuration takes
   its entry, and the limits are set.  An entry that cannot be read or applied
   throws. *)
Boot ==
    /\ at \in {"off", "aborted"}
    /\ IF \E u \in Configs : file[u] = Unreadable
       THEN Dies("aborted")
       ELSE /\ at' = "next"
            /\ data' = file
            /\ conf' = [u \in Configs |-> IF file[u] = NoEntry THEN NewConfiguration
                                          ELSE ImportCached(NewConfiguration, file[u])]
            /\ limits' = Get(conf')
            /\ UNCHANGED <<k, downloadedAnything, elapsed>>
    /\ UNCHANGED <<file, server>>

(* updateConfigIfNeeded *)
Update ==
    /\ at = "idle"
    /\ at' = "next" /\ k' = 1 /\ downloadedAnything' = FALSE
    /\ UNCHANGED <<conf, data, file, server, elapsed, limits>>

(* A configuration that is not to be downloaded, or not yet. *)
Passes(u) == ~NeedsRedownload(u) \/ conf[u].downloadMinRetryTime > 0

Skip ==
    /\ at = "next" /\ k \in Configs /\ Passes(k)
    /\ k' = k + 1
    /\ UNCHANGED <<conf, data, file, server, at, downloadedAnything, elapsed, limits>>

(* The request is sent.  (The branch for an entry of the cache that has not
   expired is never taken: EntryIsCurrent.) *)
Send ==
    /\ at = "next" /\ k \in Configs /\ ~Passes(k)
    /\ at' = "sent" /\ elapsed' = 0
    /\ UNCHANGED <<conf, data, file, server, k, downloadedAnything, limits>>

-----------------------------------------------------------------------------
(* The answers *)

(* ofstream truncates the file and writes data; when it cannot be opened the
   file stays as it is. *)
Store(d) == file' = d \/ file' = file

Succeeds(c, d) ==
    /\ conf' = [conf EXCEPT ![k] = c] /\ data' = [data EXCEPT ![k] = d]
    /\ Store(data')
    /\ downloadedAnything' = TRUE
    /\ at' = "next" /\ k' = k + 1 /\ elapsed' = 0
    /\ UNCHANGED <<server, limits>>

Fresh == [etag |-> server[k], data |-> SettingsOf[server[k]],
          expires |-> Monus(IntervalOf[server[k]], elapsed),
          refreshInterval |-> IntervalOf[server[k]]]

Matches == data[k] # NoEntry /\ data[k].etag = server[k]

Answer200 ==
    /\ at = "sent" /\ ~Matches
    /\ Succeeds([ImportCached(conf[k], Fresh) EXCEPT !.downloadAttempt = 0], Fresh)

(* cached.expires = requestStart + cached.refreshInterval *)
Prolonged(e) == [e EXCEPT !.expires = Monus(e.refreshInterval, elapsed)]

(* Mutant: a new expiry, but only for the entry of the cache. *)
Confirmed_KeepsExpiry(e) == Succeeds(ImportCached(conf[k], e), Prolonged(e))

(* The branch for status 304: the counter is not reset. *)
Confirmed(e) == Succeeds(ImportCached(conf[k], Prolonged(e)), Prolonged(e))

Answer304 == at = "sent" /\ Matches /\ Confirmed(data[k])

(* send() throws, and the status that was never set happens to read as 304.
   Without an entry the refreshInterval has no value either. *)
NoAnswerReadsAs304 ==
    /\ at = "sent"
    /\ IF data[k] # NoEntry THEN Confirmed(data[k])
       ELSE \E i \in 0..MaxInterval :
               Confirmed([etag |-> NoEtag, data |-> NoSettings, expires |-> 0,
                          refreshInterval |-> i])

(* Another status, or no answer.  The counter stops at MaxShift: only its
   minimum with the largest exponent is looked at. *)
AnswerFails ==
    LET attempt == Min({conf[k].downloadAttempt + 1, MaxShift})
        backoff == 2^Min({attempt + 1, MaxShift})
    IN  /\ at = "sent"
        /\ conf' = [conf EXCEPT ![k].downloadAttempt = attempt,
                                ![k].downloadMinRetryTime = Monus(backoff, elapsed)]
        /\ at' = "next" /\ k' = k + 1 /\ elapsed' = 0
        /\ UNCHANGED <<data, file, server, downloadedAnything, limits>>

(* Status 200 with a body that is no JSON: safeParseJson returns an empty
   object, and asInt throws for the refreshInterval that it does not have.
   Nothing catches that.  The same happens when send() throws and the status
   that was never set reads as 200. *)
AnswerIsBad ==
    /\ at = "sent"
    /\ Dies("aborted") /\ UNCHANGED <<file, server>>

(* onConfigurationUpdated *)
Updated == [p \in Props |-> IF p \in Forwarded THEN Get(conf)[p] ELSE limits[p]]

(* Mutant: the callbacks run only when the last download succeeded. *)
Finish_LastOnly ==
    /\ at = "next" /\ k > NumConfigs
    /\ limits' = IF downloadedAnything /\ conf[NumConfigs].downloadMinRetryTime = 0
                 THEN Updated ELSE limits
    /\ at' = "idle"
    /\ UNCHANGED <<conf, data, file, server, k, downloadedAnything, elapsed>>

(* The end of downloadConfigs: the callbacks, if anything is new. *)
Finish ==
    /\ at = "next" /\ k > NumConfigs
    /\ limits' = IF downloadedAnything THEN Updated ELSE limits
    /\ at' = "idle"
    /\ UNCHANGED <<conf, data, file, server, k, downloadedAnything, elapsed>>

-----------------------------------------------------------------------------
(* The environment *)

Publish(u, v) ==
    /\ server[u] # v
    /\ server' = [server EXCEPT ![u] = v]
    /\ UNCHANGED <<conf, data, file, at, k, downloadedAnything, elapsed, limits>>

EntriesLater(d) ==
    [u \in Configs |-> IF d[u] \in {NoEntry, Unreadable} THEN d[u]
                       ELSE [d[u] EXCEPT !.expires = Monus(@, 1)]]

Tick ==
    /\ at = "sent" => elapsed < MaxElapsed
    /\ elapsed' = IF at = "sent" THEN elapsed + 1 ELSE elapsed
    /\ conf' = [u \in Configs |-> [conf[u] EXCEPT !.expires = Monus(@, 1),
                                                  !.downloadMinRetryTime = Monus(@, 1)]]
    /\ data' = EntriesLater(data) /\ file' = EntriesLater(file)
    /\ UNCHANGED <<server, at, k, downloadedAnything, limits>>

(* The process ends, or is killed, outside of store(). *)
Exit == /\ at \notin {"off", "aborted"} /\ Dies("off")
        /\ UNCHANGED <<file, server>>

(* Mutant: the members in another order, the etag before the data. *)
Pieces_EtagFirst(e) ==
    {NoEntry, Unreadable}
    \cup {[etag |-> e.etag, data |-> s, expires |-> 0, refreshInterval |-> 0] :
            s \in {s \in Settings : \A p \in Props : s[p] \in {Unset, e.data[p]}}}

(* What load() makes of an entry whose text ends too early: the parser keeps
   what it has read.  The members come in the order data, etag, expires,
   refreshInterval; one that is missing reads as empty or 0, and one without
   its value, or an entry without one, throws. *)
Pieces(e) ==
    {NoEntry, Unreadable}
    \cup {[etag |-> NoEtag, data |-> s, expires |-> 0, refreshInterval |-> 0] :
            s \in {s \in Settings : \A p \in Props : s[p] \in {Unset, e.data[p]}}}
    \cup UNION {{[e EXCEPT !.expires = t, !.refreshInterval = i] :
                  t \in {0, e.expires}} : i \in 0..e.refreshInterval}

(* The file when the process dies while it writes d. *)
Cut(d) ==
    UNION {LET before == [u \in Configs |-> IF u < i THEN d[u] ELSE NoEntry]
           IN  {[before EXCEPT ![i] = e] : e \in Pieces(d[i])} :
           i \in {u \in Configs : d[u] # NoEntry}}

CrashInStore ==
    /\ at = "sent"
    /\ LET d == IF Matches THEN Prolonged(data[k]) ELSE Fresh
       IN  file' \in Cut([data EXCEPT ![k] = d])
    /\ Dies("off") /\ UNCHANGED server

-----------------------------------------------------------------------------
Answer == Answer200 \/ Answer304 \/ NoAnswerReadsAs304 \/ AnswerFails \/ AnswerIsBad

Next == \/ Boot \/ Update \/ Skip \/ Send \/ Answer \/ Finish
        \/ \E u \in Configs, v \in Versions : Publish(u, v)
        \/ Tick \/ Exit \/ CrashInStore

Spec == Init /\ [][Next]_vars

-----------------------------------------------------------------------------
Running == at \notin {"off", "aborted"}

(* The limits in use are those of the configurations, also when one of several
   downloads failed.  (The drain interval is exempt: it is not passed on.) *)
LimitsFollowConfig == at = "idle" => \A p \in Forwarded : limits[p] = Get(conf)[p]

(* A configuration and its entry of the cache in memory have the same settings
   and expire together: store() always writes what is in use, and download()
   never finds an entry that is still valid. *)
EntryIsCurrent ==
    /\ TypeOK
    /\ \A u \in Configs :
           /\ Running /\ conf[u].downloaded => /\ data[u].data = conf[u].settings
                                               /\ data[u].expires = conf[u].expires
           /\ Running /\ ~conf[u].downloaded => data[u] = NoEntry

(* The settings of an entry are those its etag stands for, on disk as well and
   after a crash: a 304 never confirms others. *)
EtagMatchesData ==
    \A u \in Configs, d \in {data, file} :
        d[u] \notin {NoEntry, Unreadable} /\ d[u].etag # NoEtag
            => d[u].data = SettingsOf[d[u].etag]
===============================================================================
