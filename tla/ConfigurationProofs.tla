-------------------------- MODULE ConfigurationProofs --------------------------
(***************************************************************************)
(* Proofs about Configuration for any number of configurations, any        *)
(* versions and intervals, and with every failure the model has: crashes   *)
(* in store(), bodies that are no JSON and a status that was never set.    *)
(***************************************************************************)
EXTENDS Configuration, FiniteSetTheorems, WellFoundedInduction, TLAPS

(* What a download of a configuration leaves behind. *)
IsNoEntry(e) == e \in {NoEntry, Unreadable}
EtagOK(e) == ~IsNoEntry(e) /\ e.etag # NoEtag => e.data = SettingsOf[e.etag]

PlaceInv ==
    /\ at = "sent" => k \in Configs
    /\ ~Running => ~downloadedAnything

(* The limits that are passed on may differ from the configurations between the
   first download and the end of downloadConfigs only. *)
LimitsInv ==
    at = "idle" \/ (at \in {"next", "sent"} /\ ~downloadedAnything)
        => \A p \in Forwarded : limits[p] = Get(conf)[p]

(* The cache of a running process has an entry exactly for the configurations
   that are there, and none of them is unreadable. *)
CurrentInv ==
    Running => \A u \in Configs :
        IF conf[u].downloaded
        THEN data[u] \in Entries /\ data[u].data = conf[u].settings
             /\ data[u].expires = conf[u].expires
        ELSE data[u] = NoEntry

EtagInv == \A u \in Configs : EtagOK(data[u]) /\ EtagOK(file[u])

CacheInv == TypeOK /\ PlaceInv /\ LimitsInv /\ CurrentInv /\ EtagInv

-----------------------------------------------------------------------------
(* Arithmetic the provers do not know: a power of two counts subsets. *)
LEMMA PowerBound ==
    ASSUME NEW n \in Nat, NEW m \in Nat, n <= m
    PROVE  2^n \in Nat /\ 2^n <= 2^m
<1>1. \A i \in Nat : IsFiniteSet(1..i) /\ Cardinality(1..i) = i
  <2> SUFFICES ASSUME NEW i \in Nat PROVE IsFiniteSet(1..i) /\ Cardinality(1..i) = i
    OBVIOUS
  <2>1. IsFiniteSet(1..i) /\ Cardinality(1..i) = IF 1 > i THEN 0 ELSE i - 1 + 1
    BY FS_Interval
  <2> QED BY <2>1
<1>2. \A i \in Nat : IsFiniteSet(SUBSET (1..i)) /\ Cardinality(SUBSET (1..i)) = 2^i
  BY <1>1, FS_SUBSET
<1>3. Cardinality(SUBSET (1..n)) \in Nat
  BY <1>2, FS_CardinalityType
<1>4. SUBSET (1..n) \subseteq SUBSET (1..m)
  OBVIOUS
<1>5. Cardinality(SUBSET (1..n)) <= Cardinality(SUBSET (1..m))
  BY <1>2, <1>4, FS_Subset
<1> QED BY <1>2, <1>3, <1>5

LEMMA MinOfTwo ==
    ASSUME NEW a \in Int, NEW b \in Int
    PROVE  Min({a, b}) = IF a <= b THEN a ELSE b
<1>1. \E x \in {a, b} : \A y \in {a, b} : x <= y
  OBVIOUS
<1>2. Min({a, b}) \in {a, b} /\ \A y \in {a, b} : Min({a, b}) <= y
  BY <1>1 DEF Min
<1> QED BY <1>2

LEMMA MinOfSet ==
    ASSUME NEW S \in SUBSET Nat, S # {}
    PROVE  Min(S) \in S
<1> DEFINE R == {ss \in Nat \X Nat : ss[1] < ss[2]}
<1>0. IsWellFoundedOn(R, Nat)
  BY NatLessThanWellFounded, Zenon DEF OpToRel
<1>1. PICK x \in S : \A y \in S : <<y, x>> \notin R
  <2> HIDE DEF R
  <2> QED BY <1>0, WFMin
<1>2. \A y \in S : x <= y
  <2> SUFFICES ASSUME NEW y \in S, y < x PROVE FALSE
    OBVIOUS
  <2>1. <<y, x>> \in R
    OBVIOUS
  <2> QED BY <1>1, <2>1
<1> QED BY <1>2 DEF Min

LEMMA MonusBound ==
    ASSUME NEW a \in Nat, NEW b \in Nat, NEW n \in Nat, a <= n
    PROVE  Monus(a, b) \in 0..n
BY DEF Monus

(* get() depends on the settings of the configurations and on nothing else. *)
LEMMA GetKept ==
    ASSUME NEW c, NEW d, \A u \in Configs : c[u].settings = d[u].settings
    PROVE  Get(c) = Get(d)
<1>1. \A p \in Props : {u \in Configs : c[u].settings[p] # Unset}
                       = {u \in Configs : d[u].settings[p] # Unset}
  OBVIOUS
<1>2. ASSUME NEW p \in Props, {u \in Configs : d[u].settings[p] # Unset} # {}
      PROVE  Min({u \in Configs : d[u].settings[p] # Unset}) \in Configs
  <2> DEFINE S == {u \in Configs : d[u].settings[p] # Unset}
  <2>1. S \in SUBSET Nat /\ S \subseteq Configs
    BY ConfigurationAssumption DEF Configs
  <2> HIDE DEF S
  <2>2. S # {} => Min(S) \in Configs
    BY <2>1, MinOfSet
  <2> QED BY <1>2, <2>2 DEF S
<1> QED BY <1>1, <1>2 DEF Get

LEMMA GetType ==
    ASSUME NEW c \in [Configs -> Configurations]
    PROVE  Get(c) \in [Props -> Values \cup {Default[p] : p \in Props}]
<1> SUFFICES ASSUME NEW p \in Props
             PROVE  (IF {u \in Configs : c[u].settings[p] # Unset} = {} THEN Default[p]
                     ELSE c[Min({u \in Configs : c[u].settings[p] # Unset})].settings[p])
                    \in Values \cup {Default[q] : q \in Props}
  BY DEF Get
<1> DEFINE setIn == {u \in Configs : c[u].settings[p] # Unset}
<1>1. CASE setIn = {}
  BY <1>1
<1>2. CASE setIn # {}
  <2>1. Min(setIn) \in Configs
    <3>1. setIn \in SUBSET Nat /\ setIn \subseteq Configs
      BY ConfigurationAssumption DEF Configs
    <3> HIDE DEF setIn
    <3> QED BY <1>2, <3>1, MinOfSet
  <2>2. c[Min(setIn)].settings \in [Props -> Values]
    BY <2>1 DEF Configurations, Settings
  <2> QED BY <1>2, <2>2
<1> QED BY <1>1, <1>2

-----------------------------------------------------------------------------
(* Types of what the steps put into the cache and into a configuration. *)
LEMMA NewTypes ==
    /\ NewConfiguration \in Configurations /\ ~NewConfiguration.downloaded
    /\ NewConfigurations \in [Configs -> Configurations]
    /\ NoEntries \in [Configs -> Entries \cup {NoEntry, Unreadable}]
    /\ \A u \in Configs : EtagOK(NoEntries[u])
<1>1. 0 \in 0..MaxInterval /\ 0 \in 0..MaxShift /\ 0 \in 0..2^MaxShift
  <2>1. MaxShift \in Nat /\ MaxInterval \in Nat
    BY ConfigurationAssumption
  <2>2. 2^MaxShift \in Nat
    BY <2>1, PowerBound
  <2> QED BY <2>1, <2>2
<1>2. NoSettings \in Settings
  <2>1. Unset \in Values
    BY DEF Values
  <2> QED BY <2>1 DEF NoSettings, Settings
<1>3. NewConfiguration \in Configurations /\ ~NewConfiguration.downloaded
  BY <1>1, <1>2 DEF NewConfiguration, Configurations
<1> QED BY <1>3 DEF NewConfigurations, NoEntries, EtagOK, IsNoEntry

LEMMA ImportedTypes ==
    ASSUME NEW c \in Configurations, NEW e \in Entries
    PROVE  /\ ImportCached(c, e) \in Configurations /\ ImportCached(c, e).downloaded
           /\ ImportCached(c, e).settings = e.data /\ ImportCached(c, e).expires = e.expires
<1>1. e.data \in Settings /\ e.expires \in 0..MaxInterval
  BY DEF Entries
<1> QED BY <1>1 DEF ImportCached, Configurations

(* The process is gone: only the file is left. *)
LEMMA DiesStep ==
    ASSUME CacheInv, NEW where \in {"off", "aborted"}, Dies(where), UNCHANGED server,
           file' \in [Configs -> Entries \cup {NoEntry, Unreadable}],
           \A u \in Configs : EtagOK(file'[u])
    PROVE  CacheInv'
<1>1. /\ conf' = NewConfigurations /\ data' = NoEntries /\ limits' = Default
      /\ at' = where /\ k' = 1 /\ downloadedAnything' = FALSE /\ elapsed' = 0
  BY DEF Dies
<1>2. TypeOK'
  <2>1. Default \in [Props -> Values \cup {Default[p] : p \in Props}]
    BY ConfigurationAssumption
  <2>2. 1 \in 1..(NumConfigs + 1) /\ 0 \in 0..MaxElapsed
    BY ConfigurationAssumption
  <2>3. server' \in [Configs -> Versions]
    BY DEF CacheInv, TypeOK
  <2> QED BY <1>1, <2>1, <2>2, <2>3, NewTypes DEF TypeOK
<1>3. PlaceInv' /\ LimitsInv' /\ CurrentInv'
  BY <1>1 DEF PlaceInv, LimitsInv, CurrentInv, Running
<1>4. EtagInv'
  BY <1>1, NewTypes DEF EtagInv, EtagOK, IsNoEntry
<1> QED BY <1>2, <1>3, <1>4 DEF CacheInv

(* A download succeeded: configuration and entry agree, and so do settings and
   etag of the entry. *)
LEMMA SucceedsStep ==
    ASSUME CacheInv, at = "sent", NEW c \in Configurations, NEW d \in Entries, Succeeds(c, d),
           c.downloaded, c.settings = d.data, c.expires = d.expires, EtagOK(d)
    PROVE  CacheInv'
<1>1. /\ conf' = [conf EXCEPT ![k] = c] /\ data' = [data EXCEPT ![k] = d]
      /\ file' = data' \/ file' = file
      /\ downloadedAnything' = TRUE /\ at' = "next" /\ k' = k + 1 /\ elapsed' = 0
      /\ UNCHANGED <<server, limits>>
  BY DEF Succeeds, Store
<1>2. k \in Configs /\ TypeOK /\ CurrentInv /\ EtagInv /\ Running
  BY DEF CacheInv, PlaceInv, Running
<1>3. /\ conf \in [Configs -> Configurations]
      /\ data \in [Configs -> Entries \cup {NoEntry, Unreadable}]
      /\ file \in [Configs -> Entries \cup {NoEntry, Unreadable}]
  BY <1>2 DEF TypeOK
<1>4. /\ conf' \in [Configs -> Configurations]
      /\ data' \in [Configs -> Entries \cup {NoEntry, Unreadable}]
      /\ conf'[k] = c /\ data'[k] = d
      /\ \A u \in Configs : u # k => conf'[u] = conf[u] /\ data'[u] = data[u]
  BY <1>1, <1>2, <1>3
<1>5. TypeOK'
  <2>1. k' \in 1..(NumConfigs + 1) /\ 0 \in 0..MaxElapsed
    BY <1>1, <1>2, ConfigurationAssumption DEF Configs
  <2>2. file' \in [Configs -> Entries \cup {NoEntry, Unreadable}]
    BY <1>1, <1>3, <1>4
  <2> QED BY <1>1, <1>2, <1>4, <2>1, <2>2 DEF TypeOK
<1>6. PlaceInv' /\ LimitsInv'
  BY <1>1 DEF PlaceInv, LimitsInv, Running
<1>7. CurrentInv'
  <2> SUFFICES ASSUME NEW u \in Configs
               PROVE  IF conf'[u].downloaded
                      THEN data'[u] \in Entries /\ data'[u].data = conf'[u].settings
                           /\ data'[u].expires = conf'[u].expires
                      ELSE data'[u] = NoEntry
    BY DEF CurrentInv
  <2>1. CASE u = k
    BY <1>4, <2>1
  <2>2. CASE u # k
    BY <1>2, <1>4, <2>2 DEF CurrentInv
  <2> QED BY <2>1, <2>2
<1>8. EtagInv'
  <2>1. \A u \in Configs : EtagOK(data'[u])
    BY <1>2, <1>4 DEF EtagInv
  <2>2. \A u \in Configs : EtagOK(file'[u])
    BY <1>1, <1>2, <2>1 DEF EtagInv
  <2> QED BY <2>1, <2>2 DEF EtagInv, EtagOK, IsNoEntry
<1> QED BY <1>5, <1>6, <1>7, <1>8 DEF CacheInv

(* The entries that a download stores. *)
LEMMA StoredTypes ==
    ASSUME CacheInv, at = "sent"
    PROVE  /\ Fresh \in Entries /\ EtagOK(Fresh)
           /\ \A e \in Entries : EtagOK(e) => Prolonged(e) \in Entries /\ EtagOK(Prolonged(e))
           /\ data[k] # NoEntry => data[k] \in Entries /\ EtagOK(data[k])
           /\ data[k] \in Entries \cup {NoEntry}
<1>1. k \in Configs /\ TypeOK /\ CurrentInv /\ EtagInv /\ Running
  BY DEF CacheInv, PlaceInv, Running
<1>2. server[k] \in Versions /\ elapsed \in Nat
  BY <1>1 DEF TypeOK
<1>3. SettingsOf[server[k]] \in Settings /\ IntervalOf[server[k]] \in 0..MaxInterval
  BY <1>2, ConfigurationAssumption
<1>4. \A i \in 0..MaxInterval : Monus(i, elapsed) \in 0..MaxInterval
  BY <1>2, MonusBound, ConfigurationAssumption
<1>5. Fresh \in Entries
  BY <1>2, <1>3, <1>4 DEF Fresh, Entries
<1>6. EtagOK(Fresh)
  BY DEF Fresh, EtagOK
<1>7. ASSUME NEW e \in Entries, EtagOK(e) PROVE Prolonged(e) \in Entries /\ EtagOK(Prolonged(e))
  <2>1. e.refreshInterval \in 0..MaxInterval
    BY DEF Entries
  <2>2. Monus(e.refreshInterval, elapsed) \in 0..MaxInterval
    BY <1>4, <2>1
  <2>3. Prolonged(e) \in Entries /\ Prolonged(e).etag = e.etag /\ Prolonged(e).data = e.data
    BY <2>2 DEF Prolonged, Entries
  <2>4. ~IsNoEntry(e)
    BY ConfigurationAssumption DEF IsNoEntry
  <2> QED BY <1>7, <2>3, <2>4 DEF EtagOK
<1>8. data[k] = NoEntry \/ data[k] \in Entries
  BY <1>1 DEF CurrentInv
<1>9. EtagOK(data[k])
  BY <1>1 DEF EtagInv
<1> QED BY <1>5, <1>6, <1>7, <1>8, <1>9

-----------------------------------------------------------------------------
(* The constructor of EventManager. *)
LEMMA BootStep ==
    ASSUME CacheInv, Boot
    PROVE  CacheInv'
<1>1. /\ file \in [Configs -> Entries \cup {NoEntry, Unreadable}] /\ UNCHANGED <<file, server>>
      /\ \A u \in Configs : EtagOK(file[u])
  BY DEF CacheInv, TypeOK, EtagInv, Boot
<1>2. CASE \E u \in Configs : file[u] = Unreadable
  <2>1. Dies("aborted")
    BY <1>2 DEF Boot
  <2>2. \A u \in Configs : EtagOK(file'[u])
    BY <1>1
  <2>3. file' \in [Configs -> Entries \cup {NoEntry, Unreadable}]
    BY <1>1
  <2> QED BY <1>1, <2>1, <2>2, <2>3, DiesStep
<1>3. CASE ~\E u \in Configs : file[u] = Unreadable
  <2>1. /\ at \in {"off", "aborted"} /\ at' = "next" /\ data' = file
        /\ conf' = [u \in Configs |-> IF file[u] = NoEntry THEN NewConfiguration
                                      ELSE ImportCached(NewConfiguration, file[u])]
        /\ limits' = Get(conf') /\ UNCHANGED <<k, downloadedAnything, elapsed>>
    BY <1>3 DEF Boot
  <2>2. \A u \in Configs : file[u] # NoEntry => file[u] \in Entries
    BY <1>1, <1>3
  <2>3. \A u \in Configs :
          /\ conf'[u] \in Configurations
          /\ IF conf'[u].downloaded
             THEN file[u] \in Entries /\ file[u].data = conf'[u].settings
                  /\ file[u].expires = conf'[u].expires
             ELSE file[u] = NoEntry
    <3> SUFFICES ASSUME NEW u \in Configs
                 PROVE  /\ conf'[u] \in Configurations
                        /\ IF conf'[u].downloaded
                           THEN file[u] \in Entries /\ file[u].data = conf'[u].settings
                                /\ file[u].expires = conf'[u].expires
                           ELSE file[u] = NoEntry
      OBVIOUS
    <3>1. CASE file[u] = NoEntry
      BY <2>1, <3>1, NewTypes
    <3>2. CASE file[u] # NoEntry
      <4>1. conf'[u] = ImportCached(NewConfiguration, file[u]) /\ file[u] \in Entries
        BY <2>1, <2>2, <3>2
      <4> QED BY <4>1, NewTypes, ImportedTypes
    <3> QED BY <3>1, <3>2
  <2>4. conf' \in [Configs -> Configurations]
    BY <2>1, <2>3
  <2>5. limits' \in [Props -> Values \cup {Default[p] : p \in Props}]
    BY <2>1, <2>4, GetType
  <2>6. TypeOK'
    BY <1>1, <2>1, <2>4, <2>5 DEF CacheInv, TypeOK
  <2>7. downloadedAnything' = FALSE
    BY <2>1 DEF CacheInv, TypeOK, PlaceInv, Running
  <2>8. PlaceInv' /\ LimitsInv'
    BY <2>1, <2>7 DEF PlaceInv, LimitsInv, Running
  <2>9. CurrentInv'
    BY <2>1, <2>3 DEF CurrentInv
  <2>10. EtagInv'
    BY <1>1, <2>1 DEF EtagInv
  <2> QED BY <2>6, <2>8, <2>9, <2>10 DEF CacheInv
<1> QED BY <1>2, <1>3

(* A step that leaves the configurations and both copies of the cache alone,
   and the process running or not. *)
LEMMA QuietStep ==
    ASSUME CacheInv, UNCHANGED <<conf, data, file>>, TypeOK', PlaceInv', LimitsInv',
           Running' => Running
    PROVE  CacheInv'
<1>1. CurrentInv' /\ EtagInv'
  BY DEF CacheInv, CurrentInv, EtagInv
<1> QED BY <1>1 DEF CacheInv

(* The steps of downloadConfigs between the requests. *)
LEMMA LoopStep ==
    ASSUME CacheInv, Update \/ Skip \/ Send \/ Finish
    PROVE  CacheInv'
<1>0. TypeOK /\ PlaceInv /\ LimitsInv
  BY DEF CacheInv
<1>1. CASE Update
  <2>1. TypeOK'
    <3>1. 1 \in 1..(NumConfigs + 1)
      BY ConfigurationAssumption
    <3> QED BY <1>0, <1>1, <3>1 DEF Update, TypeOK
  <2>2. PlaceInv' /\ LimitsInv' /\ (Running' => Running)
    BY <1>0, <1>1 DEF Update, PlaceInv, LimitsInv, Running
  <2> QED BY <1>1, <2>1, <2>2, QuietStep DEF Update
<1>2. CASE Skip
  <2>1. TypeOK'
    <3>1. k' \in 1..(NumConfigs + 1)
      BY <1>2, ConfigurationAssumption DEF Skip, Configs
    <3> QED BY <1>0, <1>2, <3>1 DEF Skip, TypeOK
  <2>2. PlaceInv' /\ LimitsInv' /\ (Running' => Running)
    BY <1>0, <1>2 DEF Skip, PlaceInv, LimitsInv, Running
  <2> QED BY <1>2, <2>1, <2>2, QuietStep DEF Skip
<1>3. CASE Send
  <2>1. TypeOK'
    BY <1>0, <1>3, ConfigurationAssumption DEF Send, TypeOK
  <2>2. PlaceInv' /\ LimitsInv' /\ (Running' => Running)
    BY <1>0, <1>3 DEF Send, PlaceInv, LimitsInv, Running
  <2> QED BY <1>3, <2>1, <2>2, QuietStep DEF Send
<1>4. CASE Finish
  <2>1. /\ at' = "idle" /\ at = "next"
        /\ limits' = IF downloadedAnything THEN Updated ELSE limits
        /\ UNCHANGED <<conf, data, file, server, k, downloadedAnything, elapsed>>
    BY <1>4 DEF Finish
  <2>2. /\ limits' \in [Props -> Values \cup {Default[p] : p \in Props}]
        /\ \A p \in Forwarded : limits'[p] = Get(conf)[p]
    <3>1. CASE downloadedAnything
      <4>1. /\ Get(conf) \in [Props -> Values \cup {Default[p] : p \in Props}]
            /\ limits \in [Props -> Values \cup {Default[p] : p \in Props}]
        BY <1>0, GetType DEF TypeOK
      <4>2. limits' = Updated
        BY <2>1, <3>1
      <4> QED BY <4>1, <4>2, ConfigurationAssumption DEF Updated
    <3>2. CASE ~downloadedAnything
      BY <1>0, <2>1, <3>2 DEF TypeOK, LimitsInv
    <3> QED BY <3>1, <3>2
  <2>3. TypeOK'
    BY <1>0, <2>1, <2>2 DEF TypeOK
  <2>4. PlaceInv' /\ LimitsInv' /\ (Running' => Running)
    BY <1>0, <2>1, <2>2 DEF PlaceInv, LimitsInv, Running
  <2> QED BY <2>1, <2>3, <2>4, QuietStep
<1> QED BY <1>1, <1>2, <1>3, <1>4

(* A request that fails: only the back-off changes. *)
LEMMA FailsStep ==
    ASSUME CacheInv, AnswerFails
    PROVE  CacheInv'
<1> DEFINE attempt == Min({conf[k].downloadAttempt + 1, MaxShift})
           backoff == 2^Min({attempt + 1, MaxShift})
           c == [conf[k] EXCEPT !.downloadAttempt = attempt,
                                !.downloadMinRetryTime = Monus(backoff, elapsed)]
<1>1. /\ at = "sent" /\ at' = "next" /\ k' = k + 1 /\ elapsed' = 0
      /\ UNCHANGED <<data, file, server, downloadedAnything, limits>>
      /\ conf' = [conf EXCEPT ![k].downloadAttempt = attempt,
                              ![k].downloadMinRetryTime = Monus(backoff, elapsed)]
  BY DEF AnswerFails
<1>2. k \in Configs /\ TypeOK /\ LimitsInv /\ CurrentInv /\ EtagInv
  BY <1>1 DEF CacheInv, PlaceInv
<1>3. conf \in [Configs -> Configurations] /\ conf[k] \in Configurations /\ elapsed \in Nat
  BY <1>2 DEF TypeOK
<1>4. MaxShift \in Nat /\ conf[k].downloadAttempt \in 0..MaxShift
  BY <1>3, ConfigurationAssumption DEF Configurations
<1>5. attempt \in 0..MaxShift
  BY <1>4, MinOfTwo
<1>6. Min({attempt + 1, MaxShift}) \in 0..MaxShift
  <2> HIDE DEF attempt
  <2>1. Min({attempt + 1, MaxShift}) = IF attempt + 1 <= MaxShift THEN attempt + 1 ELSE MaxShift
    BY <1>4, <1>5, MinOfTwo
  <2> QED BY <1>4, <1>5, <2>1
<1>7. Monus(backoff, elapsed) \in 0..2^MaxShift
  <2> DEFINE n == Min({attempt + 1, MaxShift})
  <2>1. n \in Nat /\ n <= MaxShift
    BY <1>4, <1>6
  <2> HIDE DEF n
  <2>2. 2^n \in Nat /\ 2^MaxShift \in Nat /\ 2^n <= 2^MaxShift
    <3>1. 2^n \in Nat /\ 2^n <= 2^MaxShift
      BY <1>4, <2>1, PowerBound
    <3>2. 2^MaxShift \in Nat
      BY <1>4, PowerBound
    <3> QED BY <3>1, <3>2
  <2>3. Monus(2^n, elapsed) \in 0..2^MaxShift
    BY <1>3, <2>2, MonusBound
  <2> QED BY <2>3 DEF n
<1> HIDE DEF attempt, backoff
<1>8. c \in Configurations /\ c.settings = conf[k].settings /\ c.expires = conf[k].expires
      /\ c.downloaded = conf[k].downloaded
  BY <1>3, <1>5, <1>7 DEF Configurations
<1>9. conf' = [conf EXCEPT ![k] = c]
  BY <1>1, <1>2, <1>3
<1> HIDE DEF c
<1>10. /\ conf' \in [Configs -> Configurations]
       /\ \A u \in Configs : /\ conf'[u].settings = conf[u].settings
                             /\ conf'[u].expires = conf[u].expires
                             /\ conf'[u].downloaded = conf[u].downloaded
  BY <1>2, <1>3, <1>8, <1>9
<1>11. Get(conf') = Get(conf)
  BY <1>10, GetKept
<1>12. TypeOK'
  <2>1. k' \in 1..(NumConfigs + 1) /\ 0 \in 0..MaxElapsed
    BY <1>1, <1>2, ConfigurationAssumption DEF Configs
  <2> QED BY <1>1, <1>2, <1>10, <2>1 DEF TypeOK
<1>13. PlaceInv' /\ LimitsInv'
  BY <1>1, <1>2, <1>11 DEF PlaceInv, LimitsInv, Running
<1>14. CurrentInv' /\ EtagInv'
  BY <1>1, <1>2, <1>10 DEF CurrentInv, EtagInv, Running
<1> QED BY <1>12, <1>13, <1>14 DEF CacheInv

(* Time passes, for the configurations and for both copies of the cache. *)
LEMMA LaterEntries ==
    ASSUME NEW d \in [Configs -> Entries \cup {NoEntry, Unreadable}], NEW u \in Configs
    PROVE  /\ EntriesLater(d)[u] \in Entries \cup {NoEntry, Unreadable}
           /\ d[u] \in {NoEntry, Unreadable} => EntriesLater(d)[u] = d[u]
           /\ d[u] \in Entries => /\ EntriesLater(d)[u] \in Entries
                                  /\ EntriesLater(d)[u].data = d[u].data
                                  /\ EntriesLater(d)[u].expires = Monus(d[u].expires, 1)
           /\ EtagOK(d[u]) => EtagOK(EntriesLater(d)[u])
<1>1. CASE d[u] \in {NoEntry, Unreadable}
  <2>1. EntriesLater(d)[u] = d[u] /\ d[u] \notin Entries
    BY <1>1, ConfigurationAssumption DEF EntriesLater
  <2> QED BY <1>1, <2>1
<1>2. CASE d[u] \in Entries
  <2>1. d[u] \notin {NoEntry, Unreadable}
    BY <1>2, ConfigurationAssumption
  <2>2. EntriesLater(d)[u] = [d[u] EXCEPT !.expires = Monus(d[u].expires, 1)]
    BY <2>1 DEF EntriesLater
  <2>3. Monus(d[u].expires, 1) \in 0..MaxInterval
    BY <1>2, MonusBound, ConfigurationAssumption DEF Entries
  <2>4. /\ EntriesLater(d)[u] \in Entries
        /\ EntriesLater(d)[u].data = d[u].data /\ EntriesLater(d)[u].etag = d[u].etag
        /\ EntriesLater(d)[u].expires = Monus(d[u].expires, 1)
    BY <1>2, <2>2, <2>3 DEF Entries
  <2>5. EtagOK(d[u]) => EtagOK(EntriesLater(d)[u])
    BY <2>1, <2>4 DEF EtagOK, IsNoEntry
  <2> QED BY <2>1, <2>4, <2>5
<1> QED BY <1>1, <1>2

LEMMA TickStep ==
    ASSUME CacheInv, Tick
    PROVE  CacheInv'
<1>1. /\ at = "sent" => elapsed < MaxElapsed
      /\ elapsed' = IF at = "sent" THEN elapsed + 1 ELSE elapsed
      /\ conf' = [u \in Configs |-> [conf[u] EXCEPT !.expires = Monus(@, 1),
                                                    !.downloadMinRetryTime = Monus(@, 1)]]
      /\ data' = EntriesLater(data) /\ file' = EntriesLater(file)
      /\ UNCHANGED <<server, at, k, downloadedAnything, limits>>
  BY DEF Tick
<1>2. /\ TypeOK /\ PlaceInv /\ LimitsInv /\ CurrentInv /\ EtagInv
      /\ conf \in [Configs -> Configurations]
      /\ data \in [Configs -> Entries \cup {NoEntry, Unreadable}]
      /\ file \in [Configs -> Entries \cup {NoEntry, Unreadable}]
  BY DEF CacheInv, TypeOK
<1>3. \A u \in Configs :
        /\ conf'[u] \in Configurations /\ conf'[u].settings = conf[u].settings
        /\ conf'[u].expires = Monus(conf[u].expires, 1)
        /\ conf'[u].downloaded = conf[u].downloaded
  <2> SUFFICES ASSUME NEW u \in Configs
               PROVE  /\ conf'[u] \in Configurations /\ conf'[u].settings = conf[u].settings
                      /\ conf'[u].expires = Monus(conf[u].expires, 1)
                      /\ conf'[u].downloaded = conf[u].downloaded
    OBVIOUS
  <2>1. conf[u] \in Configurations
    BY <1>2
  <2>2. MaxInterval \in Nat /\ 2^MaxShift \in Nat
    BY PowerBound, ConfigurationAssumption
  <2>3. /\ Monus(conf[u].expires, 1) \in 0..MaxInterval
        /\ Monus(conf[u].downloadMinRetryTime, 1) \in 0..2^MaxShift
    <3>1. conf[u].expires \in 0..MaxInterval /\ conf[u].downloadMinRetryTime \in 0..2^MaxShift
      BY <2>1 DEF Configurations
    <3> DEFINE n == 2^MaxShift
    <3> HIDE DEF n
    <3>2. n \in Nat /\ conf[u].downloadMinRetryTime \in 0..n
      BY <2>2, <3>1 DEF n
    <3>3. Monus(conf[u].downloadMinRetryTime, 1) \in 0..n
      BY <3>2, MonusBound
    <3>4. Monus(conf[u].expires, 1) \in 0..MaxInterval
      <4>1. MaxInterval \in Nat /\ conf[u].expires \in 0..MaxInterval
        BY <2>2, <3>1
      <4> QED BY <4>1, MonusBound
    <3> QED BY <3>3, <3>4 DEF n
  <2>4. conf'[u] = [conf[u] EXCEPT !.expires = Monus(conf[u].expires, 1),
                                   !.downloadMinRetryTime = Monus(conf[u].downloadMinRetryTime, 1)]
    BY <1>1, <2>1 DEF Configurations
  <2> QED BY <2>1, <2>3, <2>4 DEF Configurations
<1>4. conf' \in [Configs -> Configurations]
  BY <1>1, <1>3
<1>5. Get(conf') = Get(conf)
  BY <1>3, GetKept
<1>6. /\ data' \in [Configs -> Entries \cup {NoEntry, Unreadable}]
      /\ file' \in [Configs -> Entries \cup {NoEntry, Unreadable}]
  <2>1. \A d : EntriesLater(d) = [u \in Configs |-> EntriesLater(d)[u]]
    BY DEF EntriesLater
  <2> QED BY <1>1, <1>2, <2>1, LaterEntries
<1>7. TypeOK'
  <2>1. elapsed' \in 0..MaxElapsed
    <3>1. elapsed \in 0..MaxElapsed /\ MaxElapsed \in Nat
      BY <1>2, ConfigurationAssumption DEF TypeOK
    <3>2. CASE at = "sent"
      <4>1. elapsed < MaxElapsed /\ elapsed' = elapsed + 1
        BY <1>1, <3>2
      <4> QED BY <3>1, <4>1
    <3>3. CASE at # "sent"
      <4>1. elapsed' = elapsed
        BY <1>1, <3>3
      <4> QED BY <3>1, <4>1
    <3> QED BY <3>2, <3>3
  <2> QED BY <1>1, <1>2, <1>4, <1>6, <2>1 DEF TypeOK
<1>8. PlaceInv' /\ LimitsInv'
  BY <1>1, <1>2, <1>5 DEF PlaceInv, LimitsInv, Running
<1>9. CurrentInv'
  <2> SUFFICES ASSUME Running, NEW u \in Configs
               PROVE  IF conf'[u].downloaded
                      THEN data'[u] \in Entries /\ data'[u].data = conf'[u].settings
                           /\ data'[u].expires = conf'[u].expires
                      ELSE data'[u] = NoEntry
    BY <1>1 DEF CurrentInv, Running
  <2>1. IF conf[u].downloaded
        THEN data[u] \in Entries /\ data[u].data = conf[u].settings
             /\ data[u].expires = conf[u].expires
        ELSE data[u] = NoEntry
    BY <1>2 DEF CurrentInv
  <2>2. /\ data[u] \in {NoEntry, Unreadable} => data'[u] = data[u]
        /\ data[u] \in Entries => /\ data'[u] \in Entries /\ data'[u].data = data[u].data
                                  /\ data'[u].expires = Monus(data[u].expires, 1)
    BY <1>1, <1>2, LaterEntries
  <2>3. CASE conf[u].downloaded
    BY <1>3, <2>1, <2>2, <2>3
  <2>4. CASE ~conf[u].downloaded
    BY <1>3, <2>1, <2>2, <2>4
  <2> QED BY <2>3, <2>4
<1>10. EtagInv'
  <2>1. \A u \in Configs : EtagOK(EntriesLater(data)[u]) /\ EtagOK(EntriesLater(file)[u])
    BY <1>2, LaterEntries DEF EtagInv
  <2> QED BY <1>1, <2>1 DEF EtagInv
<1> QED BY <1>7, <1>8, <1>9, <1>10 DEF CacheInv

(* The process dies while it writes d: the file has the entries before one of
   them, what load() makes of a piece of that one, and no others. *)
LEMMA CutEntries ==
    ASSUME NEW d \in [Configs -> Entries \cup {NoEntry}], \A u \in Configs : EtagOK(d[u]),
           NEW f \in Cut(d)
    PROVE  /\ f \in [Configs -> Entries \cup {NoEntry, Unreadable}]
           /\ \A u \in Configs : EtagOK(f[u])
<1>1. PICK i \in {u \in Configs : d[u] # NoEntry} :
        f \in LET before == [u \in Configs |-> IF u < i THEN d[u] ELSE NoEntry]
              IN  {[before EXCEPT ![i] = e] : e \in Pieces(d[i])}
  BY DEF Cut
<1>2. PICK e \in Pieces(d[i]) :
        f = [[u \in Configs |-> IF u < i THEN d[u] ELSE NoEntry] EXCEPT ![i] = e]
  BY <1>1
<1>3. d[i] \in Entries /\ EtagOK(d[i]) /\ ~IsNoEntry(d[i])
  BY <1>1, ConfigurationAssumption DEF IsNoEntry
<1>4. e \in Entries \cup {NoEntry, Unreadable} /\ EtagOK(e)
  <2>1. CASE e \in {NoEntry, Unreadable}
    BY <2>1 DEF EtagOK, IsNoEntry
  <2>2. CASE \E s \in Settings :
               e = [etag |-> NoEtag, data |-> s, expires |-> 0, refreshInterval |-> 0]
    <3>1. 0 \in 0..MaxInterval
      BY ConfigurationAssumption
    <3> QED BY <2>2, <3>1 DEF Entries, EtagOK
  <2>3. CASE \E t \in {0, d[i].expires}, j \in 0..d[i].refreshInterval :
               e = [d[i] EXCEPT !.expires = t, !.refreshInterval = j]
    <3>1. PICK t \in {0, d[i].expires}, j \in 0..d[i].refreshInterval :
               e = [d[i] EXCEPT !.expires = t, !.refreshInterval = j]
      BY <2>3
    <3>2. t \in 0..MaxInterval /\ j \in 0..MaxInterval
      BY <1>3, ConfigurationAssumption DEF Entries
    <3>3. e \in Entries /\ e.etag = d[i].etag /\ e.data = d[i].data
      BY <1>3, <3>1, <3>2 DEF Entries
    <3> QED BY <1>3, <3>3 DEF EtagOK
  <2>4. \/ e \in {NoEntry, Unreadable}
        \/ \E s \in Settings :
              e = [etag |-> NoEtag, data |-> s, expires |-> 0, refreshInterval |-> 0]
        \/ \E t \in {0, d[i].expires}, j \in 0..d[i].refreshInterval :
              e = [d[i] EXCEPT !.expires = t, !.refreshInterval = j]
    <3> DEFINE Begun == {[etag |-> NoEtag, data |-> s, expires |-> 0, refreshInterval |-> 0] :
                  s \in {s \in Settings : \A p \in Props : s[p] \in {Unset, d[i].data[p]}}}
               Ended == UNION {{[d[i] EXCEPT !.expires = t, !.refreshInterval = j] :
                  t \in {0, d[i].expires}} : j \in 0..d[i].refreshInterval}
    <3>1. e \in {NoEntry, Unreadable} \/ e \in Begun \/ e \in Ended
      BY <1>2 DEF Pieces
    <3>2. e \in Begun => \E s \in Settings :
              e = [etag |-> NoEtag, data |-> s, expires |-> 0, refreshInterval |-> 0]
      OBVIOUS
    <3>3. e \in Ended => \E t \in {0, d[i].expires}, j \in 0..d[i].refreshInterval :
              e = [d[i] EXCEPT !.expires = t, !.refreshInterval = j]
      <4> SUFFICES ASSUME e \in Ended
                   PROVE  \E t \in {0, d[i].expires}, j \in 0..d[i].refreshInterval :
                            e = [d[i] EXCEPT !.expires = t, !.refreshInterval = j]
        OBVIOUS
      <4>1. PICK j \in 0..d[i].refreshInterval :
              e \in {[d[i] EXCEPT !.expires = t, !.refreshInterval = j] : t \in {0, d[i].expires}}
        OBVIOUS
      <4>2. PICK t \in {0, d[i].expires} : e = [d[i] EXCEPT !.expires = t, !.refreshInterval = j]
        BY <4>1
      <4> QED BY <4>2
    <3> QED BY <3>1, <3>2, <3>3
  <2> QED BY <2>1, <2>2, <2>3, <2>4
<1>5. EtagOK(NoEntry)
  BY DEF EtagOK, IsNoEntry
<1>6. \A u \in Configs : f[u] = e \/ f[u] = d[u] \/ f[u] = NoEntry
  BY <1>2
<1> QED BY <1>2, <1>4, <1>5, <1>6

LEMMA CrashStep ==
    ASSUME CacheInv, CrashInStore
    PROVE  CacheInv'
<1> DEFINE e == IF Matches THEN Prolonged(data[k]) ELSE Fresh
           d == [data EXCEPT ![k] = e]
<1>1. at = "sent" /\ file' \in Cut(d) /\ Dies("off") /\ UNCHANGED server
  BY DEF CrashInStore
<1>2. k \in Configs /\ TypeOK /\ CurrentInv /\ EtagInv /\ Running
  BY <1>1 DEF CacheInv, PlaceInv, Running
<1>3. e \in Entries /\ EtagOK(e)
  BY <1>1, StoredTypes DEF Matches
<1> HIDE DEF e
<1>4. data \in [Configs -> Entries \cup {NoEntry}]
  <2>1. \A u \in Configs : data[u] \in Entries \cup {NoEntry}
    BY <1>2 DEF CurrentInv
  <2>2. data \in [Configs -> Entries \cup {NoEntry, Unreadable}]
    BY <1>2 DEF TypeOK
  <2> QED BY <2>1, <2>2
<1>5. d \in [Configs -> Entries \cup {NoEntry}] /\ \A u \in Configs : EtagOK(d[u])
  BY <1>2, <1>3, <1>4 DEF EtagInv
<1> HIDE DEF d
<1> QED BY <1>1, <1>5, CutEntries, DiesStep

(* The answers of the server, and what is taken for one. *)
LEMMA AnswerStep ==
    ASSUME CacheInv, Answer
    PROVE  CacheInv'
<1>1. at = "sent"
  BY DEF Answer, Answer200, Answer304, NoAnswerReadsAs304, AnswerFails, AnswerIsBad
<1>2. k \in Configs /\ conf[k] \in Configurations
  BY <1>1 DEF CacheInv, PlaceInv, TypeOK
<1>3. ASSUME NEW e \in Entries, EtagOK(e), Confirmed(e) PROVE CacheInv'
  <2>1. Prolonged(e) \in Entries /\ EtagOK(Prolonged(e))
    BY <1>1, <1>3, StoredTypes
  <2> DEFINE d == Prolonged(e)
             c == ImportCached(conf[k], d)
  <2>2. Succeeds(c, d)
    BY <1>3 DEF Confirmed
  <2> HIDE DEF d
  <2>3. c \in Configurations /\ c.downloaded /\ c.settings = d.data /\ c.expires = d.expires
    BY <1>2, <2>1, ImportedTypes DEF d
  <2> HIDE DEF c
  <2> QED BY <1>1, <2>1, <2>2, <2>3, SucceedsStep DEF d
<1>4. CASE Answer200
  <2> DEFINE c == [ImportCached(conf[k], Fresh) EXCEPT !.downloadAttempt = 0]
  <2>1. Fresh \in Entries /\ EtagOK(Fresh)
    BY <1>1, StoredTypes
  <2>2. Succeeds(c, Fresh)
    BY <1>4 DEF Answer200
  <2>3. c \in Configurations /\ c.downloaded /\ c.settings = Fresh.data /\ c.expires = Fresh.expires
    <3> DEFINE i == ImportCached(conf[k], Fresh)
    <3>1. i \in Configurations /\ i.downloaded /\ i.settings = Fresh.data
          /\ i.expires = Fresh.expires
      BY <1>2, <2>1, ImportedTypes
    <3> HIDE DEF i
    <3>2. 0 \in 0..MaxShift
      BY ConfigurationAssumption
    <3>3. [i EXCEPT !.downloadAttempt = 0] \in Configurations
          /\ [i EXCEPT !.downloadAttempt = 0].downloaded
          /\ [i EXCEPT !.downloadAttempt = 0].settings = Fresh.data
          /\ [i EXCEPT !.downloadAttempt = 0].expires = Fresh.expires
      BY <3>1, <3>2 DEF Configurations
    <3> QED BY <3>3 DEF i
  <2> HIDE DEF c
  <2> QED BY <1>1, <2>1, <2>2, <2>3, SucceedsStep
<1>5. CASE Answer304
  <2>1. data[k] # NoEntry /\ Confirmed(data[k])
    BY <1>5 DEF Answer304, Matches
  <2> QED BY <1>1, <1>3, <2>1, StoredTypes
<1>6. CASE NoAnswerReadsAs304
  <2>1. CASE data[k] # NoEntry
    <3>1. Confirmed(data[k])
      BY <1>6, <2>1 DEF NoAnswerReadsAs304
    <3> QED BY <1>1, <1>3, <2>1, <3>1, StoredTypes
  <2>2. CASE data[k] = NoEntry
    <3>1. PICK i \in 0..MaxInterval :
            Confirmed([etag |-> NoEtag, data |-> NoSettings, expires |-> 0,
                       refreshInterval |-> i])
      BY <1>6, <2>2 DEF NoAnswerReadsAs304
    <3> DEFINE e == [etag |-> NoEtag, data |-> NoSettings, expires |-> 0, refreshInterval |-> i]
    <3>2. NoSettings \in Settings /\ 0 \in 0..MaxInterval
      BY NewTypes, ConfigurationAssumption DEF NewConfiguration, Configurations
    <3>3. e \in Entries /\ EtagOK(e)
      BY <3>2 DEF Entries, EtagOK
    <3> HIDE DEF e
    <3> QED BY <1>3, <3>1, <3>3 DEF e
  <2> QED BY <2>1, <2>2
<1>7. CASE AnswerIsBad
  <2>1. Dies("aborted") /\ UNCHANGED <<file, server>>
    BY <1>7 DEF AnswerIsBad
  <2>2. file' \in [Configs -> Entries \cup {NoEntry, Unreadable}]
        /\ \A u \in Configs : EtagOK(file'[u])
    BY <2>1 DEF CacheInv, TypeOK, EtagInv
  <2> QED BY <2>1, <2>2, DiesStep
<1> QED BY <1>4, <1>5, <1>6, <1>7, FailsStep DEF Answer

-----------------------------------------------------------------------------
LEMMA CacheStep ==
    ASSUME CacheInv, [Next]_vars
    PROVE  CacheInv'
<1>1. CASE \E u \in Configs, v \in Versions : Publish(u, v)
  <2>1. PICK u \in Configs, v \in Versions : Publish(u, v)
    BY <1>1
  <2>2. TypeOK' /\ PlaceInv' /\ LimitsInv' /\ (Running' => Running)
    BY <2>1 DEF Publish, CacheInv, TypeOK, PlaceInv, LimitsInv, Running
  <2> QED BY <2>1, <2>2, QuietStep DEF Publish
<1>2. CASE Exit
  <2>1. Dies("off") /\ UNCHANGED <<file, server>>
    BY <1>2 DEF Exit
  <2>2. file' \in [Configs -> Entries \cup {NoEntry, Unreadable}]
        /\ \A u \in Configs : EtagOK(file'[u])
    BY <2>1 DEF CacheInv, TypeOK, EtagInv
  <2> QED BY <2>1, <2>2, DiesStep
<1>3. CASE UNCHANGED vars
  <2>1. TypeOK' /\ PlaceInv' /\ LimitsInv' /\ (Running' => Running)
    BY <1>3 DEF vars, CacheInv, TypeOK, PlaceInv, LimitsInv, Running
  <2> QED BY <1>3, <2>1, QuietStep DEF vars
<1> QED BY <1>1, <1>2, <1>3, BootStep, LoopStep, AnswerStep, TickStep, CrashStep DEF Next

LEMMA InitCache == Init => CacheInv
<1> SUFFICES ASSUME Init PROVE CacheInv
  OBVIOUS
<1>1. TypeOK
  <2>1. Default \in [Props -> Values \cup {Default[p] : p \in Props}]
    BY ConfigurationAssumption
  <2>2. 1 \in 1..(NumConfigs + 1) /\ 0 \in 0..MaxElapsed
    BY ConfigurationAssumption
  <2> QED BY <2>1, <2>2, NewTypes DEF Init, TypeOK
<1>2. PlaceInv /\ LimitsInv /\ CurrentInv
  BY DEF Init, PlaceInv, LimitsInv, CurrentInv, Running
<1>3. EtagInv
  BY NewTypes DEF Init, EtagInv
<1> QED BY <1>1, <1>2, <1>3 DEF CacheInv

LEMMA CacheAlways == Spec => []CacheInv
<1>1. CacheInv /\ [Next]_vars => CacheInv'
  BY CacheStep
<1> QED BY <1>1, InitCache, PTL DEF Spec

(* When downloadConfigs has ended, the limits that are passed on are those of the
   configurations, for each the value in the first that sets it, whichever of the
   downloads failed, and also after a restart. *)
THEOREM LimitsFollow == Spec => []LimitsFollowConfig
<1>1. CacheInv => LimitsFollowConfig
  BY DEF CacheInv, LimitsInv, LimitsFollowConfig
<1> QED BY <1>1, CacheAlways, PTL

(* In a running process a configuration and its entry of the cache in memory, the
   one store() writes, agree. *)
THEOREM EntryCurrent == Spec => []EntryIsCurrent
<1>1. CacheInv => EntryIsCurrent
  BY DEF CacheInv, CurrentInv, EntryIsCurrent
<1> QED BY <1>1, CacheAlways, PTL

(* No entry, in memory or on disk, whole or cut off by a crash, has an etag
   whose settings are others than the entry's. *)
THEOREM EtagMatches == Spec => []EtagMatchesData
<1>1. ASSUME CacheInv PROVE EtagMatchesData
  <2> SUFFICES ASSUME NEW u \in Configs, NEW d \in {data, file},
                      d[u] \notin {NoEntry, Unreadable}, d[u].etag # NoEtag
               PROVE  d[u].data = SettingsOf[d[u].etag]
    BY DEF EtagMatchesData
  <2>1. EtagOK(d[u])
    BY <1>1 DEF CacheInv, EtagInv
  <2> QED BY <2>1 DEF EtagOK, IsNoEntry
<1>2. CacheInv => EtagMatchesData
  BY <1>1
<1> QED BY <1>2, CacheAlways, PTL
=============================================================================
