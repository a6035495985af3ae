---------------------------- MODULE TextInputHandler ----------------------------
(***************************************************************************)
(* TextInputHandler (text_input_handler.cpp): the text field behind the    *)
(* game's soft keyboard.  The text is UTF-8, and both ends of the selection *)
(* are kept twice: as a byte position, which the editing uses, and as a    *)
(* character position, which the game is told.  Positions count from 0, so *)
(* the byte at position p is currentText[p + 1].                           *)
(*                                                                         *)
(* A byte is one of a few: an ASCII letter, one of the spaces, the first   *)
(* byte of a character of two to four bytes, a byte that continues one.    *)
(* The callbacks run the whole handler on one thread, so each operation is *)
(* one step.  Left out: keepOnce, which nothing in the program sets, and   *)
(* enabled, which the handler does not read.                               *)
(*                                                                         *)
(* Two operations let the two positions drift apart; the history variable  *)
(* spoiled names the ones that happened since the text was last replaced.  *)
(* Where the code then works outside the string (undefined behaviour), or  *)
(* gets a position inside a character, the model stops with lost set.      *)
(***************************************************************************)
EXTENDS Integers, Sequences, SequencesExt, FiniteSetsExt

CONSTANTS
    Inputs,         \* what is typed or pasted, apart from the two delete keys
    GameTexts,      \* the texts the game passes
    Carets,         \* the positions the game sets
    MaxBytes        \* bound: how long the text grows

Letter == "a"
Space == "_"
Lead2 == "2"
Lead3 == "3"
Lead4 == "4"
Cont == "c"
Bytes == {Letter, Space, Lead2, Lead3, Lead4, Cont}

\* UTF8Util::getCharByteSize
CharByteSize(b) ==
    CASE b = Lead4 -> 4 [] b = Lead3 -> 3 [] b = Lead2 -> 2 [] OTHER -> 1

\* while(... continuation byte) p++, in the text s.
EndIn(s, p) == Min({Len(s)} \cup {k \in p..(Len(s) - 1) : s[k + 1] # Cont})

\* s is whole characters: its first byte begins one, and each that begins has as
\* many bytes as its first one says.
IsUTF8(s) ==
    \A i \in 1..Len(s) :
        /\ i = 1 => s[i] # Cont
        /\ s[i] # Cont => EndIn(s, i) = i - 1 + CharByteSize(s[i])

\* What the window system and the game pass is UTF-8.
ASSUME InputsAssumption ==
    /\ Inputs \subseteq {s \in Seq(Bytes) : s # <<>> /\ IsUTF8(s)}
    /\ GameTexts \subseteq {s \in Seq(Bytes) : IsUTF8(s) /\ Len(s) <= MaxBytes}
    /\ Carets \subseteq Int
    /\ MaxBytes \in Nat

VARIABLES
    currentText,
    caret,          \* the cursor: <<byte position, character position>>
    copy,           \* the other end of the selection
    shiftPressed, altPressed,
    ignoreNextHideKeyboard,
    spoiled,        \* history: "word", "beyond"
    lost            \* the position is not one of the text any more

currentTextPosition == caret[1]
currentTextPositionUTF == caret[2]
currentTextCopyPosition == copy[1]
currentTextCopyPositionUTF == copy[2]
mods == <<shiftPressed, altPressed>>
textVars == <<currentText, caret, copy, mods, ignoreNextHideKeyboard, spoiled, lost>>

TextInit ==
    /\ currentText = <<>>
    /\ caret = <<0, 0>> /\ copy = <<0, 0>>
    /\ shiftPressed = FALSE /\ altPressed = FALSE
    /\ ignoreNextHideKeyboard = FALSE
    /\ spoiled = {} /\ lost = FALSE

---------------------------------------------------------------------------------
Size == Len(currentText)
At(p) == currentText[p + 1]
IsSpace(p) == At(p) = Space
IsCont(p) == At(p) = Cont

\* Mutation: every byte counts as a character.
GetLength_Bytes(s, len) == len

\* UTF8Util::getLength: the characters that begin in the first len bytes.
GetLength(s, len) ==
    LET from[i \in 0..(len + 3)] ==
            IF i >= len THEN 0 ELSE 1 + from[i + CharByteSize(s[i + 1])]
    IN  from[0]

\* UTF8Util::getBytePosFromUTF: past the end it is the number of characters.
GetBytePosFromUTF(s, utflen) ==
    LET from[i \in 0..(Len(s) + 3)] ==
            LET next == i + CharByteSize(s[i + 1])
                ret == GetLength(s, i) + 1
            IN  IF i >= Len(s) THEN GetLength(s, Len(s))
                ELSE IF ret = utflen THEN next ELSE from[next]
    IN  IF utflen = 0 THEN 0 ELSE from[0]

\* The places where the loops of a word movement stop, going back from p and
\* forth from it: the nearest one of stops, or the end of the text.
Back(p, stops) == Max({0} \cup {k \in stops : k < p})
Forth(p, stops) == Min({Size} \cup {k \in stops : k > p})

\* The bytes that are spaces, those that are not, and those that follow a space.
Spaces == {k \in 1..(Size - 1) : IsSpace(k)}
NonSpaces == 1..(Size - 1) \ Spaces
AfterSpaces == {k \in 1..(Size - 1) : IsSpace(k - 1)}

\* while(... continuation byte) p--, and p++.
CharStart(p) == IF p <= 0 THEN p ELSE Max({0} \cup {k \in 1..p : ~IsCont(k)})
CharEnd(p) == EndIn(currentText, p)

---------------------------------------------------------------------------------
SetCaret(p, utf) == caret' = <<p, utf>>

\* !shiftPressed: the selection ends where the cursor is.
Collapse(shift) == copy' = IF shift THEN copy ELSE caret'

\* The text as the game passes it, with the cursor at its end.
Update(s) ==
    /\ currentText' = s
    /\ SetCaret(Len(s), GetLength(s, Len(s)))
    /\ copy' = caret'
    /\ spoiled' = {}
    /\ UNCHANGED <<mods, lost>>

\* showKeyboard, setSoftKeyboardActive(true): enable.
ShowKeyboard(s) ==
    /\ Update(s)
    /\ ignoreNextHideKeyboard' = FALSE

\* updateTextboxText
UpdateTextboxText(s) ==
    /\ Update(s)
    /\ ignoreNextHideKeyboard' = TRUE

\* setTextBoxBackend
SetTextBoxBackend(s) == Update(s) /\ UNCHANGED ignoreNextHideKeyboard

\* getCaretPosition, getCursorPosition
GetCaretPosition ==
    /\ ignoreNextHideKeyboard' = FALSE
    /\ UNCHANGED <<currentText, caret, copy, mods, spoiled, lost>>

\* hideKeyboard: disable, unless the text was just updated.
HideKeyboard ==
    /\ ignoreNextHideKeyboard' = FALSE
    /\ IF ignoreNextHideKeyboard
       THEN UNCHANGED <<currentText, caret, copy, mods, spoiled, lost>>
       ELSE Update(<<>>)

\* Where setCursorPosition(pos) puts the cursor in the text s.
CursorAt(s, pos) ==
    IF pos < 0 THEN <<Len(s), GetLength(s, Len(s))>>
    ELSE <<GetBytePosFromUTF(s, pos), pos>>

Beyond(s, pos) == IF pos > GetLength(s, Len(s)) THEN {"beyond"} ELSE {}

\* Past the end the byte position may fall into a character.
FallsInside(s, p) == p < Len(s) /\ s[p + 1] = Cont

SetCaretPosition(pos) ==
    /\ caret' = CursorAt(currentText, pos)
    /\ Collapse(shiftPressed)
    /\ spoiled' = spoiled \cup Beyond(currentText, pos)
    /\ lost' = FallsInside(currentText, caret'[1])
    /\ UNCHANGED <<currentText, mods, ignoreNextHideKeyboard>>

\* TextInputConnection::setState: update and setCursorPosition.
SetState(s, pos) ==
    /\ currentText' = s
    /\ caret' = CursorAt(s, pos)
    /\ copy' = IF shiftPressed THEN CursorAt(s, -1) ELSE caret'
    /\ spoiled' = Beyond(s, pos)
    /\ lost' = FallsInside(s, caret'[1])
    /\ UNCHANGED <<mods, ignoreNextHideKeyboard>>

---------------------------------------------------------------------------------
\* Mutation: the other end of the selection stays where it was.
Edited_KeepsCopy(s) ==
    /\ currentText' = s
    /\ UNCHANGED <<copy, mods, ignoreNextHideKeyboard>>

\* The end of onTextInput.
Edited(s) ==
    /\ currentText' = s
    /\ copy' = caret'
    /\ UNCHANGED <<mods, ignoreNextHideKeyboard>>

Type(s) ==
    /\ Size + Len(s) <= MaxBytes
    /\ SetCaret(currentTextPosition + Len(s),
                currentTextPositionUTF + GetLength(s, Len(s)))
    /\ Edited(SubSeq(currentText, 1, currentTextPosition) \o s
                \o SubSeq(currentText, currentTextPosition + 1, Size))
    /\ UNCHANGED <<spoiled, lost>>

Erase(from, to) == SubSeq(currentText, 1, from) \o SubSeq(currentText, to + 1, Size)

\* Mutation: one byte is removed.
BackspaceTo_OneByte(p) == p

\* Where the removal starts: at the beginning of a character.
BackspaceTo(p) == CharStart(p)

\* The character position is above 0, the byte position is 0.
BackspaceUnderflows ==
    /\ currentTextPositionUTF > 0 /\ currentTextPosition = 0
    /\ lost' = TRUE
    /\ UNCHANGED <<currentText, caret, copy, mods, ignoreNextHideKeyboard, spoiled>>

Backspace ==
    /\ currentTextPositionUTF > 0 /\ currentTextPosition > 0 /\ ~altPressed
    /\ LET start == BackspaceTo(currentTextPosition - 1)
       IN  /\ SetCaret(start, currentTextPositionUTF - 1)
           /\ Edited(Erase(start, currentTextPosition))
    /\ UNCHANGED <<spoiled, lost>>

\* The start of what alt and backspace remove: the spaces, then the word, and
\* the last space before it.
WordStart ==
    LET p == currentTextPosition - 1
        q == IF IsSpace(p) THEN Back(p, 1..p \ (Spaces \cap AfterSpaces)) ELSE p
    IN  Back(q, Spaces \cup AfterSpaces)

\* The byte position is taken for the character position.
WordBackspace ==
    /\ currentTextPositionUTF > 0 /\ currentTextPosition > 0 /\ altPressed
    /\ LET start == BackspaceTo(WordStart)
       IN  /\ SetCaret(start, WordStart)
           /\ Edited(Erase(start, currentTextPosition))
           /\ spoiled' = IF Cont \in ToSet(SubSeq(currentText, 1, WordStart))
                         THEN spoiled \cup {"word"} ELSE spoiled
    /\ UNCHANGED lost

Delete ==
    /\ currentTextPosition < Size
    /\ UNCHANGED caret
    /\ Edited(Erase(currentTextPosition, CharEnd(currentTextPosition + 1)))
    /\ UNCHANGED <<spoiled, lost>>

---------------------------------------------------------------------------------
\* onKeyPressed notes the modifiers first, whatever the key and the action.
KeyEvent(shift, alt) ==
    /\ shiftPressed' = shift /\ altPressed' = alt
    /\ UNCHANGED <<currentText, ignoreNextHideKeyboard, spoiled, lost>>

\* A release, or a key that moves nothing.
OtherKey(shift, alt) == KeyEvent(shift, alt) /\ UNCHANGED <<caret, copy>>

Selected == currentTextPosition # currentTextCopyPosition

Exact(p) == <<p, GetLength(currentText, p)>>

\* An arrow key without shift ends the selection at one of its ends.
EndSelection(p, shift, alt) ==
    /\ ~shift /\ Selected
    /\ KeyEvent(shift, alt)
    /\ caret' = Exact(p)
    /\ copy' = caret'

Right(shift, alt) ==
    LET p == currentTextPosition
        q == IF IsSpace(p) THEN Forth(p, NonSpaces) ELSE p
        wordEnd == IF q < Size THEN Forth(q, Spaces) ELSE q
    IN  \/ EndSelection(Max({p, currentTextCopyPosition}), shift, alt)
        \/ /\ shift \/ ~Selected
           /\ KeyEvent(shift, alt)
           /\ IF p >= Size THEN UNCHANGED <<caret, copy>>
              ELSE /\ caret' = IF alt THEN Exact(wordEnd)
                               ELSE <<CharEnd(p + 1), currentTextPositionUTF + 1>>
                   /\ Collapse(shift)

Left(shift, alt) ==
    LET p == currentTextPosition
        q == IF IsSpace(p - 1) THEN Back(p, 1..p \ AfterSpaces) ELSE p
        wordStart == Back(q, AfterSpaces)
    IN  \/ EndSelection(Min({p, currentTextCopyPosition}), shift, alt)
        \/ /\ shift \/ ~Selected
           /\ KeyEvent(shift, alt)
           /\ IF p <= 0 THEN UNCHANGED <<caret, copy>>
              ELSE /\ caret' = IF alt THEN Exact(wordStart)
                               ELSE <<CharStart(p - 1), currentTextPositionUTF - 1>>
                   /\ Collapse(shift)

Home(shift, alt) ==
    KeyEvent(shift, alt) /\ caret' = <<0, 0>> /\ Collapse(shift)

End(shift, alt) ==
    KeyEvent(shift, alt) /\ caret' = Exact(Size) /\ Collapse(shift)

---------------------------------------------------------------------------------
\* What the game does.
Game ==
    \/ \E s \in GameTexts : ShowKeyboard(s) \/ UpdateTextboxText(s) \/ SetTextBoxBackend(s)
    \/ \E s \in GameTexts, pos \in Carets : SetState(s, pos)
    \/ HideKeyboard \/ GetCaretPosition
    \/ \E pos \in Carets : SetCaretPosition(pos)

\* What the user does.
User ==
    \/ \E s \in Inputs : Type(s)
    \/ Backspace \/ WordBackspace \/ Delete \/ BackspaceUnderflows
    \/ \E shift, alt \in BOOLEAN :
        \/ OtherKey(shift, alt)
        \/ Right(shift, alt) \/ Left(shift, alt) \/ Home(shift, alt) \/ End(shift, alt)

\* Nothing is said about what follows.
Lost == lost /\ UNCHANGED textVars

TextNext == (~lost /\ (Game \/ User)) \/ Lost

TextSpec == TextInit /\ [][TextNext]_textVars

---------------------------------------------------------------------------------
TextTypeOK ==
    /\ currentText \in Seq(Bytes) /\ Size <= MaxBytes
    /\ caret \in Nat \X Nat /\ copy \in Nat \X Nat
    /\ mods \in BOOLEAN \X BOOLEAN /\ ignoreNextHideKeyboard \in BOOLEAN
    /\ spoiled \subseteq {"word", "beyond"} /\ lost \in BOOLEAN

\* The characters of s, each by its first byte.
Characters(s) ==
    LET upTo[n \in 0..Len(s)] ==
            IF n = 0 THEN <<>>
            ELSE IF s[n] = Cont THEN upTo[n - 1] ELSE Append(upTo[n - 1], s[n])
    IN  upTo[Len(s)]

\* The number of characters before byte position p.
Index(p) == Len(Characters(SubSeq(currentText, 1, p)))

\* The text stays whole characters and both ends of the selection lie between
\* two of them, within the text: nothing is inserted into a character, deleted
\* from it or copied without its other bytes.  It ends with `lost': a caret past
\* the end of the text may be put inside a character, and a backspace at the start
\* with a caret that has drifted wraps around.
NoCharacterIsTorn ==
    /\ TextTypeOK
    /\ ~lost =>
        /\ IsUTF8(currentText)
        /\ \A p \in {currentTextPosition, currentTextCopyPosition} :
            p = Size \/ (p < Size /\ ~IsCont(p))

\* The caret the game is told is the place the editing works at, unless alt and
\* backspace removed a word that follows a character of several bytes or the
\* game set a caret past the end; only then can the position be lost.  Even then
\* a caret the game is told is never before the place the editing works at, so a
\* backspace is never refused behind a character.
CaretsAgree ==
    /\ spoiled = {} =>
        /\ currentTextPositionUTF = Index(currentTextPosition)
        /\ currentTextCopyPositionUTF = Index(currentTextCopyPosition)
        /\ ~lost
    /\ ~lost => currentTextPositionUTF >= Index(currentTextPosition)

Field ==
    INSTANCE TextField WITH
        Texts <- {Characters(s) : s \in GameTexts \cup {<<>>}},
        chars <- Characters(currentText),
        cursor <- Index(currentTextPosition),
        anchor <- Index(currentTextCopyPosition)

\* The bytes behave as the characters of a text field: every key is one edit of
\* whole characters, also after the reported caret has drifted away.
ImplementsTextField ==
    /\ Field!Init
    /\ [][~lost' =>
            \/ Field!Next
            \/ UNCHANGED <<Characters(currentText), Index(currentTextPosition),
                           Index(currentTextCopyPosition)>>]_textVars
================================================================================
