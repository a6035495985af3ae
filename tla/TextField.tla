------------------------------- MODULE TextField -------------------------------
(***************************************************************************)
(* What a text field promises its user: characters, a cursor and the other *)
(* end of the selection, both between characters.                          *)
(***************************************************************************)
EXTENDS Integers, Sequences

CONSTANTS Space,                \* a character between words
          Texts                 \* what the game loads into the field

VARIABLES chars, cursor, anchor

field == <<chars, cursor, anchor>>

Init == chars = <<>> /\ cursor = 0 /\ anchor = 0

Before(k) == SubSeq(chars, 1, k)
After(k) == SubSeq(chars, k + 1, Len(chars))

\* Something is typed or pasted at the cursor.
Put ==
    \E n \in 1..(Len(chars') - Len(chars)) :
        LET typed == SubSeq(chars', cursor + 1, cursor + n)
        IN  /\ chars' = Before(cursor) \o typed \o After(cursor)
            /\ cursor' = cursor + n
            /\ anchor' = cursor'

\* The character before the cursor is removed, or all back to the edge of a word.
Cut ==
    \E k \in 0..(cursor - 1) :
        /\ \/ k \in {0, cursor - 1}
           \/ Space \in {chars[k], chars[k + 1]}
        /\ chars' = Before(k) \o After(cursor)
        /\ cursor' = k
        /\ anchor' = k

\* The character after the cursor is removed.
CutNext ==
    /\ cursor < Len(chars)
    /\ chars' = Before(cursor) \o After(cursor + 1)
    /\ cursor' = cursor
    /\ anchor' = cursor

\* The cursor moves; the selection ends there, or follows it.
Move ==
    /\ cursor' \in 0..Len(chars)
    /\ anchor' \in {anchor, cursor'}
    /\ UNCHANGED chars

\* The game replaces the text and says where the cursor is, or leaves it at the
\* end.
Load ==
    /\ chars' \in Texts
    /\ cursor' \in 0..Len(chars')
    /\ anchor' \in {cursor', Len(chars')}

Next == Put \/ Cut \/ CutNext \/ Move \/ Load
================================================================================
