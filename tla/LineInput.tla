----------------------------- MODULE LineInput -----------------------------
(***************************************************************************)
(* What reading from the console promises: characters are edited until a   *)
(* line is complete (or the buffer is full), complete input arrives in the *)
(* order in which it was typed, a read() ends with a newline, and an end   *)
(* of file is seen by exactly one read(), which returns nothing.  Only a   *)
(* read() into a bad address loses input, one character.                   *)
(***************************************************************************)
EXTENDS Naturals, Sequences

CONSTANTS Reader, Char, Size

VARIABLES
  complete,  \* input that readers may have
  edit,      \* the line being typed
  got        \* what the last read() of each reader has got so far

lvars == <<complete, edit, got>>

LInit == complete = <<>> /\ edit = <<>> /\ got = [p \in Reader |-> <<>>]

Type(c) ==
  LET line == Append(edit, c)
      full == Len(complete) + Len(line) = Size
  IN  /\ Len(complete) + Len(edit) < Size
      /\ IF c \in {"newline", "eof"} \/ full
         THEN complete' = complete \o line /\ edit' = <<>>
         ELSE edit' = line /\ UNCHANGED complete
      /\ UNCHANGED got

Erase ==
  /\ edit # <<>>
  /\ edit' = SubSeq(edit, 1, Len(edit) - 1)
  /\ UNCHANGED <<complete, got>>

KillLine == edit' = <<>> /\ UNCHANGED <<complete, got>>

Read(p) == got' = [got EXCEPT ![p] = <<>>] /\ UNCHANGED <<complete, edit>>

Take(p) ==
  /\ complete # <<>> /\ Head(complete) # "eof"
  /\ got[p] # <<>> => got[p][Len(got[p])] # "newline"
  /\ got' = [got EXCEPT ![p] = Append(@, Head(complete))]
  /\ complete' = Tail(complete)
  /\ UNCHANGED edit

TakeEof(p) ==
  /\ complete # <<>> /\ Head(complete) = "eof" /\ got[p] = <<>>
  /\ complete' = Tail(complete)
  /\ UNCHANGED <<edit, got>>

Lose ==
  /\ complete # <<>> /\ Head(complete) # "eof"
  /\ complete' = Tail(complete)
  /\ UNCHANGED <<edit, got>>

LNext ==
  \/ \E c \in Char : Type(c)
  \/ Erase \/ KillLine \/ Lose
  \/ \E p \in Reader : Read(p) \/ Take(p) \/ TakeEof(p)

LSpec == LInit /\ [][LNext]_lvars
=============================================================================
