-------------------------------- MODULE Grep --------------------------------
(***************************************************************************)
(* grep (user/grep.c): the matcher, and the loop that reads a file through *)
(* a buffer of GrepBuf bytes of which one is kept for the final 0.  Text   *)
(* is a sequence of characters; "nl" is the newline.                       *)
(***************************************************************************)
EXTENDS Integers, Sequences, FiniteSets, SequencesExt

CONSTANTS GrepBuf,      \* sizeof(buf)
          Patterns,     \* expressions that grep runs with
          Files         \* contents of the files it reads

VARIABLES job,          \* the pattern and the file of this run of grep
          unread,       \* what read() has still to return
          buf,          \* the bytes kept in the buffer
          printed,      \* the lines written
          done

grepVars == <<job, unread, buf, printed, done>>

-----------------------------------------------------------------------------
(* The matcher *)

RECURSIVE Matchhere(_, _)
RECURSIVE Matchstar(_, _, _)

Matchhere(re, text) ==
    \/ re = <<>>
    \/ Len(re) >= 2 /\ re[2] = "*" /\ Matchstar(re[1], Tail(Tail(re)), text)
    \/ re = <<"$">> /\ text = <<>>
    \/ /\ re # <<>> /\ ~(Len(re) >= 2 /\ re[2] = "*") /\ re # <<"$">>
       /\ text # <<>> /\ re[1] \in {".", text[1]}
       /\ Matchhere(Tail(re), Tail(text))

Matchstar_NeedsOne(c, re, text) ==
    /\ text # <<>> /\ c \in {".", text[1]}
    /\ Matchhere(re, Tail(text)) \/ Matchstar(c, re, Tail(text))

Matchstar(c, re, text) ==
    \/ Matchhere(re, text)
    \/ text # <<>> /\ c \in {".", text[1]} /\ Matchstar(c, re, Tail(text))

Match(re, text) ==
    IF re # <<>> /\ re[1] = "^" THEN Matchhere(Tail(re), text)
    ELSE \E i \in 0 .. Len(text) : Matchhere(re, SubSeq(text, i + 1, Len(text)))

-----------------------------------------------------------------------------
(* The loop of grep() *)

(* The lines of s that end, and the bytes after the last of them. *)
Newlines(s) == {i \in 1 .. Len(s) : s[i] = "nl"}
FullLines(s) ==
    LET at == <<0>> \o SetToSortSeq(Newlines(s), <)
    IN  [k \in 1 .. Len(at) - 1 |-> SubSeq(s, at[k] + 1, at[k + 1] - 1)]
Remainder(s) == SubSeq(s, Max(Newlines(s) \cup {0}) + 1, Len(s))

GrepJobs == [re : Patterns, file : Files]

GrepInit(J) ==
    /\ job \in J
    /\ unread = job.file
    /\ buf = <<>> /\ printed = <<>>
    /\ done = FALSE

Consume_DropsRest(s) ==
    /\ printed' = printed \o SelectSeq(FullLines(s), LAMBDA l : Match(job.re, l))
    /\ buf' = <<>>

(* read() returns between one byte and what fits; the lines that are       *)
(* complete are matched and the rest is moved to the front of the buffer.  *)
Consume(s) ==
    /\ printed' = printed \o SelectSeq(FullLines(s), LAMBDA l : Match(job.re, l))
    /\ buf' = Remainder(s)

GrepRead(n) ==
    /\ ~done
    /\ n <= GrepBuf - Len(buf) - 1 /\ n <= Len(unread)
    /\ Consume(buf \o SubSeq(unread, 1, n))
    /\ unread' = SubSeq(unread, n + 1, Len(unread))
    /\ UNCHANGED <<job, done>>

(* read() returns 0 at the end of the file, and when it is asked for 0. *)
GrepEnd ==
    /\ ~done
    /\ unread = <<>> \/ Len(buf) = GrepBuf - 1
    /\ done' = TRUE
    /\ UNCHANGED <<job, unread, buf, printed>>

GrepNext == GrepEnd \/ \E n \in 1 .. GrepBuf : GrepRead(n)

-----------------------------------------------------------------------------
(* What an expression means: its items, each a character that stands once  *)
(* or any number of times, cut the matched text into consecutive pieces.   *)
RECURSIVE Items(_)

Items(re) ==
    IF re = <<>> THEN <<>>
    ELSE IF Len(re) >= 2 /\ re[2] = "*"
         THEN <<[c |-> re[1], star |-> TRUE]>> \o Items(Tail(Tail(re)))
    ELSE <<[c |-> re[1], star |-> FALSE]>> \o Items(Tail(re))

Dollar == [c |-> "$", star |-> FALSE]
AtEnd(items) == items # <<>> /\ items[Len(items)] = Dollar
Body(items) == IF AtEnd(items) THEN Front(items) ELSE items

(* The text between cut[k] and cut[k + 1] is what item k matches. *)
Fits(item, text, from, to) ==
    /\ item.star \/ to = from + 1
    /\ \A i \in from + 1 .. to : item.c \in {".", text[i]}

Meaning(re, text) ==
    LET anchored == re # <<>> /\ re[1] = "^"
        items == Items(IF anchored THEN Tail(re) ELSE re)
        body == Body(items)
    IN  \E cut \in [1 .. Len(body) + 1 -> 0 .. Len(text)] :
           /\ anchored => cut[1] = 0
           /\ AtEnd(items) => cut[Len(body) + 1] = Len(text)
           /\ \A k \in 1 .. Len(body) :
                 cut[k] <= cut[k + 1] /\ Fits(body[k], text, cut[k], cut[k + 1])

(* However the bytes arrive, grep prints the lines that match, each once   *)
(* and in order, up to the first line that does not fit in its buffer      *)
(* (grep(), grep.c:12).                                                    *)
PrintsMatchingLines ==
    done => LET all == FullLines(job.file)
                long == {k \in DOMAIN all : Len(all[k]) >= GrepBuf - 1}
                n == Min({Len(all)} \cup {k - 1 : k \in long})
            IN  printed = SelectSeq(SubSeq(all, 1, n), LAMBDA l : Meaning(job.re, l))
=============================================================================
