------------------------------- MODULE Memory -------------------------------
(***************************************************************************)
(* The memory of the chat: the messages on the screen, the history file    *)
(* (internal/history), which is written to a file beside it and renamed,   *)
(* and the prompt of an agent (buildPrompt in cmd/maxam/tui.go), which     *)
(* shortens the history when it comes near the limit of the context        *)
(* (internal/contextmon).  All programs of a user share one file.          *)
(***************************************************************************)
EXTENDS Naturals, Sequences, SequencesExt, FiniteSetsExt

CONSTANTS Programs,
          MaxSaid,     \* bound: the messages that are ever said
          MaxMisses,   \* bound: the writes that fail
          Sizes,       \* the sizes of a message, in thousands of characters
          MaxMessages, \* history.MaxMessages
          BaseCount,   \* the messages a prompt shows, and those of a short one,
          ShortCount,  \* which are shown however long they are
          MaxChars,    \* the size of the messages a prompt shows beyond ShortCount
          Frame,       \* the size of the rest of the prompt
          Warning, Critical, Truncation \* the thresholds, as sizes

VARIABLES file,     \* the history file, Torn while it is half written
          tmp,      \* the file beside it
          messages, \* per program: History.Messages
          screen,   \* per program: tuiModel.messages
          saver,    \* per program: where the save under the lock of the history is
          trim,     \* per program: the count a command is about to trim to
          dirty,    \* per program: its last save failed
          said,     \* the messages said so far
          missed,   \* the writes that have failed
          shared    \* history: two programs have run at once

memoryVars == <<file, tmp, messages, screen, saver, trim, dirty, said, missed, shared>>

None == [state |-> "none", messages |-> <<>>]
Torn == [state |-> "torn", messages |-> <<>>]
Whole(all) == [state |-> "whole", messages |-> all]
NoTrim == MaxSaid + 1

MemoryInit ==
    /\ file = None /\ tmp = None
    /\ messages = [p \in Programs |-> <<>>] /\ screen = messages
    /\ saver = [p \in Programs |-> "off"] /\ trim = [p \in Programs |-> NoTrim]
    /\ dirty = [p \in Programs |-> FALSE]
    /\ said = 0 /\ missed = 0 /\ shared = FALSE

LastOf(s, n) == IF Len(s) > n THEN SubSeq(s, Len(s) - n + 1, Len(s)) ELSE s
SizeOf(s) == FoldSeq(LAMBDA m, sum : m.size + sum, 0, s)
SaverAt(p, where) == saver' = [saver EXCEPT ![p] = where]
Running == {p \in Programs : saver[p] # "off"}

----------------------------------------------------------------------------
(* Start and crash; a program that cannot read the file goes on without it *)

Open(p) ==
    /\ saver[p] = "off" /\ file # Torn
    /\ messages' = [messages EXCEPT ![p] = file.messages]
    /\ screen' = [screen EXCEPT ![p] = messages'[p]]
    /\ dirty' = [dirty EXCEPT ![p] = file = None]
    /\ SaverAt(p, "idle")
    /\ shared' = (shared \/ Running # {})
    /\ UNCHANGED <<file, tmp, trim, said, missed>>

Crash(p) ==
    /\ saver[p] # "off"
    /\ SaverAt(p, "off")
    /\ messages' = [messages EXCEPT ![p] = <<>>] /\ screen' = [screen EXCEPT ![p] = <<>>]
    /\ trim' = [trim EXCEPT ![p] = NoTrim] /\ dirty' = [dirty EXCEPT ![p] = FALSE]
    /\ UNCHANGED <<file, tmp, said, missed, shared>>

----------------------------------------------------------------------------
(* Add, Clear and TrimToSize change the messages and save them under the lock *)

Changed(p, new) ==
    /\ saver[p] = "idle" /\ SaverAt(p, "save")
    /\ messages' = [messages EXCEPT ![p] = new]
    /\ UNCHANGED <<file, tmp, dirty, missed, shared>>

\* A message that is said goes on the screen and into the history.
Add(p) ==
    /\ said < MaxSaid /\ said' = said + 1
    /\ \E low \in BOOLEAN, size \in Sizes :
          LET m == [n |-> said, low |-> low, size |-> size] IN
          /\ Changed(p, LastOf(Append(messages[p], m), MaxMessages))
          /\ screen' = [screen EXCEPT ![p] = Append(@, m)]
    /\ UNCHANGED trim

Clear(p) ==
    /\ screen[p] # <<>>
    /\ Changed(p, <<>>)
    /\ screen' = [screen EXCEPT ![p] = <<>>]
    /\ UNCHANGED <<trim, said>>

TrimToSize(p) ==
    /\ trim[p] # NoTrim
    /\ Changed(p, LastOf(messages[p], trim[p]))
    /\ trim' = [trim EXCEPT ![p] = NoTrim]
    /\ UNCHANGED <<screen, said>>

Settled(p, bad) == SaverAt(p, "idle") /\ dirty' = [dirty EXCEPT ![p] = bad]

\* The file is cut to nothing before it is written.
WriteBegin(p) ==
    /\ saver[p] = "save" /\ SaverAt(p, "write")
    /\ tmp' = Torn
    /\ UNCHANGED <<file, messages, screen, trim, dirty, said, missed, shared>>

WriteEnd(p) ==
    /\ saver[p] = "write" /\ SaverAt(p, "rename")
    /\ tmp' = Whole(messages[p])
    /\ UNCHANGED <<file, messages, screen, trim, dirty, said, missed, shared>>

WriteFails(p) ==
    /\ saver[p] \in {"save", "write"}
    /\ missed < MaxMisses /\ missed' = missed + 1
    /\ Settled(p, TRUE)
    /\ UNCHANGED <<file, tmp, messages, screen, trim, said, shared>>

\* Mutant: the file is renamed at the start of the write.
RenameEarly(p) ==
    /\ saver[p] \in {"write", "rename"}
    /\ IF tmp = None THEN Settled(p, TRUE) /\ UNCHANGED <<file, tmp>>
       ELSE file' = tmp /\ tmp' = None /\ Settled(p, FALSE)
    /\ UNCHANGED <<messages, screen, trim, said, missed, shared>>

\* Another program may have renamed the file.
Rename(p) ==
    /\ saver[p] = "rename"
    /\ IF tmp = None THEN Settled(p, TRUE) /\ UNCHANGED <<file, tmp>>
       ELSE file' = tmp /\ tmp' = None /\ Settled(p, FALSE)
    /\ UNCHANGED <<messages, screen, trim, said, missed, shared>>

----------------------------------------------------------------------------
(* buildPrompt *)

\* Of the messages worth telling the latest, as many as there is room for.
SelectHistoryMessages(all, count) ==
    LET told == SelectSeq(all, LAMBDA m : ~m.low)
        fits == {k \in 0 .. Min({count, Len(told)}) :
                   \A j \in ShortCount + 1 .. k : SizeOf(LastOf(told, j)) <= MaxChars} IN
    LastOf(told, Max(fits))

Level(size) ==
    CASE size >= Truncation -> "truncate"
      [] size >= Critical -> "critical"
      [] size >= Warning -> "warning"
      [] OTHER -> "ok"
ShouldTruncate(size) == Level(size) = "truncate"

\* A prompt that is too long is built again with fewer messages, and the history is
\* cut to twice as many, of whatever kind.
BuildPrompt(p) ==
    /\ saver[p] # "off" /\ screen[p] # <<>> /\ trim[p] = NoTrim
    /\ \E input \in Sizes :
          ShouldTruncate(Frame + input + SizeOf(SelectHistoryMessages(screen[p], BaseCount)))
    /\ trim' = [trim EXCEPT ![p] = 2 * Len(SelectHistoryMessages(screen[p], ShortCount))]
    /\ UNCHANGED <<file, tmp, messages, screen, saver, dirty, said, missed, shared>>

MemoryNext ==
    \E p \in Programs :
        \/ Open(p) \/ Crash(p) \/ Add(p) \/ Clear(p) \/ TrimToSize(p)
        \/ WriteBegin(p) \/ WriteEnd(p) \/ WriteFails(p) \/ Rename(p)
        \/ BuildPrompt(p)

----------------------------------------------------------------------------
(* Properties *)

\* As long as one program runs at a time, the history file can always be read, and
\* between two saves, none of which has failed, it holds what the program knows.
HistorySurvives ==
    ~shared =>
        /\ file # Torn
        /\ \A p \in Programs : saver[p] = "idle" /\ ~dirty[p] => file = Whole(messages[p])
=============================================================================
