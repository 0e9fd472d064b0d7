------------------------------ MODULE LogStream ------------------------------
(***************************************************************************)
(* The log of a job on its way to the browser: the job's process appends   *)
(* to the file, tail_log on the agent polls the file and sends each line   *)
(* as an event, and the control station relays the events to the page.     *)
(* Process, agent and control station run side by side; connections break. *)
(***************************************************************************)
EXTENDS Integers, Sequences, FiniteSetsExt, SequencesExt

CONSTANTS
    MaxBytes,  \* bound on the length of the log
    MaxTail,   \* bound on the number of lines that are replayed
    Chunk,     \* _SEEK_CHUNK
    Output     \* the bytes that the process writes

(* A byte that is a character, the two bytes of another, a blank, a line   *)
(* feed and a carriage return.                                             *)
Bytes == {"a", "lead", "cont", "sp", "lf", "cr"}
End   == {"lf", "cr"}

(* Decoded text: a character by its bytes, and U+FFFD.                     *)
Text == Bytes \cup {"?"}

ASSUME BoundsAssumption == MaxBytes \in Nat /\ MaxTail \in Nat /\ Chunk \in Nat \ {0}
ASSUME OutputAssumption == Output \subseteq Bytes

VARIABLES
    file,   \* the bytes of the log file
    job,    \* does the process run?
    record, \* what the agent's process manager has of the job
    tail,   \* tail_lines of the request
    scan,   \* the locals of _tail_start_offset
    start,  \* the offset tail_log started at
    off,    \* its file pointer
    at,     \* where tail_log is
    sent,   \* the events it has sent: the text of a line, without its end
    cuts,   \* auxiliary: where in the file each of these events ended
    page,   \* the data lines the page has got
    view    \* the page's stream

vars == <<file, job, record, tail, scan, start, off, at, sent, cuts, page, view>>
process == <<file, job, record>>
agent == <<tail, scan, start, off, at, sent, cuts>>
relay == <<page, view>>

(* The agent may never have saved the job before it was restarted.  A job  *)
(* that it has is its child, or reattached: only the pid of the latter may *)
(* belong to another process when the job is over.                         *)
Records == {"untracked", "tracked", "reused", "ended"}

TypeOK ==
    /\ file \in Seq(Bytes) /\ Len(file) <= MaxBytes
    /\ job \in {"running", "over"} /\ record \in Records
    /\ tail \in -1..MaxTail
    /\ scan \in [size: 0..Len(file), end: 0..Len(file), pos: 0..Len(file), newlines: 0..MaxTail]
    /\ start \in 0..Len(file) /\ off \in start..Len(file)
    /\ at \in {"new", "sized", "scan", "read", "check", "drain", "done", "gone"}
    /\ sent \in Seq(Seq(Text)) /\ cuts \in Seq(Nat)
    /\ page \in Seq(Seq(Text))
    /\ view \in {"open", "ended", "failed"}

Init ==
    /\ file = <<>> /\ job = "running" /\ record \in {"tracked", "untracked"}
    /\ tail \in -1..MaxTail
    /\ scan = [size |-> 0, end |-> 0, pos |-> 0, newlines |-> 0]
    /\ start = 0 /\ off = 0 /\ at = "new"
    /\ sent = <<>> /\ cuts = <<>>
    /\ page = <<>> /\ view = "open"

-----------------------------------------------------------------------------
(* The process: its output goes to the file, all of it before it exits.    *)
ProcessWrites(b) ==
    /\ job = "running" /\ Len(file) < MaxBytes
    /\ file' = Append(file, b)
    /\ UNCHANGED <<job, record, agent, relay>>

ProcessExits ==
    /\ job = "running"
    /\ job' = "over"
    /\ UNCHANGED <<file, record, agent, relay>>

(* The pid of a job that is over goes to another process, or is free again.*)
PidChangesHands ==
    /\ job = "over"
    /\ \/ record = "tracked" /\ record' = "reused"
       \/ record = "reused" /\ record' = "tracked"
    /\ UNCHANGED <<file, job, agent, relay>>

-----------------------------------------------------------------------------
(* tail_log opens the file.  Offsets count bytes from 0; byte o of f is    *)
(* f[o + 1].                                                               *)
LineFeeds(f, from, to) == {o \in from..(to - 1): f[o + 1] = "lf"}

(* Mutant: the file pointer stays where the scan began.                    *)
NotSeeked(o) ==
    /\ start' = o /\ off' = 0
    /\ at' = "read"
    /\ UNCHANGED scan

ReplaysFrom(o) ==
    /\ start' = o /\ off' = o
    /\ at' = "read"
    /\ UNCHANGED scan

(* Nothing or all is replayed; the offset of the last lines is looked for. *)
TailLog ==
    /\ at = "new"
    /\ \/ tail = 0 /\ ReplaysFrom(Len(file))
       \/ tail = -1 /\ ReplaysFrom(0)
       \/ /\ tail > 0
          /\ scan' = [scan EXCEPT !.size = Len(file)]
          /\ at' = "sized"
          /\ UNCHANGED <<start, off>>
    /\ UNCHANGED <<process, tail, sent, cuts, relay>>

(* Mutant: the line feed that ends the last line counts like the others.   *)
WholeFile == scan.size

(* The line feed that ends the last line separates nothing.  What is read  *)
(* is the last byte of the file as it is now.                              *)
EffectiveEnd == IF Last(file) = "lf" THEN scan.size - 1 ELSE scan.size

ScanStarts ==
    /\ at = "sized"
    /\ \/ scan.size = 0 /\ ReplaysFrom(0)
       \/ /\ scan.size > 0
          /\ scan' = [scan EXCEPT !.end = EffectiveEnd, !.pos = EffectiveEnd]
          /\ at' = "scan"
          /\ UNCHANGED <<start, off>>
    /\ UNCHANGED <<process, tail, sent, cuts, relay>>

Enough(count) == count >= tail

(* A chunk before pos is read, its line feeds counted backwards: the last  *)
(* lines start behind the tail-th, or more is to be read.                  *)
ScanChunk ==
    LET from  == IF scan.pos > Chunk THEN scan.pos - Chunk ELSE 0
        found == LineFeeds(file, from, scan.pos)
        count == scan.newlines + Cardinality(found)
    IN
    /\ at = "scan" /\ scan.pos > 0
    /\ \/ /\ Enough(count)
          /\ \E o \in found:
                /\ scan.newlines + Cardinality(LineFeeds(file, o, scan.pos)) = tail
                /\ ReplaysFrom(o + 1)
       \/ /\ ~Enough(count)
          /\ scan' = [scan EXCEPT !.pos = from, !.newlines = count]
          /\ UNCHANGED <<start, off, at>>
    /\ UNCHANGED <<process, tail, sent, cuts, relay>>

(* Fewer lines than asked for.                                             *)
ScanEnds ==
    /\ at = "scan" /\ scan.pos = 0
    /\ ReplaysFrom(0)
    /\ UNCHANGED <<process, tail, sent, cuts, relay>>

-----------------------------------------------------------------------------
(* readline: up to the next line feed, or what there is of a line.         *)
LineEnd(o) ==
    LET lfs == LineFeeds(file, o, Len(file)) IN
    IF lfs = {} THEN Len(file) ELSE Min(lfs) + 1

RStrip(s) ==
    LET kept == {i \in DOMAIN s: s[i] \notin End} IN
    IF kept = {} THEN <<>> ELSE SubSeq(s, 1, Max(kept))

(* decode("utf-8", errors="replace"): half a character is none.            *)
Decode(s) ==
    [i \in DOMAIN s |->
        IF \/ s[i] = "lead" /\ ~(i < Len(s) /\ s[i + 1] = "cont")
           \/ s[i] = "cont" /\ ~(i > 1 /\ s[i - 1] = "lead")
        THEN "?" ELSE s[i]]

(* A line, or a part of one, is sent.                                      *)
Yields ==
    /\ off < Len(file)
    /\ off' = LineEnd(off)
    /\ sent' = Append(sent, RStrip(Decode(SubSeq(file, off + 1, LineEnd(off)))))
    /\ cuts' = Append(cuts, LineEnd(off))
    /\ at' = "read"

ReadLine ==
    /\ at = "read"
    /\ \/ Yields
       \/ off = Len(file) /\ at' = "check" /\ UNCHANGED <<off, sent, cuts>>
    /\ UNCHANGED <<process, tail, scan, start, relay>>

(* Mutant: the job counts as running as long as its log has no bytes.      *)
DoneUnlessEmpty == record = "untracked" \/ (job = "over" /\ record = "tracked" /\ file # <<>>)

(* _is_done: get_status looks whether the pid is alive until it is not,    *)
(* and a job that the agent does not know of counts as done.               *)
IsDone ==
    \/ record \in {"untracked", "ended"}
    \/ record = "tracked" /\ job = "over"

Polled == IF IsDone /\ record = "tracked" THEN "ended" ELSE record

(* Mutant: a job that is done ends the stream at once.                     *)
PollsOnce ==
    /\ at = "check"
    /\ at' = IF IsDone THEN "done" ELSE "read"
    /\ record' = Polled
    /\ UNCHANGED <<file, job, tail, scan, start, off, sent, cuts, relay>>

(* The job is asked after, then a pause.                                   *)
Polls ==
    /\ at = "check"
    /\ at' = IF IsDone THEN "drain" ELSE "read"
    /\ record' = Polled
    /\ UNCHANGED <<file, job, tail, scan, start, off, sent, cuts, relay>>

(* Once more, for what was written since the last read.                    *)
Drains ==
    /\ at = "drain"
    /\ \/ Yields
       \/ off = Len(file) /\ at' = "done" /\ UNCHANGED <<off, sent, cuts>>
    /\ UNCHANGED <<process, tail, scan, start, relay>>

(* The agent dies, the tunnel breaks or the request is refused, as long as *)
(* the control station still reads from it: also when all has been sent.   *)
AgentGone ==
    /\ view = "open" /\ at # "gone"
    /\ at' = "gone"
    /\ UNCHANGED <<process, tail, scan, start, off, sent, cuts, relay>>

-----------------------------------------------------------------------------
(* The control station: stream_logs reads the response line by line, where *)
(* a carriage return ends a line too, and yields those that start with     *)
(* "data:" without the blanks around them; of an event with a carriage     *)
(* return in it the rest is dropped.                                       *)
Strip(s) ==
    LET kept == {i \in DOMAIN s: s[i] # "sp"} IN
    IF kept = {} THEN <<>> ELSE SubSeq(s, Min(kept), Max(kept))

DataLine(s) ==
    LET crs == {i \in DOMAIN s: s[i] = "cr"} IN
    Strip(IF crs = {} THEN s ELSE SubSeq(s, 1, Min(crs) - 1))

(* Mutant: the stream ends with the agent's, events on their way are lost. *)
EndsWithAgent ==
    /\ view = "open" /\ at = "done"
    /\ page' = Append(page, <<>>)
    /\ view' = "ended"
    /\ UNCHANGED <<process, agent>>

Relays ==
    /\ view = "open" /\ Len(page) < Len(sent)
    /\ page' = Append(page, DataLine(sent[Len(page) + 1]))
    /\ UNCHANGED <<process, agent, view>>

(* The final event has an empty data line, which is relayed like the rest; *)
(* then the page is told that the stream ends.                             *)
RelayEnds ==
    /\ view = "open" /\ at = "done" /\ Len(page) = Len(sent)
    /\ page' = Append(page, <<>>)
    /\ view' = "ended"
    /\ UNCHANGED <<process, agent>>

(* A stream that breaks, or could not be opened, ends as well, after a     *)
(* line that says so; events on their way are lost.                        *)
RelayFails ==
    /\ view = "open" /\ at = "gone"
    /\ view' = "failed"
    /\ UNCHANGED <<process, agent, page>>

-----------------------------------------------------------------------------
TailStep ==
    \/ TailLog \/ ScanStarts \/ ScanChunk \/ ScanEnds
    \/ ReadLine \/ Polls \/ Drains
RelayStep == Relays \/ RelayEnds

Next ==
    \/ \E b \in Output: ProcessWrites(b)
    \/ ProcessExits \/ PidChangesHands \/ AgentGone
    \/ TailLog \/ ScanStarts \/ ScanChunk \/ ScanEnds
    \/ ReadLine \/ Polls \/ Drains
    \/ Relays \/ RelayEnds \/ RelayFails

Spec == Init /\ [][Next]_vars

(* Generators are driven as long as somebody reads from them.  No fairness *)
(* for RelayFails: nothing times out and nothing keeps the tunnel alive,   *)
(* so the control station may never learn that the other end is gone.      *)
FairSpec == Spec /\ WF_vars(TailStep) /\ WF_vars(RelayStep)

-----------------------------------------------------------------------------
(* Of the first z bytes of the file, the lines from offset o on, one that  *)
(* has no line feed yet too.                                               *)
LinesFrom(o, z) ==
    Cardinality(LineFeeds(file, o, z)) + IF o < z /\ file[z] # "lf" THEN 1 ELSE 0

LineStarts(z) == {o \in 0..z: o = 0 \/ file[o] = "lf"}

(* Whatever the chunks cut through and however the log grows meanwhile,    *)
(* the replay starts at the last tail lines: at the earliest line start    *)
(* from which the log had no more than tail lines when the scan opened it, *)
(* or one byte later.  (A byte more begins a line: it has one if the log   *)
(* grew between the measuring of its size and the look at its last byte.)  *)
TailIsLastLines ==
    tail > 0 /\ at \in {"read", "check", "drain", "done"} =>
        \E z \in {scan.size, scan.size + 1}:
            /\ z <= Len(file)
            /\ start = Min({o \in LineStarts(z): LinesFrom(o, z) <= tail})

(* The k-th event is what the file has from the end of the one before on,  *)
(* less line ends at its own end, and has no line feed within.  A byte of  *)
(* it is replaced if and only if the rest of its character is not there:   *)
(* not in the file, or not yet when the piece was read.                    *)
Cut(k) == IF k = 0 THEN start ELSE cuts[k]

Halved(o, from, to) ==
    \/ file[o] = "lead" /\ (o = to \/ file[o + 1] # "cont")
    \/ file[o] = "cont" /\ (o = from + 1 \/ file[o - 1] # "lead")

EventIsItsPiece(k) ==
    LET from == Cut(k - 1)
        to   == Cut(k)
    IN
    /\ from < to /\ Len(sent[k]) <= to - from
    /\ \A o \in (from + 1)..to:
        IF o - from <= Len(sent[k])
        THEN /\ file[o] # "lf"
             /\ sent[k][o - from] = IF Halved(o, from, to) THEN "?" ELSE file[o]
        ELSE file[o] \in End

(* Every byte from the start offset on is sent exactly once and in order,  *)
(* however reads and writes interleave, no event runs over the end of a    *)
(* line, no character is lost but one that a read cut in two, and when the *)
(* stream of a job that the agent knows is done, the job is over and all   *)
(* that its process wrote was sent.  (A job that was started but not saved *)
(* before the agent restarted is not known: its stream ends as soon as it  *)
(* has caught up, though the job may run on.)                              *)
NothingLost ==
    /\ Len(cuts) = Len(sent) /\ Cut(Len(sent)) = off
    /\ \A k \in 1..Len(sent): EventIsItsPiece(k)
    /\ at = "done" /\ record # "untracked" => off = Len(file) /\ job = "over"

(* A page whose stream ended, not failed, has got every event in order,    *)
(* and one empty line more than the log has.                               *)
PageIsComplete ==
    view = "ended" =>
        /\ at = "done" /\ Len(page) = Len(sent) + 1 /\ page[Len(page)] = <<>>
        /\ \A k \in 1..Len(sent): page[k] = DataLine(sent[k])

(* When the job is over the page's stream ends, unless the agent or the    *)
(* connection to it is gone, or the job's pid is another process's for     *)
(* good, or again and again.                                               *)
StreamEnds ==
    <>[](job = "over" /\ record # "reused") => <>(view # "open" \/ at = "gone")
=============================================================================
