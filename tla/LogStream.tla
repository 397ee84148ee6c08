----------------------------- MODULE LogStream -----------------------------
(***************************************************************************)
(* The log of one session from the tool's file to the screen: the provider *)
(* tails the file (internal/provider: claude/transcript.go, codex/logs.go, *)
(* gemini/logs.go), the agent numbers the lines and sends them             *)
(* (internal/agent/runtime.go, startLogStream), the server stores and      *)
(* broadcasts them (agent_handler.go, store/queries.go), and a dashboard   *)
(* merges what it is sent with a page it reads over REST                   *)
(* (useSessionBackfill.ts, live.ts).                                       *)
(*                                                                         *)
(* A line of the file is three units: the first part of its JSON text, the *)
(* rest, and the newline. Sizes and offsets count units, so that a reader  *)
(* can meet an unterminated line and an offset can lie inside a line. Line *)
(* l is the l-th line the session writes; line OldLine stands for the      *)
(* newest file of an earlier session in the same directory.                *)
(*                                                                         *)
(* A stream is one call of startLogStream. Cancelling it ends its          *)
(* forwarder only: the tail has the context of the agent, reads on until   *)
(* its channel is full and then waits for good. The model drops it when    *)
(* the stream is cancelled: a forwarder whose select still prefers lines   *)
(* to the cancellation sends at most what the channel holds (a bound).     *)
(***************************************************************************)
EXTENDS Integers, Sequences, FiniteSets

CONSTANTS
    Readers,     \* ways to read the file: "scanner" (Claude), "complete" (Codex, Gemini)
    MaxLines,    \* bound: lines the session writes
    Chat,        \* lines that render to something; the others are skipped
    Backfill,    \* lines sent when a stream starts (200)
    ChanCap,     \* capacity of the provider's channel (128)
    WireCap,     \* bound: messages in flight on a connection
    InboxCap,    \* sendBuffer: messages waiting for the dashboard
    PageLimit,   \* limit of the REST page (2000)
    MaxLogs,     \* MAX_LOGS_PER_SESSION
    MaxStreams,  \* bound: streams of this session
    MaxSeq,      \* bound: lines of a stream
    Plans        \* what may happen in one behaviour: subsets of Events

\* A connection breaks, the agent restarts, a poll misses the session, the file
\* is truncated; a dashboard shows the session, loses its connection or leaves;
\* an earlier session left a file in the directory; the store refuses a row, rows
\* outlive the retention time, the machine is deleted.
Events == {"network", "agent", "poll", "rotate", "page", "drops", "older",
           "refuse", "prune", "delete"}
OldLine == 0
Lines == 1 .. MaxLines
Streams == 1 .. MaxStreams

ASSUME LogStreamAssumption ==
    /\ Readers \subseteq {"scanner", "complete"}
    /\ MaxLines \in Nat /\ Chat \subseteq Lines
    /\ {Backfill, ChanCap, WireCap, InboxCap, PageLimit, MaxLogs, MaxStreams, MaxSeq}
          \subseteq Nat \ {0}
    /\ PageLimit <= MaxLogs
    /\ Plans \subseteq SUBSET Events

\* A log.append message, a stored row and an entry of the dashboard. The
\* stream is not part of the message: it is there for the properties.
Row(e, k, l) == [stream |-> e, seq |-> k, line |-> l]
Rows == [stream : Streams, seq : Nat, line : Lines \cup {OldLine}]

VARIABLES
    plan,     \* what may happen in this behaviour
    reader,   \* how this provider reads
    file,     \* the session's file: its first line, its size; made: it exists
    known,    \* the session is in Runtime.sessions
    n,        \* streams started so far
    tail,     \* goroutine of tailTranscript, tailRollout, tailSession
    ch,       \* its channel
    fwd,      \* forwarder of the stream: "none", "on", "cancelled", "off"
    seq,      \* its counter
    link,     \* the agent has a connection
    wire,     \* in flight: on the connection, and on the one before it
    heard,    \* history: messages the server has read
    rows,     \* log_lines of the session
    dash,     \* "closed", "open" (page shown, no WebSocket), "live"
    inbox,    \* messages on their way to the dashboard
    page,     \* REST answer: whether it is asked for, read, applied; its rows
    logs,     \* LiveState.logs of the session
    torn,     \* history: streams whose reader took an unterminated line
    skipped,  \* history: lines before a backfill, or written while it was sent
    lost,     \* history: a message was lost between agent and server
    gap,      \* history: the dashboard was not sent a line its page lacks
    absent    \* history: what the store no longer or never had when the page was read

srcVars  == <<plan, reader, file>>
tailVars == <<tail, ch, torn, skipped>>
netVars  == <<link, wire, lost>>
dashVars == <<dash, inbox, page, logs, gap, absent>>
vars == <<plan, reader, file, known, n, tail, ch, torn, skipped, fwd, seq,
          link, wire, lost, heard, rows, dash, inbox, page, logs, gap, absent>>

NoPage == [at |-> "unasked", rows |-> {}]
NoTail == [at |-> "none", path |-> "none", off |-> 0, mark |-> 0, pend |-> <<>>]

Init ==
    /\ plan \in Plans
    /\ reader \in Readers
    /\ file = [made |-> FALSE, first |-> 1, size |-> 0]
    /\ known = FALSE /\ n = 0
    /\ tail = [e \in Streams |-> NoTail]
    /\ ch = [e \in Streams |-> <<>>]
    /\ fwd = [e \in Streams |-> "none"]
    /\ seq = [e \in Streams |-> 0]
    /\ link = FALSE
    /\ wire = [cur |-> <<>>, old |-> <<>>]
    /\ heard = {} /\ rows = {}
    /\ dash = "closed" /\ inbox = <<>> /\ page = NoPage /\ logs = {}
    /\ torn = {} /\ skipped = {} /\ lost = FALSE /\ gap = FALSE /\ absent = {}

-----------------------------------------------------------------------------
(***************************************************************************)
(* The tool and its file.                                                  *)
(***************************************************************************)

NextLine == file.first + file.size \div 3

\* The tool writes: its next unit, or all that is left of the line.
Write(k) ==
    /\ NextLine <= MaxLines
    /\ k \in {1, 3 - (file.size % 3)}
    /\ file' = [file EXCEPT !.made = TRUE, !.size = @ + k]
    /\ UNCHANGED <<plan, reader, known, n, tailVars, fwd, seq, netVars, heard, rows, dashVars>>

\* The file is truncated between two lines.
Rotate ==
    /\ "rotate" \in plan
    /\ file.size > 0 /\ file.size % 3 = 0
    /\ file' = [file EXCEPT !.first = NextLine, !.size = 0]
    /\ UNCHANGED <<plan, reader, known, n, tailVars, fwd, seq, netVars, heard, rows, dashVars>>

-----------------------------------------------------------------------------
(***************************************************************************)
(* Reading. Line i of the file (from 0) has the units 3i+1, 3i+2, 3i+3.    *)
(***************************************************************************)

\* The one sequence of the members of S in ascending order, as a set.
Ascending(S) == {s \in [1 .. Cardinality(S) -> S] : \A i, j \in DOMAIN s : i < j => s[i] < s[j]}

\* What the text in the units from+1 .. to renders to, as a set of one: the
\* lines that render, in order. A fragment is not JSON and renders to nothing.
Rendered(from, to) ==
    Ascending({l \in Chat : /\ l >= file.first
                            /\ from <= 3 * (l - file.first)
                            /\ 3 * (l - file.first) + 2 <= to})

\* Mutant: the reader stops one unit short of the line's end.
Consumed_Short(from, to) ==
    IF to > from /\ (reader = "scanner" \/ 3 * (to \div 3) > from)
    THEN 3 * (to \div 3) - 1
    ELSE from

\* The scanner counts a newline after every line it returns, also after the
\* last one, which may have none yet.
ScannerEnd(to) == IF to % 3 = 0 THEN to ELSE to + 1

\* The other readers stop after the last newline.
LastNewline(to) == 3 * (to \div 3)

\* The offset readFrom returns.
Consumed(from, to) ==
    IF to <= from THEN from
    ELSE IF reader = "scanner" THEN ScannerEnd(to)
    ELSE IF LastNewline(to) > from THEN LastNewline(to) ELSE from

\* The lines readFrom returns, rendered.
ReadFrom(from, to) ==
    Rendered(from, IF reader = "scanner" THEN to ELSE Consumed(from, to))

LastN(s, k) == SubSeq(s, IF Len(s) > k THEN Len(s) - k + 1 ELSE 1, Len(s))

Started == (file.size + 2) \div 3

\* renderTail keeps the last lines that render, tailLines the last lines.
RenderTail == {LastN(s, Backfill) : s \in Rendered(0, file.size)}
TailLines == Rendered(3 * (Started - Backfill), file.size)
BackfillLines == IF reader = "scanner" THEN RenderTail ELSE TailLines

\* The lines of the file that at least Backfill others follow.
BeforeBackfill == {l \in file.first .. file.first + Started - 1 - Backfill : l \in Chat}

Alive(e) == fwd[e] \in {"on", "cancelled"}

SetTail(e, rec) == tail' = [tail EXCEPT ![e] = rec]

\* renderTail reads text and offset at once; tailLines only the text. The old
\* file has one line and does not grow.
TailBackfill(e) ==
    LET own == tail[e].path = "own"
        off == IF own /\ reader = "scanner" THEN Consumed(0, file.size) ELSE 0
    IN  /\ fwd[e] = "on" /\ tail[e].at = "backfill"
        /\ \E s \in IF own THEN BackfillLines ELSE {<<OldLine>>} :
              SetTail(e, [tail[e] EXCEPT !.at = "fill", !.off = off, !.pend = s,
                                         !.mark = IF own THEN file.size ELSE 0])
        /\ torn' = IF off > file.size THEN torn \cup {e} ELSE torn
        /\ skipped' = IF own THEN skipped \cup BeforeBackfill ELSE skipped
        /\ UNCHANGED <<srcVars, known, n, ch, fwd, seq, netVars, heard, rows, dashVars>>

\* emit: blocks while the channel is full.
TailEmit(e) ==
    /\ fwd[e] = "on" /\ tail[e].at \in {"fill", "emit"}
    /\ tail[e].pend # <<>>
    /\ Len(ch[e]) < ChanCap
    /\ ch' = [ch EXCEPT ![e] = Append(@, Head(tail[e].pend))]
    /\ SetTail(e, [tail[e] EXCEPT !.pend = Tail(@)])
    /\ UNCHANGED <<srcVars, known, n, torn, skipped, fwd, seq, netVars, heard, rows, dashVars>>

\* Lines that have a unit below to but were not whole below from.
Between(from, to) ==
    {l \in Lines : l >= file.first /\ 3 * (l - file.first) + 2 > from /\ 3 * (l - file.first) < to}

\* Mutant: the readers of whole lines start at the beginning of the file.
TailFilled_NoStat(e) ==
    /\ fwd[e] = "on" /\ tail[e].at = "fill"
    /\ tail[e].pend = <<>>
    /\ SetTail(e, [tail[e] EXCEPT !.at = "wait"])
    /\ UNCHANGED <<srcVars, known, n, ch, torn, skipped, fwd, seq, netVars,
                   heard, rows, dashVars>>

\* The backfill is sent. The readers of whole lines now ask for the size of
\* the file and step over what was written meanwhile.
TailFilled(e) ==
    LET jump == tail[e].path = "own" /\ reader = "complete"
    IN  /\ fwd[e] = "on" /\ tail[e].at = "fill"
        /\ tail[e].pend = <<>>
        /\ SetTail(e, [tail[e] EXCEPT !.at = "wait", !.mark = 0,
                                      !.off = IF jump THEN file.size ELSE @])
        /\ skipped' = IF jump THEN skipped \cup Between(tail[e].mark, file.size) ELSE skipped
        /\ UNCHANGED <<srcVars, known, n, ch, torn, fwd, seq, netVars, heard, rows, dashVars>>

\* Mutant: a change of a line or less is not read.
TailTick_Late(e) ==
    LET off == IF file.size < tail[e].off THEN 0 ELSE tail[e].off
    IN  /\ fwd[e] = "on" /\ tail[e].at = "wait" /\ tail[e].path = "own"
        /\ file.size > off + 3
        /\ SetTail(e, [tail[e] EXCEPT !.off = off, !.at = "read"])
        /\ UNCHANGED <<srcVars, known, n, ch, torn, skipped, fwd, seq, netVars,
                       heard, rows, dashVars>>

\* The ticker: Stat. A smaller size resets the offset; nothing new, nothing done.
TailTick(e) ==
    LET off == IF file.size < tail[e].off THEN 0 ELSE tail[e].off
    IN  /\ fwd[e] = "on" /\ tail[e].at = "wait" /\ tail[e].path = "own"
        /\ \/ off # tail[e].off
           \/ file.size # off
        /\ SetTail(e, [tail[e] EXCEPT !.off = off,
                                      !.at = IF file.size = off THEN "wait" ELSE "read"])
        /\ UNCHANGED <<srcVars, known, n, ch, torn, skipped, fwd, seq, netVars,
                       heard, rows, dashVars>>

\* readFrom, to the end the file has by now.
TailRead(e) ==
    LET off == tail[e].off
        end == Consumed(off, file.size)
    IN  /\ fwd[e] = "on" /\ tail[e].at = "read"
        /\ \E s \in ReadFrom(off, file.size) :
              SetTail(e, [tail[e] EXCEPT !.at = "emit", !.off = end, !.pend = s])
        /\ torn' = IF end > file.size THEN torn \cup {e} ELSE torn
        /\ UNCHANGED <<srcVars, known, n, ch, skipped, fwd, seq, netVars, heard, rows, dashVars>>

TailDone(e) ==
    /\ fwd[e] = "on" /\ tail[e].at = "emit"
    /\ tail[e].pend = <<>>
    /\ SetTail(e, [tail[e] EXCEPT !.at = "wait"])
    /\ UNCHANGED <<srcVars, known, n, ch, torn, skipped, fwd, seq, netVars,
                   heard, rows, dashVars>>

TailStep(e) ==
    TailBackfill(e) \/ TailEmit(e) \/ TailFilled(e) \/ TailTick(e) \/ TailRead(e) \/ TailDone(e)

-----------------------------------------------------------------------------
(***************************************************************************)
(* The agent.                                                              *)
(***************************************************************************)

\* transcriptFile and its likes: the newest file of the session's directory.
NewestFile == IF file.made THEN "own" ELSE IF "older" \in plan THEN "old" ELSE "none"

\* discover finds a session it does not know (new, or missed by a poll).
\* provider.Logs picks the newest file of the directory, if there is one, and
\* a stream starts from sequence number 1; without a file, and outside tmux,
\* whose pane is another source of lines, the session never gets a stream.
Discover ==
    LET e == n + 1
    IN  /\ ~known
        /\ known' = TRUE
        /\ IF NewestFile = "none"
           THEN UNCHANGED <<n, tail, fwd>>
           ELSE /\ n < MaxStreams
                /\ n' = e
                /\ fwd' = [fwd EXCEPT ![e] = "on"]
                /\ SetTail(e, [NoTail EXCEPT !.at = "backfill", !.path = NewestFile])
        /\ UNCHANGED <<srcVars, ch, torn, skipped, seq, netVars, heard, rows, dashVars>>

\* A poll does not see the session: it ended, or the provider failed to list
\* processes. The stream's forwarder is cancelled.
DiscoverMisses ==
    /\ "poll" \in plan
    /\ known
    /\ known' = FALSE
    /\ fwd' = [e \in Streams |-> IF fwd[e] = "on" THEN "cancelled" ELSE fwd[e]]
    /\ tail' = [e \in Streams |-> NoTail]
    /\ UNCHANGED <<srcVars, n, ch, torn, skipped, seq, netVars, heard, rows, dashVars>>

\* The forwarder takes a line, numbers it and sends it; without a connection
\* the line is lost and its number is used up. select may prefer a line to the
\* cancellation.
Forward(e) ==
    /\ Alive(e) /\ ch[e] # <<>> /\ seq[e] < MaxSeq
    /\ ch' = [ch EXCEPT ![e] = Tail(@)]
    /\ seq' = [seq EXCEPT ![e] = @ + 1]
    /\ IF link
       THEN /\ Len(wire.cur) < WireCap
            /\ wire' = [wire EXCEPT !.cur = Append(@, Row(e, seq'[e], Head(ch[e])))]
            /\ UNCHANGED lost
       ELSE UNCHANGED wire /\ lost' = TRUE
    /\ UNCHANGED <<srcVars, known, n, tail, torn, skipped, fwd, link, heard, rows, dashVars>>

ForwarderExits(e) ==
    /\ fwd[e] = "cancelled"
    /\ fwd' = [fwd EXCEPT ![e] = "off"]
    /\ ch' = [ch EXCEPT ![e] = <<>>]
    /\ UNCHANGED <<srcVars, known, n, tail, torn, skipped, seq, netVars, heard, rows, dashVars>>

\* wsClient.connect.
Connect ==
    /\ ~link
    /\ link' = TRUE
    /\ UNCHANGED <<srcVars, known, n, tailVars, fwd, seq, wire, lost, heard, rows, dashVars>>

\* The connection ends, also because a line came before the hello (ws.go:58).
\* The server may still read some of what was sent on it, also after the agent
\* is back (bound: one such connection).
Break ==
    /\ "network" \in plan
    /\ link /\ wire.old = <<>>
    /\ link' = FALSE
    /\ \E k \in 0 .. Len(wire.cur) :
          /\ wire' = [cur |-> <<>>, old |-> SubSeq(wire.cur, 1, k)]
          /\ lost' = (lost \/ k < Len(wire.cur))
    /\ UNCHANGED <<srcVars, known, n, tailVars, fwd, seq, heard, rows, dashVars>>

\* The agent process restarts: all its goroutines and its connection end.
AgentRestarts ==
    /\ "agent" \in plan
    /\ n > 0
    /\ known' = FALSE
    /\ fwd' = [e \in Streams |-> IF Alive(e) THEN "off" ELSE fwd[e]]
    /\ tail' = [e \in Streams |-> NoTail]
    /\ ch' = [e \in Streams |-> <<>>]
    /\ link' = FALSE
    /\ wire' = [wire EXCEPT !.cur = <<>>]
    /\ lost' = (lost \/ wire.cur # <<>>)
    /\ UNCHANGED <<srcVars, n, torn, skipped, seq, heard, rows, dashVars>>

-----------------------------------------------------------------------------
(***************************************************************************)
(* The server and the dashboard.                                           *)
(***************************************************************************)

\* mergeLogs: the entries of b replace those of a with the same number; the
\* highest numbers are kept.
Merge(a, b) ==
    LET all == b \cup {r \in a : \A q \in b : q.seq # r.seq}
    IN  {r \in all : Cardinality({q \in all : q.seq > r.seq}) < MaxLogs}

\* onAgentMessage for log.append, read from either connection: AppendLog, whose
\* error nobody looks at, then EmitOrg. A row the store refuses is broadcast and
\* never saved. A dashboard whose buffer is full loses its connection.
ServerReads(c) ==
    LET r == Head(wire[c])
        full == dash = "live" /\ Len(inbox) >= InboxCap
    IN  /\ wire[c] # <<>>
        /\ wire' = [wire EXCEPT ![c] = Tail(@)]
        /\ heard' = heard \cup {r}
        /\ \/ rows' = rows \cup {r}
           \/ "refuse" \in plan /\ UNCHANGED rows
        /\ dash' = IF full THEN "open" ELSE dash
        /\ inbox' = IF dash # "live" \/ full THEN <<>> ELSE Append(inbox, r)
        /\ gap' = (gap \/ full \/ (dash = "open" /\ page.at # "unasked"))
        /\ UNCHANGED <<srcVars, known, n, tailVars, fwd, seq, link, lost, page, logs, absent>>

\* retentionLoop, PruneLogs: the rows older than the cutoff, which are the first
\* ones: a line has the time at which its tail put it into the channel.
Older(r, q) == r.stream < q.stream \/ (r.stream = q.stream /\ r.seq < q.seq)

Prune ==
    /\ "prune" \in plan
    /\ \E S \in SUBSET rows \ {{}} :
          /\ \A r \in S, q \in rows \ S : Older(r, q)
          /\ rows' = rows \ S
    /\ UNCHANGED <<srcVars, known, n, tailVars, fwd, seq, netVars, heard, dashVars>>

\* DeleteMachine deletes the log of the machine's sessions. The agent stays
\* connected, and a dashboard keeps the lines it has. It may come again: a
\* heartbeat or an enrollment may have stored the machine anew.
DeleteMachine ==
    /\ "delete" \in plan
    /\ rows # {}
    /\ rows' = {}
    /\ UNCHANGED <<srcVars, known, n, tailVars, fwd, seq, netVars, heard, dashVars>>

\* The session page is opened, or left and opened again.
OpenPage ==
    /\ "page" \in plan
    /\ dash = "closed"
    /\ dash' = "open"
    /\ UNCHANGED <<srcVars, known, n, tailVars, fwd, seq, netVars,
                   heard, rows, inbox, page, logs, gap, absent>>

ClosePage ==
    /\ "drops" \in plan
    /\ dash # "closed"
    /\ dash' = "closed" /\ inbox' = <<>> /\ page' = NoPage /\ logs' = {}
    /\ gap' = FALSE /\ absent' = {}
    /\ UNCHANGED <<srcVars, known, n, tailVars, fwd, seq, netVars, heard, rows>>

\* The WebSocket of the dashboard connects, or is lost; the page stays as it is
\* and is not read again.
DashConnects ==
    /\ dash = "open"
    /\ dash' = "live"
    /\ UNCHANGED <<srcVars, known, n, tailVars, fwd, seq, netVars,
                   heard, rows, inbox, page, logs, gap, absent>>

DashDrops ==
    /\ "drops" \in plan
    /\ dash = "live"
    /\ dash' = "open" /\ inbox' = <<>>
    /\ gap' = (gap \/ inbox # <<>>)
    /\ UNCHANGED <<srcVars, known, n, tailVars, fwd, seq, netVars,
                   heard, rows, page, logs, absent>>

\* LogPage: the rows with the lowest numbers, as many as the limit allows.
Pages ==
    {P \in SUBSET rows :
        /\ Cardinality(P) = IF Cardinality(rows) < PageLimit THEN Cardinality(rows) ELSE PageLimit
        /\ \A r \in P, q \in rows \ P : r.seq <= q.seq}

\* The rows of a page that are left when a later row replaces an earlier one
\* with the same number; rows with the same number come in any order.
Distinct(P) ==
    {M \in SUBSET P : /\ \A r \in P : \E q \in M : q.seq = r.seq
                      /\ \A r, q \in M : r.seq = q.seq => r = q}

ReadPage ==
    /\ dash # "closed" /\ page.at = "unasked"
    /\ \E P \in Pages : \E M \in Distinct(P) : page' = [at |-> "read", rows |-> M]
    /\ absent' = heard \ rows
    /\ UNCHANGED <<srcVars, known, n, tailVars, fwd, seq, netVars,
                   heard, rows, dash, inbox, logs, gap>>

\* Mutant: the page replaces what the dashboard has.
ApplyPage_Replace ==
    /\ page.at = "read"
    /\ logs' = page.rows
    /\ page' = [at |-> "applied", rows |-> {}]
    /\ UNCHANGED <<srcVars, known, n, tailVars, fwd, seq, netVars,
                   heard, rows, dash, inbox, gap, absent>>

\* hydrateLogs.
ApplyPage ==
    /\ page.at = "read"
    /\ logs' = Merge(logs, page.rows)
    /\ page' = [at |-> "applied", rows |-> {}]
    /\ UNCHANGED <<srcVars, known, n, tailVars, fwd, seq, netVars,
                   heard, rows, dash, inbox, gap, absent>>

\* applyMessage for log.append.
Receive ==
    /\ dash = "live" /\ inbox # <<>>
    /\ logs' = Merge(logs, {Head(inbox)})
    /\ inbox' = Tail(inbox)
    /\ UNCHANGED <<srcVars, known, n, tailVars, fwd, seq, netVars,
                   heard, rows, dash, page, gap, absent>>

-----------------------------------------------------------------------------
StreamStep(e) == TailStep(e) \/ Forward(e) \/ ForwarderExits(e)
ServerStep == \E c \in {"cur", "old"} : ServerReads(c)
DashStep == DashConnects \/ ReadPage \/ ApplyPage \/ Receive

\* What the environment may do and need not.
Environment ==
    \/ \E k \in 1 .. 3 : Write(k)
    \/ Rotate \/ DiscoverMisses \/ Break \/ AgentRestarts
    \/ Prune \/ DeleteMachine \/ OpenPage \/ ClosePage \/ DashDrops

Next ==
    \/ Discover \/ Connect
    \/ \E e \in Streams : StreamStep(e)
    \/ ServerStep \/ DashStep \/ Environment

Spec == Init /\ [][Next]_vars

(***************************************************************************)
(* Fairness: the tail and the forwarder of a stream go on when they can,   *)
(* and the server reads its connections. Neither the next poll nor the     *)
(* next connection is assumed to come.                                     *)
(***************************************************************************)
Fairness ==
    /\ WF_vars(ServerStep)
    /\ \A e \in Streams : WF_vars(TailStep(e)) /\ WF_vars(Forward(e))

FairSpec == Spec /\ Fairness

-----------------------------------------------------------------------------
(***************************************************************************)
(* Properties.                                                             *)
(***************************************************************************)
Stages == {"none", "backfill", "fill", "wait", "read", "emit"}

\* Every variable has its type; channels and queues keep their bounds.
TypeOK ==
    /\ plan \in Plans /\ reader \in Readers /\ known \in BOOLEAN
    /\ file \in [made : BOOLEAN, first : 1 .. MaxLines + 1, size : 0 .. 3 * MaxLines]
    /\ n \in 0 .. MaxStreams
    /\ \A e \in Streams :
          /\ tail[e].at \in Stages /\ tail[e].path \in {"none", "old", "own"}
          /\ tail[e].off \in 0 .. 3 * MaxLines + 1 /\ tail[e].mark \in 0 .. 3 * MaxLines
          /\ tail[e].pend \in Seq(Chat \cup {OldLine})
          /\ ch[e] \in Seq(Chat \cup {OldLine}) /\ Len(ch[e]) <= ChanCap
    /\ fwd \in [Streams -> {"none", "on", "cancelled", "off"}]
    /\ seq \in [Streams -> Nat]
    /\ link \in BOOLEAN
    /\ \A c \in {"cur", "old"} : wire[c] \in Seq(Rows) /\ Len(wire[c]) <= WireCap
    /\ heard \subseteq Rows /\ rows \subseteq heard
    /\ dash \in {"closed", "open", "live"}
    /\ inbox \in Seq(Rows) /\ Len(inbox) <= InboxCap
    /\ page.at \in {"unasked", "read", "applied"} /\ page.rows \subseteq heard
    /\ logs \subseteq heard /\ Cardinality(logs) <= MaxLogs
    /\ torn \subseteq Streams /\ skipped \subseteq Lines
    /\ lost \in BOOLEAN /\ gap \in BOOLEAN /\ absent \subseteq heard

InOrder(R) ==
    \A r, q \in R : /\ r.seq = q.seq => r = q
                    /\ r.seq < q.seq => r.line < q.line

\* What one stream stores is in the order of the file and holds no line twice,
\* through truncations, lost messages, reconnections and restarts, as long as
\* its reader did not take an unterminated line ("reads complete
\* newline-terminated lines", transcript.go:148).
StreamInOrder ==
    \A e \in Streams \ torn : InOrder({r \in rows : r.stream = e})

\* Nothing is between the file and the dashboard.
CaughtUp ==
    /\ fwd[1] = "on" /\ tail[1].at = "wait" /\ tail[1].path = "own"
    /\ tail[1].off >= 3 * (file.size \div 3)
    /\ ch[1] = <<>> /\ wire.cur = <<>> /\ wire.old = <<>>
    /\ dash = "live" /\ inbox = <<>> /\ page.at = "applied"

\* What may keep a line of stream 1 from the store: a message lost on a
\* connection, a truncation, an unterminated line taken by the scanner.
Damaged == lost \/ file.first > 1 \/ torn # {}

\* When everything is read and delivered, the dashboard shows every line that
\* ends with a newline, except those before the backfill and those written
\* while it was sent (codex/logs.go:96), unless the stream was damaged, the
\* dashboard connected after its page was read, or a page does not hold all
\* rows. A line the store refused (agent_handler.go:47 drops the error) or had
\* removed by retention or a deletion before the page was read is shown to
\* nobody who was not sent it; one refused or removed later is shown.
NothingLost ==
    CaughtUp /\ n = 1 /\ ~Damaged /\ ~gap /\ Cardinality(heard) <= PageLimit
        => {l \in Chat : l < NextLine} \ (skipped \cup {r.line : r \in absent})
              \subseteq {r.line : r \in logs}

\* The store takes what it is given and keeps it.
StoreKeeps == plan \cap {"refuse", "prune", "delete"} = {}

\* A line that ends with a newline reaches the server in the end while its
\* stream is on, and is stored: no full channel or busy connection stops the
\* tail for good, and the reader finds every line that it has not skipped. Of a
\* row the store refuses, nothing is promised but its one broadcast: nobody
\* tries again (agent_handler.go:47).
EventuallyStored ==
    \A l \in Chat :
        l < NextLine /\ n = 1 /\ tail[1].path = "own" ~>
            \/ \E r \in rows : r.line = l
            \/ ~StoreKeeps /\ \E r \in heard : r.line = l
            \/ l \in skipped \/ Damaged \/ fwd[1] # "on"
=============================================================================
