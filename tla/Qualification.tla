---------------------------- MODULE Qualification ----------------------------
(***************************************************************************)
(* The qualification of language ports, scripts/qualify-language-ports.py: *)
(* a suite is written into a copy of a disk image with debugfs and read    *)
(* back, QEMU boots it, and run_guest polls the serial log until it has a  *)
(* verdict, QEMU exits or the time is up.                                  *)
(*                                                                         *)
(* The guest writes while the runner reads: a poll sees any prefix of the  *)
(* log, in the middle of a line too, and kernel messages interrupt lines.  *)
(***************************************************************************)
EXTENDS Naturals, Sequences, SequencesExt, FiniteSetsExt

CONSTANTS
    Cases,       \* the names of the suite's cases, in order
    Lines,       \* the lines a case may print
    Markers,     \* case -> the lines it must print
    Payload,     \* guest paths of the files the suite installs, the hook too
    MaxOutput,   \* bound: lines a case prints
    MaxLogs,     \* bound: kernel messages
    None

Names == ToSet(Cases)

\* The lines a guest writes: the boot script's own and those of its cases.  A
\* "glued" line is the status of a case behind output that ended no line.
Line ==
    {<<"BEGIN">>, <<"END">>}
    \cup {"begin"} \X Names \cup {"out"} \X Lines
    \cup {"status", "glued"} \X Names \X {"0", "1"}

ASSUME SuiteAssumption ==
    /\ Cases \in Seq(Names) /\ Cases # <<>> /\ IsInjective(Cases)
    /\ Markers \in [Names -> (SUBSET Lines) \ {{}}]
    /\ MaxOutput \in Nat /\ MaxLogs \in Nat
    /\ None \notin Line

VARIABLES
    pc,          \* what the runner does next
    disk,        \* guest path -> what disk.img holds: "old", "new" or "torn"
    alive,       \* QEMU runs
    expired,     \* the timeout is over
    status,      \* state of run_guest, or "error" for an exception
    reason,      \* why: "output", "exited" or "timeout"
    result,      \* the status in result.json
    serial,      \* serial.log: the pieces written so far
    half,        \* the line of which the guest has written a part
    stage,       \* where the boot script is
    at,          \* the number of the case it is at
    output,      \* the lines the current case has printed
    exit,        \* case -> its exit status
    printed,     \* case -> the lines it has printed
    unended,     \* history: the cases whose last output ended no line
    logs         \* kernel messages so far

runnerVars == <<pc, disk, expired, status, reason, result>>
guestVars == <<serial, half, stage, at, output, exit, printed, unended, logs>>
vars == <<pc, disk, alive, expired, status, reason, result, guestVars>>

\* A piece of the log: a line, the part of a line that is there so far, the
\* rest of one that something came between, a kernel message, or text that
\* FATAL finds: the report of a crash, or a case's own words.
Piece(part, line) == [part |-> part, line |-> line]
Log == Piece("log", None)
Fatal == Piece("fatal", None)

Init ==
    /\ pc = "prepare" /\ status = "none" /\ reason = "none" /\ result = "none"
    /\ disk = [p \in Payload |-> "old"]
    /\ alive = FALSE /\ expired = FALSE
    /\ serial = <<>> /\ half = None /\ stage = "off" /\ at = 1
    /\ output = 0 /\ logs = 0
    /\ exit = [c \in Names |-> "none"]
    /\ printed = [c \in Names |-> {}]
    /\ unended = {}

-----------------------------------------------------------------------------
(* evaluate_output.                                                        *)

\* The elements of s at the indexes in set, in their order.
ElementsAt(s, set) ==
    LET kept[i \in 0..Len(s)] ==
            IF i = 0 THEN <<>>
            ELSE IF i \in set THEN Append(kept[i - 1], s[i]) ELSE kept[i - 1]
    IN kept[Len(s)]

\* Mutant: kernel messages are left in the text.
SerialLinesWithLogs(pieces) ==
    LET kept == ElementsAt(pieces, {i \in 1..Len(pieces) : pieces[i].part \in {"whole", "rest"}})
    IN [i \in 1..Len(kept) |->
           IF kept[i].part = "rest" THEN <<"garbled">> ELSE kept[i].line]

\* The complete lines of the log: kernel messages are cut out, the parts they
\* separated are joined again, and an unfinished last line is dropped.
SerialLines(pieces) ==
    LET kept == ElementsAt(pieces, {i \in 1..Len(pieces) : pieces[i].part \in {"whole", "rest"}})
    IN [i \in 1..Len(kept) |-> kept[i].line]

Statuses(lines) ==
    ElementsAt(lines, {i \in 1..Len(lines) : lines[i][1] = "status"})

\* lines.index(l, from): 0 if there is none.
IndexFrom(lines, l, from) ==
    LET found == {i \in from..Len(lines) : lines[i] = l}
    IN IF found = {} THEN 0 ELSE Min(found)

\* Mutant: a marker counts wherever it is printed.
SectionAnywhere(lines, c, cursor) ==
    LET start == IndexFrom(lines, <<"begin", c>>, cursor)
        end == IF start = 0 THEN 0
               ELSE IndexFrom(lines, <<"status", c, "0">>, start + 1)
    IN IF end # 0 /\ \A m \in Markers[c] : \E i \in 1..Len(lines) : lines[i] = <<"out", m>>
       THEN end + 1 ELSE 0

\* Where the search for the next case begins, when case c has its section at
\* or after cursor and all its markers in there; 0 if not.
Section(lines, c, cursor) ==
    LET start == IndexFrom(lines, <<"begin", c>>, cursor)
        end == IF start = 0 THEN 0
               ELSE IndexFrom(lines, <<"status", c, "0">>, start + 1)
    IN IF end # 0 /\ \A m \in Markers[c] : \E i \in (start + 1)..(end - 1) : lines[i] = <<"out", m>>
       THEN end + 1 ELSE 0

Cursor(lines) ==
    LET after[i \in 0..Len(Cases)] ==
            IF i = 0 THEN IndexFrom(lines, <<"BEGIN">>, 1) + 1
            ELSE IF after[i - 1] = 0 THEN 0
                 ELSE Section(lines, Cases[i], after[i - 1])
    IN after[Len(Cases)]

Count(lines, l) == Cardinality({i \in 1..Len(lines) : lines[i] = l})

EvaluateOutput(pieces) ==
    LET lines == SerialLines(pieces)
        statuses == Statuses(lines)
        done == [i \in 1..Len(statuses) |-> statuses[i][2]]
        Broken ==
            \/ \E i \in 1..Len(pieces) : pieces[i].part = "fatal"
            \/ \E i \in 1..Len(statuses) : statuses[i][3] # "0"
            \/ ~IsPrefix(done, Cases)
        Complete ==
            /\ Count(lines, <<"BEGIN">>) = 1 /\ Count(lines, <<"END">>) = 1
            /\ done = Cases
            /\ Cursor(lines) # 0 /\ Cursor(lines) <= IndexFrom(lines, <<"END">>, 1)
    IN IF Broken THEN "fail"
       ELSE IF Count(lines, <<"END">>) = 0 THEN "pending"
       ELSE IF Complete THEN "pass" ELSE "fail"

-----------------------------------------------------------------------------
(* The guest, which boot_script tells what to print.                       *)

\* Bound: what a guest writes is followed as long as there is a runner.
Followed == alive /\ pc # "done"

\* A line is written at once, or a part of it first.
Emit(line) ==
    \/ serial' = Append(serial, Piece("whole", line)) /\ half' = None
    \/ serial' = Append(serial, Piece("first", line)) /\ half' = line

Case == Cases[at]

Begin ==
    /\ stage = "boot"
    /\ Emit(<<"BEGIN">>) /\ stage' = "begin"
    /\ UNCHANGED <<at, output, exit, printed, unended>>

BeginCase ==
    /\ stage = "begin"
    /\ Emit(<<"begin", Case>>) /\ stage' = "run" /\ output' = 0
    /\ UNCHANGED <<at, exit, printed, unended>>

\* A line of a case; output that ends no line is part of what EndCase writes.
PrintLine ==
    /\ stage = "run" /\ output < MaxOutput
    /\ \E l \in Lines :
          /\ Emit(<<"out", l>>)
          /\ printed' = [printed EXCEPT ![Case] = @ \cup {l}]
    /\ output' = output + 1
    /\ UNCHANGED <<stage, at, exit, unended>>

\* The first case that fails ends the script.  echo does not begin a new line
\* when the last output of the case has left one open.
EndCase ==
    /\ stage = "run"
    /\ \E code \in {"0", "1"} :
          /\ \/ Emit(<<"status", Case, code>>) /\ UNCHANGED unended
             \/ Emit(<<"glued", Case, code>>) /\ unended' = unended \cup {Case}
          /\ exit' = [exit EXCEPT ![Case] = code]
          /\ IF code = "0"
             THEN at' = at + 1 /\ stage' = IF at = Len(Cases) THEN "end" ELSE "begin"
             ELSE stage' = "over" /\ UNCHANGED at
    /\ UNCHANGED <<output, printed>>

EndScript ==
    /\ stage = "end"
    /\ Emit(<<"END">>) /\ stage' = "over"
    /\ UNCHANGED <<at, output, exit, printed, unended>>

Script ==
    /\ Followed /\ half = None
    /\ Begin \/ BeginCase \/ PrintLine \/ EndCase \/ EndScript
    /\ UNCHANGED <<logs, alive, runnerVars>>

WriteRest ==
    /\ Followed /\ half # None
    /\ serial' = IF Last(serial).part = "first"
                 THEN Append(Front(serial), Piece("whole", half))
                 ELSE Append(serial, Piece("rest", half))
    /\ half' = None
    /\ UNCHANGED <<stage, at, output, exit, printed, unended, logs, alive, runnerVars>>

\* The kernel writes to the same port, and may report its own crash there; or a
\* case prints words that read like one.
Kernel ==
    /\ Followed /\ logs < MaxLogs
    /\ \E piece \in {Log, Fatal} : serial' = Append(serial, piece)
    /\ logs' = logs + 1
    /\ UNCHANGED <<half, stage, at, output, exit, printed, unended, alive, runnerVars>>

\* QEMU ends: -no-reboot, a crash, or somebody kills it.
Exit ==
    /\ alive
    /\ alive' = FALSE
    /\ UNCHANGED <<runnerVars, guestVars>>

-----------------------------------------------------------------------------
(* The runner.                                                             *)

Goto(to) == pc' = to

\* An exception that main turns into exit status 2; no result is written.
Raise == Goto("done") /\ status' = "error"

\* main: a new output directory, the cloned images, and the grown disk.
Prepare ==
    /\ pc = "prepare"
    /\ \/ Goto("inject") /\ UNCHANGED status
       \/ Raise
    /\ UNCHANGED <<disk, alive, expired, reason, result, guestVars>>

\* inject_suite: debugfs exits with 0 although some of its writes failed.
Inject ==
    /\ pc = "inject"
    /\ \/ disk' \in [Payload -> {"old", "new", "torn"}]
          /\ Goto("verify") /\ UNCHANGED status
       \/ Raise /\ UNCHANGED disk
    /\ UNCHANGED <<alive, expired, reason, result, guestVars>>

\* Mutant: the exit status of debugfs is trusted.
VerifyNothing ==
    /\ pc = "verify"
    /\ \/ Goto("boot") /\ UNCHANGED status
       \/ Raise
    /\ UNCHANGED <<disk, alive, expired, reason, result, guestVars>>

\* Every file is dumped again and compared with the digest of its source.
Verify ==
    /\ pc = "verify"
    /\ \/ /\ \A p \in Payload : disk[p] = "new"
          /\ Goto("boot") /\ UNCHANGED status
       \/ Raise
    /\ UNCHANGED <<disk, alive, expired, reason, result, guestVars>>

\* --prepare-only, or QEMU is started.
Boot ==
    /\ pc = "boot"
    /\ \/ status' = "prepared" /\ Goto("write") /\ UNCHANGED <<alive, stage>>
       \/ status' = "pending" /\ alive' = TRUE /\ stage' = "boot" /\ Goto("read")
       \/ Raise /\ UNCHANGED <<alive, stage>>
    /\ UNCHANGED <<disk, expired, reason, result, serial, half, at, output, exit, printed,
                   unended, logs>>

\* One poll of run_guest: what the log says now.
Read ==
    /\ pc = "read"
    /\ \/ status' = "error" /\ Goto("terminate") /\ UNCHANGED reason
       \/ /\ status' = EvaluateOutput(serial)
          /\ \/ status' = "pending" /\ Goto("poll") /\ UNCHANGED reason
             \/ status' = "fail" /\ Goto("drain") /\ reason' = "output"
             \/ status' = "pass" /\ Goto("terminate") /\ reason' = "output"
    /\ UNCHANGED <<disk, alive, expired, result, guestVars>>

\* Has QEMU exited?  It may have written more since the log was read.
Poll ==
    /\ pc = "poll"
    /\ IF alive THEN Goto("clock") /\ UNCHANGED <<status, reason>>
       ELSE Goto("terminate") /\ status' = "fail" /\ reason' = "exited"
    /\ UNCHANGED <<disk, alive, expired, result, guestVars>>

\* Mutant: the time is not looked at.
ClockIgnored ==
    /\ pc = "clock"
    /\ Goto("read") /\ UNCHANGED <<status, reason>>
    /\ UNCHANGED <<disk, alive, expired, result, guestVars>>

Clock ==
    /\ pc = "clock"
    /\ IF expired
       THEN Goto("terminate") /\ status' = "fail" /\ reason' = "timeout"
       ELSE Goto("read") /\ UNCHANGED <<status, reason>>
    /\ UNCHANGED <<disk, alive, expired, result, guestVars>>

\* After a failure QEMU has a second to print the rest of it.
Drain ==
    /\ pc = "drain"
    /\ Goto("terminate")
    /\ UNCHANGED <<disk, alive, expired, status, reason, result, guestVars>>

AfterStop == IF status = "error" THEN "done" ELSE "write"

\* SIGTERM, which QEMU may not obey within five seconds.
Terminate ==
    /\ pc = "terminate"
    /\ \/ alive' = FALSE /\ Goto(AfterStop)
       \/ alive /\ Goto("kill") /\ UNCHANGED alive
    /\ UNCHANGED <<disk, expired, status, reason, result, guestVars>>

\* SIGKILL; a process that is not gone after five more seconds is an exception.
Kill ==
    /\ pc = "kill"
    /\ \/ alive' = FALSE /\ Goto(AfterStop) /\ UNCHANGED status
       \/ alive /\ UNCHANGED alive /\ Raise
    /\ UNCHANGED <<disk, expired, reason, result, guestVars>>

WriteResult ==
    /\ pc = "write"
    /\ \/ result' = status /\ Goto("done") /\ UNCHANGED status
       \/ Raise /\ UNCHANGED result
    /\ UNCHANGED <<disk, alive, expired, reason, guestVars>>

Runner ==
    \/ Prepare \/ Inject \/ Verify \/ Boot \/ Read \/ Poll \/ Clock \/ Drain
    \/ Terminate \/ Kill \/ WriteResult

Tick ==
    /\ pc \in {"read", "poll", "clock"} /\ ~expired
    /\ expired' = TRUE
    /\ UNCHANGED <<pc, disk, alive, status, reason, result, guestVars>>

Next == Script \/ WriteRest \/ Kernel \/ Exit \/ Runner \/ Tick

Spec == Init /\ [][Next]_vars

\* The runner is a loop that sleeps a tenth of a second, and time passes.
FairSpec == Spec /\ WF_vars(Runner) /\ WF_vars(Tick)

-----------------------------------------------------------------------------

\* "all case statuses and markers verified": every case ran, exited with 0
\* and printed its markers itself, whatever other cases printed and however
\* kernel messages and polls cut the log into pieces.
PassIsReal ==
    result = "pass" => \A c \in Names : exit[c] = "0" /\ Markers[c] \subseteq printed[c]

\* "a full disk cannot qualify an older installed binary": what passes is
\* what the suite installed.
PassIsOfThePayload == result \in {"pass", "prepared"} => \A p \in Payload : disk[p] = "new"

\* The log is never judged too early: a run that is failed for its output had
\* a case that failed, or lacked a marker, or a kernel that crashed.  There is
\* one more cause, which suites have to avoid: a case that exits in the middle
\* of a line hides its own status from the pattern (line 115).
FailureIsJustified ==
    status = "fail" /\ reason = "output" =>
        \/ \E c \in Names : exit[c] = "1"
        \/ \E i \in 1..Len(serial) : serial[i] = Fatal
        \/ stage = "over" /\ \E c \in Names : ~(Markers[c] \subseteq printed[c])
        \/ unended # {}

\* A guest that hangs, exits or prints for ever does not keep the runner.
RunEnds == <>(pc = "done")
=============================================================================
