------------------------------ MODULE LogFiles ------------------------------
(***************************************************************************)
(* The log files: Logger::WriteLine under g_logMutex, the change records   *)
(* that go to two files, CleanupOldLogFiles, which main() runs at startup  *)
(* and, while the poller and the requests still log, at the end of every   *)
(* cycle, and TerminateHandler, which logs too.                            *)
(*                                                                         *)
(* A line is written in two parts, its text and its end (a long line takes *)
(* several writes), and takes less than a day.  A file that is removed     *)
(* goes on existing for who has it open.  How the services are stopped and *)
(* started is ServiceCycle's matter: from the first cycle of a process on, *)
(* their threads may log.                                                  *)
(***************************************************************************)
EXTENDS Integers, Sequences, FiniteSets

CONSTANTS
    Main, Poller,   \* main(), and the thread of StartLoop
    Workers,        \* the HTTP server's threads: nobody catches what they throw
    MaxAge,         \* 24 * 365 hours, in days
    Faults,         \* see FaultKinds
    MaxLines, MaxMainLines, MaxFaults   \* bounds: lines of a thread, faults

(* "directory": create_directories throws; "open": a file cannot be opened; *)
(* "remove": its age cannot be read, or it cannot be removed; "data": the   *)
(* handler of a request throws; "kill": the process is killed.              *)
FaultKinds == {"directory", "open", "remove", "data", "kill"}

Threads == {Main, Poller} \cup Workers

App == "App.log"
Changes == "loxone_changes.log"
Files == {App, Changes}

NoThread == "none"

ASSUME ThreadsAssumption ==
    Main # Poller /\ {Main, Poller} \cap Workers = {} /\ NoThread \notin Threads
ASSUME FaultsAssumption == Faults \subseteq FaultKinds
ASSUME MaxAgeAssumption == MaxAge \in Nat
ASSUME BoundsAssumption == MaxLines \in Nat /\ MaxMainLines \in Nat /\ MaxFaults \in Nat

VARIABLES
    day,
    files,          \* of the files there are: see Empty
    g_logMutex,
    pc, job,        \* of each thread: where it is in WriteLine, the lines it has to write
    handle,         \* of each thread: its ofstream
    mainAt,         \* what main() does between its lines
    unseen, victim, \* CleanupOldLogFiles: the files to look at, the one to remove
    serving,        \* the first cycle of the process has begun
    terminating,    \* threads in TerminateHandler
    faults,         \* how many there were
    count,          \* history: the lines of each thread
    logged,         \* history: what WriteLine has written
    missed,         \* history: threads that once could not open a file
    cut,            \* history: lines that an end of the process cut in two
    raced           \* history: what was written while its file was being removed

main == <<mainAt, unseen, victim, serving>>
records == <<logged, missed, cut, raced>>
vars == <<day, files, g_logMutex, pc, job, handle, main, terminating, faults, count, records>>

-----------------------------------------------------------------------------
(* One line *)

Fault(kind) == kind \in Faults /\ faults < MaxFaults /\ faults' = faults + 1

Entry(t) == Head(job[t])

Record(t) == <<Entry(t).file, Entry(t).line>>

(* A file: its lines, the text at its end that waits for its own end, what  *)
(* never became a line, and the day it was last written.                    *)
Empty(d) == [whole |-> {}, last |-> {}, torn |-> {}, written |-> d]

(* The next line of t, of the day d, to the file f. *)
Line(t, f, d) == [file |-> f, line |-> [by |-> t, n |-> count[t], day |-> d]]

(* The thread t begins to log a line, to each of these files in turn. *)
LogsOn(d, t, fs) ==
    /\ job' = [job EXCEPT ![t] = [i \in DOMAIN fs |-> Line(t, fs[i], d)]]
    /\ pc' = [pc EXCEPT ![t] = "lock"]
    /\ count' = [count EXCEPT ![t] = @ + 1]

Logs(t, fs) == LogsOn(day, t, fs)

Goes(t, from, to) == pc[t] = from /\ pc' = [pc EXCEPT ![t] = to]

(* The line is done with: the file is closed and the mutex unlocked. *)
Done(t, from) ==
    /\ Goes(t, from, IF Len(job[t]) = 1 THEN "idle" ELSE "lock")
    /\ job' = [job EXCEPT ![t] = Tail(@)]
    /\ handle' = [handle EXCEPT ![t] = "none"]
    /\ g_logMutex' = NoThread

(* Mutant: nobody waits for the mutex. *)
MayLockAlways(t) == TRUE

MayLock(t) == g_logMutex = NoThread

(* t has the mutex, and the directory is there. *)
Open(t) ==
    LET f == Entry(t).file IN
    /\ Goes(t, "lock", "text")
    /\ MayLock(t)
    /\ g_logMutex' = t
    /\ handle' = [handle EXCEPT ![t] = "file"]
    /\ files' = IF f \in DOMAIN files THEN files
                ELSE [g \in DOMAIN files \cup {f} |->
                        IF g = f THEN Empty(day) ELSE files[g]]
    /\ UNCHANGED <<day, job, main, terminating, faults, count, records>>

OpenFails(t) ==
    /\ Fault("open")
    /\ MayLock(t)
    /\ Done(t, "lock")
    /\ missed' = missed \cup {t}
    /\ UNCHANGED <<day, files, main, terminating, count, logged, cut, raced>>

(* What is written to a file that was removed meanwhile is lost with it. *)
Writes(t, content) ==
    files' = IF handle[t] = "file"
             THEN [files EXCEPT ![Entry(t).file] = [content EXCEPT !.written = day]]
             ELSE files

(* A text that has no end when another one begins never gets one. *)
WriteText(t) ==
    LET file == files[Entry(t).file] IN
    /\ Goes(t, "text", "end")
    /\ Writes(t, [file EXCEPT !.torn = @ \cup file.last, !.last = {Entry(t).line}])
    /\ UNCHANGED <<day, g_logMutex, job, handle, main, terminating, faults, count,
                   records>>

(* The age of the file has been read, its removal is still to come. *)
Removing(f) == mainAt = "remove" /\ victim = f

WriteEnd(t) ==
    LET file == files[Entry(t).file]
        line == Entry(t).line IN
    /\ Done(t, "end")
    /\ Writes(t, IF file.last = {line}
                 THEN [file EXCEPT !.whole = @ \cup {line}, !.last = {}]
                 ELSE [file EXCEPT !.torn = @ \cup {line}])
    /\ logged' = logged \cup {Record(t)}
    /\ raced' = IF handle[t] = "gone" \/ Removing(Entry(t).file)
                THEN raced \cup {Record(t)} ELSE raced
    /\ UNCHANGED <<day, main, terminating, faults, count, missed, cut>>

-----------------------------------------------------------------------------
(* create_directories throws under the mutex *)

(* The first line of TerminateHandler stands in a try block. *)
InTry(t) == terminating[t] = "try" /\ Len(job[t]) = 2

(* Mutant: unlocked by hand after the line, so not by an exception. *)
UnwindKeepingMutex(t) == t

(* Somebody catches it, and unwinding the stack unlocks the mutex. *)
Unwind(t) == NoThread

(* What a line of the poller throws stays in its future; TerminateHandler   *)
(* logs another line instead; CleanupOldLogFiles reports it and returns;    *)
(* elsewhere in main() it ends the cycle.                                   *)
Caught(t) ==
    /\ g_logMutex' = Unwind(t)
    /\ \/ /\ InTry(t)
          /\ terminating' = [terminating EXCEPT ![t] = "catch"]
          /\ pc' = [pc EXCEPT ![t] = "lock"]
          /\ UNCHANGED <<job, mainAt>>
       \/ /\ terminating[t] = "no"
          /\ t = Poller \/ (t = Main /\ mainAt # "failed")
          /\ pc' = [pc EXCEPT ![t] = "idle"]
          /\ job' = [job EXCEPT ![t] = <<>>]
          /\ mainAt' = IF t = Poller THEN mainAt
                       ELSE IF mainAt = "look" THEN "report" ELSE "unwind"
          /\ UNCHANGED terminating
    /\ UNCHANGED <<unseen, victim, serving, count>>

Terminates(t) ==
    /\ terminating' = [terminating EXCEPT ![t] = "try"]
    /\ Logs(t, <<App, App>>)

(* Nobody does: std::terminate is called where it was thrown, and the mutex *)
(* stays locked.                                                            *)
Uncaught(t) ==
    /\ terminating[t] = "no"
    /\ t \in Workers \/ (t = Main /\ mainAt = "failed")
    /\ Terminates(t)
    /\ g_logMutex' = t
    /\ UNCHANGED main

WriteLineThrows(t) ==
    /\ Fault("directory")
    /\ pc[t] = "lock" /\ MayLock(t)
    /\ Caught(t) \/ Uncaught(t)
    /\ UNCHANGED <<day, files, handle, records>>

(* An exception of the handler itself, which holds no mutex. *)
HandlerThrows(t) ==
    /\ Fault("data")
    /\ t \in Workers /\ terminating[t] = "no"
    /\ pc[t] = "idle" /\ serving
    /\ Terminates(t)
    /\ UNCHANGED <<day, files, g_logMutex, handle, main, records>>

-----------------------------------------------------------------------------
(* The ends of the process, and its start *)

AtStart == [t \in Threads |-> IF t = Main THEN "lock" ELSE "idle"]

ProcessEnds ==
    /\ cut' = cut \cup {Entry(t).line : t \in {u \in Threads : pc[u] = "end"}}
    /\ g_logMutex' = NoThread
    /\ pc' = AtStart
    /\ handle' = [t \in Threads |-> "none"]
    /\ mainAt' = "logged" /\ unseen' = {} /\ victim' = App /\ serving' = FALSE
    /\ terminating' = [t \in Threads |-> "no"]
    /\ job' = [t \in Threads |-> IF t = Main THEN <<Line(Main, App, day)>> ELSE <<>>]
    /\ count' = [count EXCEPT ![Main] = @ + 1]
    /\ UNCHANGED <<day, files, logged, missed, raced>>

(* TerminateHandler has written its lines, five seconds later it aborts; an *)
(* exception out of it aborts at once.                                      *)
Abort(t) ==
    /\ terminating[t] # "no"
    /\ \/ pc[t] = "idle" /\ UNCHANGED faults
       \/ Fault("directory") /\ pc[t] = "lock" /\ MayLock(t) /\ ~InTry(t)
    /\ ProcessEnds

Killed == Fault("kill") /\ ProcessEnds

-----------------------------------------------------------------------------
(* main() *)

MainGoes(from, to) ==
    /\ mainAt = from /\ mainAt' = to
    /\ pc[Main] = "idle" /\ terminating[Main] = "no"

Quiet == \A t \in Threads : pc[t] = "idle"

(* It is midnight, or the poller has ended before. *)
WaitUntilRestartWindow ==
    /\ MainGoes("wait", "logged")
    /\ count[Main] < MaxMainLines
    /\ day' = day \/ (day' = day + 1 /\ Quiet)
    /\ LogsOn(day', Main, <<App>>)
    /\ UNCHANGED <<files, g_logMutex, handle, unseen, victim, serving, terminating,
                   faults, records>>

CleanupOldLogFiles ==
    /\ MainGoes("logged", "look")
    /\ unseen' = DOMAIN files
    /\ UNCHANGED <<day, files, g_logMutex, pc, job, handle, victim, serving,
                   terminating, faults, count, records>>

(* Mutant: off by one. *)
TooOldEarly(f) == day - files[f].written >= MaxAge

TooOld(f) == day - files[f].written > MaxAge

Look(f) ==
    /\ f \in unseen /\ unseen' = unseen \ {f}
    /\ \/ /\ f \in DOMAIN files /\ TooOld(f)
          /\ MainGoes("look", "remove")
          /\ victim' = f
          /\ UNCHANGED <<pc, job, count, faults>>
       \/ /\ f \in DOMAIN files /\ ~TooOld(f)
          /\ MainGoes("look", "look")
          /\ UNCHANGED <<pc, job, count, victim, faults>>
       \/ /\ Fault("remove")
          /\ MainGoes("look", "look")
          /\ Logs(Main, <<App>>)
          /\ UNCHANGED victim
    /\ UNCHANGED <<day, files, g_logMutex, handle, serving, terminating, records>>

Remove ==
    /\ MainGoes("remove", "look")
    /\ \/ /\ files' = [f \in DOMAIN files \ {victim} |-> files[f]]
          /\ handle' = [t \in Threads |-> IF handle[t] = "file" /\ Entry(t).file = victim
                                          THEN "gone" ELSE handle[t]]
          /\ UNCHANGED faults
       \/ /\ Fault("remove")
          /\ UNCHANGED <<files, handle>>
    /\ Logs(Main, <<App>>)
    /\ UNCHANGED <<day, g_logMutex, unseen, victim, serving, terminating, records>>

(* The catch of CleanupOldLogFiles. *)
CleanupFailed ==
    /\ MainGoes("report", "cleaned")
    /\ Logs(Main, <<App>>)
    /\ UNCHANGED <<day, files, g_logMutex, handle, unseen, victim, serving,
                   terminating, faults, records>>

Cleaned ==
    /\ MainGoes("look", "cleaned")
    /\ unseen = {}
    /\ UNCHANGED <<day, files, g_logMutex, pc, job, handle, unseen, victim,
                   serving, terminating, faults, count, records>>

(* The services are restarted, or started. *)
Cycle ==
    /\ MainGoes("cleaned", "wait")
    /\ serving' = TRUE
    /\ Logs(Main, <<App>>)
    /\ UNCHANGED <<day, files, g_logMutex, handle, unseen, victim, terminating,
                   faults, records>>

(* The catch of main(), after the services of the cycle have ended. *)
Failed ==
    /\ MainGoes("unwind", "failed")
    /\ Quiet
    /\ serving' = FALSE
    /\ Logs(Main, <<App>>)
    /\ UNCHANGED <<day, files, g_logMutex, handle, unseen, victim, terminating,
                   faults, records>>

MainReturns ==
    /\ mainAt = "failed" /\ pc[Main] = "idle" /\ terminating[Main] = "no"
    /\ ProcessEnds
    /\ UNCHANGED faults

-----------------------------------------------------------------------------
(* The poller and the requests *)

MayLog(t) == serving /\ pc[t] = "idle" /\ terminating[t] = "no" /\ count[t] < MaxLines

Log(t) ==
    /\ t # Main /\ MayLog(t)
    /\ Logs(t, <<App>>)
    /\ UNCHANGED <<day, files, g_logMutex, handle, main, terminating, faults, records>>

Change(t) ==
    /\ t \in Workers /\ MayLog(t)
    /\ Logs(t, <<Changes, App>>)
    /\ UNCHANGED <<day, files, g_logMutex, handle, main, terminating, faults, records>>

-----------------------------------------------------------------------------

(* Both logs are there, the records of changes since the day before. *)
Init ==
    /\ day = 1
    /\ files = [f \in Files |-> Empty(IF f = App THEN 1 ELSE 0)]
    /\ g_logMutex = NoThread
    /\ pc = AtStart
    /\ handle = [t \in Threads |-> "none"]
    /\ mainAt = "logged" /\ unseen = {} /\ victim = App /\ serving = FALSE
    /\ terminating = [t \in Threads |-> "no"]
    /\ job = [t \in Threads |-> IF t = Main
                THEN <<[file |-> App, line |-> [by |-> Main, n |-> 0, day |-> 1]]>> ELSE <<>>]
    /\ count = [t \in Threads |-> IF t = Main THEN 1 ELSE 0]
    /\ faults = 0
    /\ logged = {} /\ missed = {} /\ cut = {} /\ raced = {}

WriteLine(t) ==
    \/ Open(t) \/ OpenFails(t) \/ WriteText(t) \/ WriteEnd(t)
    \/ WriteLineThrows(t) \/ Abort(t)

MainStep ==
    \/ CleanupOldLogFiles \/ \E f \in Files : Look(f)
    \/ Remove \/ CleanupFailed \/ Cleaned \/ Cycle \/ Failed \/ MainReturns

Next ==
    \/ \E t \in Threads : WriteLine(t) \/ HandlerThrows(t) \/ Log(t) \/ Change(t)
    \/ WaitUntilRestartWindow \/ MainStep \/ Killed

(* No thread stops in the middle of a line, and a handler that has logged aborts. *)
Spec == Init /\ [][Next]_vars /\ \A t \in Threads : WF_vars(WriteLine(t))

-----------------------------------------------------------------------------
(* Properties *)

(* Lines are whole: the end of a line follows its text at once, whoever     *)
(* logs meanwhile, unless the process ended in between.                     *)
LinesWhole ==
    \A f \in DOMAIN files :
        /\ files[f].torn \subseteq cut
        /\ \A line \in files[f].last \ cut : g_logMutex = line.by

(* Whatever was logged within the last year is there, except what was       *)
(* logged to a file in the moment between the look at its age and its       *)
(* removal.  App.log is not in that danger, for main() itself logs to it    *)
(* before it looks, unless it could not open it.                            *)
FreshLinesStay ==
    \A r \in logged :
        \/ r[1] \in DOMAIN files /\ r[2] \in files[r[1]].whole
        \/ day - r[2].day > MaxAge
        \/ /\ r \in raced
           /\ r[1] = App => Main \in missed

(* The owner of the mutex waits for it. *)
Hung == \E t \in Threads : terminating[t] # "no" /\ g_logMutex = t /\ pc[t] = "lock"

(* What nobody catches ends the process, so that compose.yaml's restart     *)
(* policy can start a new one: nothing keeps TerminateHandler from its end, *)
(* but that what was thrown is thrown by WriteLine itself, whose mutex then *)
(* stays locked and for which TerminateHandler waits for ever.              *)
FatalEndsProcess ==
    \A t \in Threads : terminating[t] # "no" ~> terminating[t] = "no" \/ Hung

=============================================================================
