-------------------------- MODULE LogFiles_proofs --------------------------
(***************************************************************************)
(* Lines are whole and fresh ones stay, for any number of threads, lines,  *)
(* days and faults.                                                        *)
(***************************************************************************)
EXTENDS LogFiles, SequenceTheorems, TLAPS

Lines == [by : Threads, n : Nat, day : Nat]
Entries == [file : Files, line : Lines]
File == [whole : SUBSET Lines, last : SUBSET Lines, torn : SUBSET Lines, written : Nat]

Writing == {"text", "end"}

Types ==
    /\ day \in Nat
    /\ files \in [DOMAIN files -> File] /\ DOMAIN files \subseteq Files
    /\ pc \in [Threads -> {"idle", "lock"} \cup Writing]
    /\ job \in [Threads -> Seq(Entries)]
    /\ handle \in [Threads -> {"none", "file", "gone"}]
    /\ count \in [Threads -> Nat]
    /\ logged \subseteq Files \X Lines

(* What a thread has to write is its own, and main() has no change records. *)
Jobs ==
    \A t \in Threads :
        /\ pc[t] # "idle" => job[t] # <<>>
        /\ \A i \in 1..Len(job[t]) :
             /\ job[t][i].line.by = t /\ job[t][i].line.day <= day
             /\ t = Main => job[t][i].file = App

(* Who writes has the mutex and a stream. *)
Holding ==
    \A t \in Threads :
        /\ pc[t] \in Writing => g_logMutex = t
        /\ pc[t] \in Writing <=> handle[t] # "none"

(* The streams of the files there are and of those there are no more. *)
Handles ==
    \A t \in Threads :
        /\ handle[t] = "file" => Entry(t).file \in DOMAIN files
        /\ handle[t] = "gone" =>
             /\ t # Main /\ Entry(t).file \notin DOMAIN files
             /\ Entry(t).file = App => Main \in missed

(* A text that waits for its end is the one that is being written. *)
Lasts ==
    \A f \in DOMAIN files :
        /\ files[f].torn \subseteq cut
        /\ \A line \in files[f].last \ cut :
             /\ line.by \in Threads /\ pc[line.by] = "end"
             /\ Entry(line.by) = [file |-> f, line |-> line]

Ends ==
    \A t \in Threads :
        pc[t] = "end" /\ handle[t] = "file" => files[Entry(t).file].last = {Entry(t).line}

(* No file has a line that is younger than the file. *)
Ages ==
    \A f \in DOMAIN files :
        /\ files[f].written <= day
        /\ \A line \in files[f].whole : line.day <= files[f].written

Kept ==
    \A r \in logged :
        \/ r[1] \in DOMAIN files /\ r[2] \in files[r[1]].whole
        \/ day - r[2].day > MaxAge
        \/ r \in raced

Raced == \A r \in raced : r[1] = App => Main \in missed

WriterInv ==
    /\ Types /\ Jobs /\ Holding /\ Handles /\ Lasts /\ Ends
    /\ Ages /\ Kept /\ Raced

(* From main()'s own line before the cleanup to its end App.log is of today. *)
AppIsFresh == Main \in missed \/ (App \in DOMAIN files => files[App].written = day)

(* What the victim has is old, or came to it after the look at its age. *)
VictimIsOld ==
    /\ victim = App => Main \in missed
    /\ victim \in DOMAIN files =>
         \A line \in files[victim].whole :
             day - line.day > MaxAge \/ <<victim, line>> \in raced

MainInv ==
    /\ mainAt \in {"look", "remove"} \/ (mainAt = "logged" /\ pc[Main] = "idle") => AppIsFresh
    /\ mainAt = "remove" => VictimIsOld

IInv == WriterInv /\ MainInv

-----------------------------------------------------------------------------
(* One line *)

LEMMA EntryIs ==
    ASSUME Types, Jobs, NEW t \in Threads, pc[t] # "idle"
    PROVE  /\ Entry(t) = job[t][1] /\ Entry(t) \in Entries
           /\ Len(job[t]) \in Nat \ {0}
           /\ Entry(t).file \in Files /\ Entry(t).line \in Lines
           /\ Entry(t).line.by = t /\ Entry(t).line.day <= day /\ Entry(t).line.day \in Nat
           /\ t = Main => Entry(t).file = App
<1>1. job[t] \in Seq(Entries) /\ job[t] # <<>>
  BY DEF Types, Jobs
<1>2. Entry(t) = job[t][1] /\ 1 \in 1..Len(job[t]) /\ Len(job[t]) \in Nat \ {0}
  BY <1>1 DEF Entry
<1>3. Entry(t) \in Entries
  BY <1>1, <1>2, ElementOfSeq
<1>4. Entry(t).line.by = t /\ Entry(t).line.day <= day /\ (t = Main => Entry(t).file = App)
  BY <1>2 DEF Jobs
<1>5. QED
  BY <1>2, <1>3, <1>4 DEF Entries, Lines

(* A thread begins to log. *)
LEMMA Started ==
    ASSUME Types, NEW t \in Threads, NEW d \in Nat,
           NEW fs \in Seq(Files), Len(fs) > 0, LogsOn(d, t, fs)
    PROVE  /\ job' \in [Threads -> Seq(Entries)]
           /\ pc' \in [Threads -> {"idle", "lock"} \cup Writing]
           /\ count' \in [Threads -> Nat]
           /\ pc'[t] = "lock" /\ job'[t] # <<>> /\ Len(job'[t]) = Len(fs)
           /\ \A i \in 1..Len(job'[t]) :
                job'[t][i].line.by = t /\ job'[t][i].line.day = d /\ job'[t][i].file = fs[i]
           /\ \A u \in Threads \ {t} : pc'[u] = pc[u] /\ job'[u] = job[u]
<1> DEFINE e(i) == Line(t, fs[i], d)
           j == [i \in DOMAIN fs |-> e(i)]
<1>1. DOMAIN fs = 1..Len(fs) /\ Len(fs) \in Nat /\ \A i \in 1..Len(fs) : fs[i] \in Files
  BY ElementOfSeq
<1>2. ASSUME NEW i \in 1..Len(fs)
      PROVE  e(i) \in Entries /\ e(i).line.by = t /\ e(i).line.day = d /\ e(i).file = fs[i]
  BY <1>1 DEF Line, Entries, Lines, Types
<1> HIDE DEF e
<1>3. j \in Seq(Entries) /\ Len(j) = Len(fs) /\ \A i \in 1..Len(fs) : j[i] = e(i)
  BY <1>1, <1>2
<1>4. j # <<>>
  BY <1>3
<1>5. job' = [job EXCEPT ![t] = j] /\ pc' = [pc EXCEPT ![t] = "lock"]
      /\ count' = [count EXCEPT ![t] = @ + 1]
  BY DEF LogsOn, e
<1> HIDE DEF j
<1>6. QED
  BY <1>2, <1>3, <1>4, <1>5 DEF Types

(* A step beside the files: nobody begins or ends to write. *)
LEMMA BesideFiles ==
    ASSUME WriterInv, Types', Jobs',
           UNCHANGED <<files, handle, logged, raced, cut>>,
           day' \in Nat, day <= day', missed \subseteq missed',
           g_logMutex' = g_logMutex \/ g_logMutex = NoThread,
           \A t \in Threads :
              /\ pc[t] \in Writing => pc'[t] = pc[t] /\ job'[t] = job[t]
              /\ pc'[t] \in Writing => pc[t] \in Writing
    PROVE  WriterInv'
<1> USE DEF WriterInv
<1>1. Holding'
  BY ThreadsAssumption DEF Holding
<1>2. \A t \in Threads : pc[t] \in Writing => Entry(t)' = Entry(t)
  BY DEF Entry
<1>3. Handles'
  BY <1>2 DEF Handles, Holding
<1>4. Lasts'
  BY <1>2 DEF Lasts, Writing
<1>5. Ends'
  BY <1>2 DEF Ends, Writing
<1>6. Ages'
  <2>1. ASSUME NEW f \in DOMAIN files  PROVE files[f].written \in Nat
    BY DEF Types, File
  <2>2. QED
    BY <2>1 DEF Ages, Types
<1>7. Kept'
  <2> SUFFICES ASSUME NEW r \in logged, day - r[2].day > MaxAge
               PROVE  day' - r[2].day > MaxAge
    BY DEF Kept
  <2>1. r[2].day \in Nat /\ day \in Nat
    BY DEF Types, Lines
  <2>2. QED
    BY <2>1, MaxAgeAssumption
<1>8. Raced'
  BY DEF Raced
<1>9. QED
  BY <1>1, <1>3, <1>4, <1>5, <1>6, <1>7, <1>8

LEMMA LogStarts ==
    ASSUME WriterInv, NEW t \in Threads, pc[t] \notin Writing,
           day' \in Nat, day <= day',
           NEW d \in Nat, d <= day',
           NEW fs \in Seq(Files), Len(fs) > 0, LogsOn(d, t, fs),
           t = Main => \A i \in 1..Len(fs) : fs[i] = App,
           UNCHANGED <<files, handle, records>>,
           g_logMutex' = g_logMutex \/ g_logMutex = NoThread
    PROVE  WriterInv'
<1> USE DEF WriterInv
<1>1. /\ job' \in [Threads -> Seq(Entries)]
      /\ pc' \in [Threads -> {"idle", "lock"} \cup Writing]
      /\ count' \in [Threads -> Nat]
      /\ pc'[t] = "lock" /\ job'[t] # <<>> /\ Len(job'[t]) = Len(fs)
      /\ \A i \in 1..Len(job'[t]) :
           job'[t][i].line.by = t /\ job'[t][i].line.day = d /\ job'[t][i].file = fs[i]
      /\ \A u \in Threads \ {t} : pc'[u] = pc[u] /\ job'[u] = job[u]
  BY Started
<1>2. Types'
  BY <1>1 DEF Types, records
<1>3. Jobs'
  <2> SUFFICES ASSUME NEW u \in Threads
               PROVE  /\ pc'[u] # "idle" => job'[u] # <<>>
                      /\ \A i \in 1..Len(job'[u]) :
                           /\ job'[u][i].line.by = u /\ job'[u][i].line.day <= day'
                           /\ u = Main => job'[u][i].file = App
    BY DEF Jobs
  <2>1. CASE u = t
    BY <1>1, <2>1
  <2>2. CASE u # t
    <3>1. pc'[u] = pc[u] /\ job'[u] = job[u]
      BY <1>1, <2>2
    <3>2. ASSUME NEW i \in 1..Len(job[u])  PROVE job[u][i].line.day \in Nat
      <4>1. job[u] \in Seq(Entries)
        BY DEF Types
      <4>2. job[u][i] \in Entries
        BY <4>1, ElementOfSeq
      <4>3. QED
        BY <4>2 DEF Entries, Lines
    <3>3. QED
      BY <3>1, <3>2 DEF Jobs, Types
  <2>3. QED
    BY <2>1, <2>2
<1>4. \A u \in Threads :
        /\ pc[u] \in Writing => pc'[u] = pc[u] /\ job'[u] = job[u]
        /\ pc'[u] \in Writing => pc[u] \in Writing
  BY <1>1 DEF Writing
<1>5. QED
  BY <1>2, <1>3, <1>4, BesideFiles DEF records

(* Nobody else writes while t does. *)
LEMMA OneWriter ==
    ASSUME WriterInv, NEW t \in Threads, pc[t] \in Writing \/ MayLock(t),
           NEW u \in Threads, u # t
    PROVE  pc[u] \notin Writing /\ handle[u] = "none"
<1>1. pc[u] \notin Writing
  BY ThreadsAssumption DEF WriterInv, Holding, MayLock
<1>2. QED
  BY <1>1 DEF WriterInv, Holding

LEMMA OpenHolds ==
    ASSUME WriterInv, NEW t \in Threads, Open(t)
    PROVE  WriterInv'
<1> USE DEF WriterInv
<1> DEFINE f == Entry(t).file
<1>1. /\ pc[t] = "lock" /\ pc' = [pc EXCEPT ![t] = "text"] /\ MayLock(t) /\ g_logMutex' = t
      /\ handle' = [handle EXCEPT ![t] = "file"]
      /\ files' = IF f \in DOMAIN files THEN files
                  ELSE [g \in DOMAIN files \cup {f} |-> IF g = f THEN Empty(day) ELSE files[g]]
      /\ UNCHANGED <<day, job, count, records>>
  BY DEF Open, Goes
<1>2. f \in Files
  BY <1>1, EntryIs
<1> HIDE DEF f
<1>3. Empty(day) \in File /\ Empty(day).last = {} /\ Empty(day).torn = {}
      /\ Empty(day).whole = {} /\ Empty(day).written = day
  BY DEF Empty, File, Types
<1>4. /\ DOMAIN files' = DOMAIN files \cup {f} /\ f \in DOMAIN files'
      /\ \A g \in DOMAIN files : files'[g] = files[g]
      /\ f \notin DOMAIN files => files'[f] = Empty(day)
      /\ files' \in [DOMAIN files' -> File] /\ DOMAIN files' \subseteq Files
  BY <1>1, <1>2, <1>3 DEF Types
<1>5. /\ pc'[t] = "text" /\ handle'[t] = "file"
      /\ \A u \in Threads \ {t} : pc'[u] = pc[u] /\ handle'[u] = handle[u]
      /\ \A u \in Threads : Entry(u)' = Entry(u)
  BY <1>1 DEF Types, Entry
<1>6. \A u \in Threads \ {t} : pc[u] \notin Writing /\ handle[u] = "none"
  BY <1>1, OneWriter
<1>7. Types'
  BY <1>1, <1>4 DEF Types, records, Writing
<1>8. Jobs'
  BY <1>1 DEF Jobs, Types
<1>9. Holding'
  BY <1>1, <1>5, <1>6 DEF Holding, Writing
<1>10. Handles'
  BY <1>4, <1>5, <1>6 DEF Handles, f
<1>11. Lasts'
  <2>1. ASSUME NEW g \in DOMAIN files, NEW line \in files[g].last \ cut  PROVE FALSE
    BY <1>1, <1>6 DEF Lasts, Writing
  <2>2. cut' = cut
    BY <1>1 DEF records
  <2>3. QED
    BY <1>3, <1>4, <2>1, <2>2 DEF Lasts
<1>12. Ends'
  BY <1>5, <1>6 DEF Ends, Writing
<1>13. Ages'
  BY <1>1, <1>3, <1>4 DEF Ages, Types
<1>14. Kept' /\ Raced'
  BY <1>1, <1>4 DEF Kept, Raced, records
<1>15. QED
  BY <1>7, <1>8, <1>9, <1>10, <1>11, <1>12, <1>13, <1>14

(* A line is done with: what it changes of the threads. *)
LEMMA DoneIs ==
    ASSUME WriterInv, NEW t \in Threads, NEW from, Done(t, from), from # "idle"
    PROVE  /\ pc[t] = from /\ g_logMutex' = NoThread
           /\ pc' \in [Threads -> {"idle", "lock"} \cup Writing]
           /\ job' \in [Threads -> Seq(Entries)]
           /\ handle' = [handle EXCEPT ![t] = "none"]
           /\ pc'[t] \in {"idle", "lock"} /\ (pc'[t] # "idle" => job'[t] # <<>>)
           /\ \A i \in 1..Len(job'[t]) : i + 1 \in 1..Len(job[t]) /\ job'[t][i] = job[t][i + 1]
           /\ \A u \in Threads \ {t} : pc'[u] = pc[u] /\ job'[u] = job[u]
<1> USE DEF WriterInv
<1> DEFINE j == job[t]
<1>1. /\ pc[t] = from /\ pc' = [pc EXCEPT ![t] = IF Len(j) = 1 THEN "idle" ELSE "lock"]
      /\ job' = [job EXCEPT ![t] = Tail(j)]
      /\ handle' = [handle EXCEPT ![t] = "none"] /\ g_logMutex' = NoThread
  BY DEF Done, Goes, Types
<1>2. j \in Seq(Entries) /\ j # <<>>
  BY <1>1 DEF Types, Jobs
<1> HIDE DEF j
<1>3. /\ Tail(j) \in Seq(Entries) /\ Len(Tail(j)) = Len(j) - 1 /\ Len(j) \in Nat \ {0}
      /\ \A i \in 1..Len(Tail(j)) : i + 1 \in 1..Len(j) /\ Tail(j)[i] = j[i + 1]
  BY <1>2
<1>4. Len(j) # 1 => Tail(j) # <<>>
  <2>1. Len(j) # 1 => Len(Tail(j)) # 0
    BY <1>3, SMT
  <2>2. Len(<<>>) = 0
    OBVIOUS
  <2>3. QED
    BY <2>1, <2>2, Zenon
<1>5. job'[t] = Tail(j) /\ pc'[t] = IF Len(j) = 1 THEN "idle" ELSE "lock"
  BY <1>1 DEF Types
<1>6. QED
  BY <1>1, <1>3, <1>4, <1>5 DEF Types, j

(* ... and that its jobs stay their own. *)
LEMMA DoneJobs ==
    ASSUME WriterInv, NEW t \in Threads, NEW from, Done(t, from), from # "idle", day' = day
    PROVE  Jobs'
<1> USE DEF WriterInv
<1>1. /\ pc'[t] # "idle" => job'[t] # <<>>
      /\ \A i \in 1..Len(job'[t]) : i + 1 \in 1..Len(job[t]) /\ job'[t][i] = job[t][i + 1]
      /\ \A u \in Threads \ {t} : pc'[u] = pc[u] /\ job'[u] = job[u]
  BY DoneIs
<1> SUFFICES ASSUME NEW u \in Threads
             PROVE  /\ pc'[u] # "idle" => job'[u] # <<>>
                    /\ \A i \in 1..Len(job'[u]) :
                         /\ job'[u][i].line.by = u /\ job'[u][i].line.day <= day'
                         /\ u = Main => job'[u][i].file = App
  BY DEF Jobs
<1>2. CASE u = t
  BY <1>1, <1>2 DEF Jobs
<1>3. CASE u # t
  BY <1>1, <1>3 DEF Jobs
<1>4. QED
  BY <1>2, <1>3

LEMMA OpenFailsHolds ==
    ASSUME WriterInv, NEW t \in Threads, OpenFails(t)
    PROVE  WriterInv'
<1> USE DEF WriterInv
<1>1. /\ Done(t, "lock") /\ MayLock(t) /\ missed' = missed \cup {t}
      /\ UNCHANGED <<day, files, count, logged, cut, raced>>
  BY DEF OpenFails
<1>2. /\ pc[t] = "lock" /\ g_logMutex' = NoThread
      /\ pc' \in [Threads -> {"idle", "lock"} \cup Writing]
      /\ job' \in [Threads -> Seq(Entries)]
      /\ handle' = [handle EXCEPT ![t] = "none"]
      /\ pc'[t] \in {"idle", "lock"}
      /\ \A u \in Threads \ {t} : pc'[u] = pc[u] /\ job'[u] = job[u]
  BY <1>1, DoneIs
<1>3. handle' = handle
  <2>1. handle[t] = "none"
    BY <1>2 DEF Holding, Writing
  <2>2. QED
    BY <1>2, <2>1 DEF Types
<1>4. Types'
  BY <1>1, <1>2, <1>3 DEF Types
<1>5. Jobs'
  BY <1>1, DoneJobs
<1>6. day' \in Nat /\ day <= day'
  BY <1>1 DEF Types
<1>7. g_logMutex' = g_logMutex
  BY <1>1, <1>2 DEF MayLock
<1>8. QED
  BY <1>1, <1>2, <1>3, <1>4, <1>5, <1>6, <1>7, BesideFiles DEF Writing

LEMMA WriteTextHolds ==
    ASSUME WriterInv, NEW t \in Threads, WriteText(t)
    PROVE  WriterInv'
<1> USE DEF WriterInv
<1> DEFINE f == Entry(t).file
           line == Entry(t).line
           new == [files[f] EXCEPT !.torn = @ \cup files[f].last, !.last = {line}, !.written = day]
<1>1. /\ pc[t] = "text" /\ pc' = [pc EXCEPT ![t] = "end"]
      /\ files' = IF handle[t] = "file" THEN [files EXCEPT ![f] = new] ELSE files
      /\ UNCHANGED <<day, g_logMutex, job, handle, count, records>>
  BY DEF WriteText, Goes, Writes
<1>2. /\ f \in Files /\ line \in Lines /\ line.by = t /\ Entry(t) = [file |-> f, line |-> line]
      /\ line.day <= day
  BY <1>1, EntryIs DEF Entries
<1>3. /\ pc'[t] = "end"
      /\ \A u \in Threads \ {t} : pc'[u] = pc[u]
      /\ \A u \in Threads : Entry(u)' = Entry(u)
  BY <1>1 DEF Types, Entry
<1>4. \A u \in Threads \ {t} : pc[u] \notin Writing /\ handle[u] = "none"
  BY <1>1, OneWriter DEF Writing
<1>5. /\ handle[t] \in {"file", "gone"} /\ (handle[t] = "file" => f \in DOMAIN files)
      /\ handle[t] = "gone" => f \notin DOMAIN files
  BY <1>1 DEF Types, Holding, Handles, Writing
<1>6. ASSUME NEW g \in DOMAIN files  PROVE files[g].torn \subseteq cut /\ files[g].last \subseteq cut
  BY <1>1, <1>4, <1>6 DEF Lasts, Writing
<1>7. CASE handle[t] = "file"
  <2>1. f \in DOMAIN files /\ files[f] \in File /\ day \in Nat
    BY <1>5, <1>7 DEF Types
  <2>2. /\ new \in File /\ new.torn = files[f].torn \cup files[f].last /\ new.last = {line}
        /\ new.written = day /\ new.whole = files[f].whole
    BY <1>2, <2>1 DEF File
  <2> HIDE DEF new, f, line
  <2>3. /\ DOMAIN files' = DOMAIN files /\ files'[f] = new
        /\ \A g \in DOMAIN files \ {f} : files'[g] = files[g]
        /\ files' \in [DOMAIN files' -> File]
    BY <1>1, <1>7, <2>1, <2>2 DEF Types
  <2>4. Types'
    BY <1>1, <2>3 DEF Types, Writing, records
  <2>5. Jobs'
    BY <1>1, <1>3 DEF Jobs
  <2>6. Holding'
    BY <1>1, <1>3, <1>4, <1>5 DEF Holding, Writing
  <2>7. Handles'
    BY <1>1, <1>3, <2>3 DEF Handles, records
  <2>8. Lasts'
    <3>1. cut' = cut
      BY <1>1 DEF records
    <3>2. files'[f].torn \subseteq cut /\ files'[f].last = {line}
      BY <1>6, <2>1, <2>2, <2>3
    <3>3. \A g \in DOMAIN files \ {f} : files'[g].torn \subseteq cut /\ files'[g].last \subseteq cut
      BY <1>6, <2>3
    <3>4. QED
      BY <1>2, <1>3, <2>3, <3>1, <3>2, <3>3 DEF Lasts
  <2>9. Ends'
    BY <1>1, <1>3, <1>4, <2>2, <2>3 DEF Ends, Writing, f, line
  <2>10. Ages'
    <3>1. \A l \in files[f].whole : l.day <= day
      <4>1. ASSUME NEW l \in files[f].whole  PROVE l.day <= day
        <5>1. l.day <= files[f].written /\ files[f].written <= day
          BY <2>1 DEF Ages
        <5>2. l.day \in Nat /\ files[f].written \in Nat
          BY <2>1 DEF File, Lines
        <5>3. QED
          BY <2>1, <5>1, <5>2
      <4>2. QED
        BY <4>1
    <3>2. QED
      BY <1>1, <2>1, <2>2, <2>3, <3>1 DEF Ages
  <2>11. Kept' /\ Raced'
    BY <1>1, <2>2, <2>3 DEF Kept, Raced, records
  <2>12. QED
    BY <2>4, <2>5, <2>6, <2>7, <2>8, <2>9, <2>10, <2>11
<1>8. CASE handle[t] = "gone"
  <2> HIDE DEF new, f, line
  <2>1. files' = files
    BY <1>1, <1>8
  <2>2. Types'
    BY <1>1, <2>1 DEF Types, Writing, records
  <2>8. Jobs'
    BY <1>1, <1>3 DEF Jobs
  <2>3. Holding' /\ Handles'
    BY <1>1, <1>3, <1>4, <1>5, <2>1 DEF Holding, Handles, Writing, records
  <2>4. Lasts'
    BY <1>1, <1>6, <2>1 DEF Lasts, records
  <2>5. Ends'
    BY <1>1, <1>3, <1>4, <1>8, <2>1 DEF Ends, Writing
  <2>6. Ages' /\ Kept' /\ Raced'
    BY <1>1, <2>1 DEF Ages, Kept, Raced, records
  <2>7. QED
    BY <2>2, <2>3, <2>4, <2>5, <2>6, <2>8
<1>9. QED
  BY <1>5, <1>7, <1>8

LEMMA WriteEndHolds ==
    ASSUME WriterInv, MainInv, NEW t \in Threads, WriteEnd(t)
    PROVE  WriterInv'
<1> USE DEF WriterInv
<1> DEFINE f == Entry(t).file
           line == Entry(t).line
           new == [files[f] EXCEPT !.whole = @ \cup {line}, !.last = {}, !.written = day]
<1>1. /\ Done(t, "end")
      /\ logged' = logged \cup {<<f, line>>}
      /\ raced' = IF handle[t] = "gone" \/ Removing(f) THEN raced \cup {<<f, line>>} ELSE raced
      /\ UNCHANGED <<day, count, missed, cut, main>>
  BY DEF WriteEnd, Record
<1>2. /\ pc[t] = "end" /\ g_logMutex' = NoThread
      /\ pc' \in [Threads -> {"idle", "lock"} \cup Writing]
      /\ job' \in [Threads -> Seq(Entries)]
      /\ handle' = [handle EXCEPT ![t] = "none"]
      /\ pc'[t] \in {"idle", "lock"}
      /\ \A u \in Threads \ {t} : pc'[u] = pc[u] /\ job'[u] = job[u]
  BY <1>1, DoneIs
<1>3. f \in Files /\ line \in Lines /\ line.day <= day /\ line.day \in Nat
  BY <1>2, EntryIs
<1>4. \A u \in Threads \ {t} : pc[u] \notin Writing /\ handle[u] = "none"
  BY <1>2, OneWriter DEF Writing
<1>5. \A u \in Threads : pc'[u] \notin Writing /\ handle'[u] = "none"
  BY <1>2, <1>4 DEF Types, Writing
<1>6. /\ handle[t] \in {"file", "gone"} /\ (handle[t] = "file" => f \in DOMAIN files)
      /\ handle[t] = "gone" => f \notin DOMAIN files /\ (f = App => Main \in missed)
  BY <1>2 DEF Types, Holding, Handles, Writing
<1>7. ASSUME NEW g \in DOMAIN files, NEW l \in files[g].last \ cut
      PROVE  g = f /\ l = line
  <2>1. l.by = t /\ Entry(l.by) = [file |-> g, line |-> l]
    BY <1>2, <1>4, <1>7 DEF Lasts, Writing
  <2>2. QED
    BY <2>1
<1>8. Jobs'
  BY <1>1, DoneJobs
<1>9. Holding' /\ Handles' /\ Ends'
  BY <1>5 DEF Holding, Handles, Ends, Writing
<1>10. Raced'
  <2>1. Removing(f) => (f = App => Main \in missed)
    BY DEF Removing, MainInv, VictimIsOld
  <2> HIDE DEF f, line
  <2>2. QED
    BY <1>1, <1>6, <2>1 DEF Raced
<1>11. CASE handle[t] = "file"
  <2>1. f \in DOMAIN files /\ files[f] \in File /\ day \in Nat /\ files[f].last = {line}
    BY <1>2, <1>6, <1>11 DEF Types, Ends
  <2>2. files' = [files EXCEPT ![f] = new]
    BY <1>11, <2>1 DEF WriteEnd, Writes
  <2>3. /\ new \in File /\ new.torn = files[f].torn /\ new.last = {}
        /\ new.written = day /\ new.whole = files[f].whole \cup {line}
    BY <1>3, <2>1 DEF File
  <2> HIDE DEF new, f, line
  <2>4. /\ DOMAIN files' = DOMAIN files /\ files'[f] = new
        /\ \A g \in DOMAIN files \ {f} : files'[g] = files[g]
        /\ files' \in [DOMAIN files' -> File]
    BY <2>1, <2>2, <2>3 DEF Types
  <2>5. Types'
    BY <1>1, <1>2, <1>3, <2>4 DEF Types
  <2>6. Lasts'
    <3>1. files'[f].torn \subseteq cut /\ files'[f].last = {}
      BY <2>1, <2>3, <2>4 DEF Lasts
    <3>2. \A g \in DOMAIN files \ {f} : files'[g].torn \subseteq cut /\ files'[g].last \subseteq cut
      BY <1>7, <2>4 DEF Lasts
    <3>3. QED
      BY <1>1, <2>4, <3>1, <3>2 DEF Lasts
  <2>7. Ages'
    <3>1. \A l \in files[f].whole : l.day <= day
      <4>1. ASSUME NEW l \in files[f].whole  PROVE l.day <= day
        <5>1. l.day <= files[f].written /\ files[f].written <= day
          BY <2>1 DEF Ages
        <5>2. l.day \in Nat /\ files[f].written \in Nat
          BY <2>1 DEF File, Lines
        <5>3. QED
          BY <2>1, <5>1, <5>2
      <4>2. QED
        BY <4>1
    <3>2. \A l \in new.whole : l.day <= day
      BY <1>3, <2>3, <3>1
    <3>3. QED
      BY <1>1, <2>1, <2>3, <2>4, <3>2 DEF Ages
  <2>8. Kept'
    <3>1. ASSUME NEW r \in logged
          PROVE  r[1] \in DOMAIN files /\ r[2] \in files[r[1]].whole
                   => r[1] \in DOMAIN files' /\ r[2] \in files'[r[1]].whole
      BY <2>3, <2>4
    <3>2. raced \subseteq raced'
      BY <1>1
    <3>3. f \in DOMAIN files' /\ line \in files'[f].whole
      BY <2>1, <2>3, <2>4
    <3>4. QED
      BY <1>1, <3>1, <3>2, <3>3 DEF Kept
  <2>9. QED
    BY <1>8, <1>9, <1>10, <2>5, <2>6, <2>7, <2>8
<1>12. CASE handle[t] = "gone"
  <2>1. files' = files
    BY <1>12 DEF WriteEnd, Writes
  <2> HIDE DEF new, f, line
  <2>2. Types'
    BY <1>1, <1>2, <1>3, <2>1 DEF Types
  <2>3. Lasts'
    BY <1>1, <1>6, <1>7, <1>12, <2>1 DEF Lasts
  <2>4. Ages' /\ Kept'
    BY <1>1, <1>12, <2>1 DEF Ages, Kept
  <2>5. QED
    BY <1>8, <1>9, <1>10, <2>2, <2>3, <2>4
<1>13. QED
  BY <1>6, <1>11, <1>12

LEMMA ProcessEndsHolds ==
    ASSUME WriterInv, ProcessEnds
    PROVE  IInv'
<1> USE DEF WriterInv
<1> DEFINE e == Line(Main, App, day)
<1>1. /\ cut' = cut \cup {Entry(t).line : t \in {u \in Threads : pc[u] = "end"}}
      /\ g_logMutex' = NoThread /\ pc' = AtStart /\ handle' = [t \in Threads |-> "none"]
      /\ mainAt' = "logged"
      /\ job' = [t \in Threads |-> IF t = Main THEN <<e>> ELSE <<>>]
      /\ count' = [count EXCEPT ![Main] = @ + 1]
      /\ UNCHANGED <<day, files, logged, missed, raced>>
  BY DEF ProcessEnds
<1>2. e \in Entries /\ e.line.by = Main /\ e.line.day = day /\ e.file = App /\ Main \in Threads
  BY DEF Line, Entries, Lines, Types, Files, Threads
<1> HIDE DEF e
<1>3. /\ pc' \in [Threads -> {"idle", "lock"} \cup Writing] /\ pc'[Main] = "lock"
      /\ \A t \in Threads : pc'[t] \notin Writing /\ handle'[t] = "none"
      /\ \A t \in Threads \ {Main} : pc'[t] = "idle"
  BY <1>1, <1>2 DEF AtStart, Writing
<1>4. /\ <<e>> \in Seq(Entries) /\ <<e>> # <<>> /\ Len(<<e>>) = 1 /\ <<e>>[1] = e
      /\ <<>> \in Seq(Entries) /\ Len(<<>>) = 0
  BY <1>2
<1>5. Types'
  <2>1. job' \in [Threads -> Seq(Entries)]
    BY <1>1, <1>4
  <2>2. count' \in [Threads -> Nat]
    BY <1>1, <1>2 DEF Types
  <2>3. handle' \in [Threads -> {"none", "file", "gone"}]
    BY <1>1
  <2>4. QED
    BY <1>1, <1>3, <2>1, <2>2, <2>3 DEF Types
<1>6. Jobs'
  <2>1. job'[Main] = <<e>> /\ \A t \in Threads \ {Main} : job'[t] = <<>>
    BY <1>1, <1>2
  <2>2. day' = day /\ day \in Nat
    BY <1>1 DEF Types
  <2> SUFFICES ASSUME NEW t \in Threads
               PROVE  /\ pc'[t] # "idle" => job'[t] # <<>>
                      /\ \A i \in 1..Len(job'[t]) :
                           /\ job'[t][i].line.by = t /\ job'[t][i].line.day <= day'
                           /\ t = Main => job'[t][i].file = App
    BY DEF Jobs
  <2>3. CASE t = Main
    <3>1. ASSUME NEW i \in 1..Len(<<e>>)  PROVE <<e>>[i] = e
      <4>1. i = 1
        BY <1>4, <3>1
      <4>2. QED
        BY <1>4, <4>1
    <3>2. e.line.day <= day'
      BY <1>2, <2>2
    <3>3. QED
      BY <1>2, <1>4, <2>1, <2>3, <3>1, <3>2, Zenon
  <2>4. CASE t # Main
    BY <1>3, <1>4, <2>1, <2>4
  <2>5. QED
    BY <2>3, <2>4
<1>7. Holding' /\ Handles' /\ Ends'
  BY <1>3 DEF Holding, Handles, Ends, Writing
<1>8. Lasts'
  BY <1>1 DEF Lasts
<1>9. Ages' /\ Kept' /\ Raced'
  BY <1>1 DEF Ages, Kept, Raced
<1>10. MainInv'
  BY <1>1, <1>3 DEF MainInv
<1>11. QED
  BY <1>5, <1>6, <1>7, <1>8, <1>9, <1>10 DEF IInv

LEMMA RemoveHolds ==
    ASSUME WriterInv, MainInv, Remove
    PROVE  WriterInv'
<1> USE DEF WriterInv
<1>1. /\ mainAt = "remove" /\ pc[Main] = "idle" /\ Main \in Threads /\ LogsOn(day, Main, <<App>>)
      /\ UNCHANGED <<day, g_logMutex, records>>
  BY DEF Remove, MainGoes, Threads, Logs
<1>2. VictimIsOld
  BY <1>1 DEF MainInv
<1>3. CASE UNCHANGED <<files, handle>>
  <2>1. /\ <<App>> \in Seq(Files) /\ Len(<<App>>) > 0 /\ \A i \in 1..Len(<<App>>) : <<App>>[i] = App
        /\ day' \in Nat /\ day <= day' /\ day \in Nat /\ pc[Main] \notin Writing
    BY <1>1 DEF Files, Types, Writing
  <2>2. QED
    BY <1>1, <1>3, <2>1, LogStarts
<1>4. CASE /\ files' = [f \in DOMAIN files \ {victim} |-> files[f]]
           /\ handle' = [t \in Threads |-> IF handle[t] = "file" /\ Entry(t).file = victim
                                            THEN "gone" ELSE handle[t]]
  <2>1. /\ job' \in [Threads -> Seq(Entries)]
        /\ pc' \in [Threads -> {"idle", "lock"} \cup Writing]
        /\ count' \in [Threads -> Nat]
        /\ pc'[Main] = "lock" /\ job'[Main] # <<>> /\ Len(job'[Main]) = Len(<<App>>)
        /\ \A i \in 1..Len(job'[Main]) :
             job'[Main][i].line.by = Main /\ job'[Main][i].line.day = day /\ job'[Main][i].file = <<App>>[i]
        /\ \A u \in Threads \ {Main} : pc'[u] = pc[u] /\ job'[u] = job[u]
    <3>1. <<App>> \in Seq(Files) /\ Len(<<App>>) > 0 /\ day \in Nat
      BY DEF Files, Types
    <3>2. QED
      BY <1>1, <3>1, Started
  <2>2. /\ DOMAIN files' = DOMAIN files \ {victim}
        /\ \A f \in DOMAIN files' : files'[f] = files[f]
        /\ files' \in [DOMAIN files' -> File]
    BY <1>4 DEF Types
  <2>3. handle[Main] = "none" /\ pc[Main] \notin Writing /\ pc'[Main] \notin Writing
    BY <1>1, <2>1 DEF Holding, Writing
  <2>4. \A u \in Threads \ {Main} : Entry(u)' = Entry(u)
    BY <2>1 DEF Entry
  <2>5. /\ \A u \in Threads : handle'[u] = IF handle[u] = "file" /\ Entry(u).file = victim
                                          THEN "gone" ELSE handle[u]
        /\ handle' \in [Threads -> {"none", "file", "gone"}]
    BY <1>4 DEF Types
  <2>6. Types'
    BY <1>1, <2>1, <2>2, <2>5 DEF Types, records
  <2>7. Jobs'
    <3> SUFFICES ASSUME NEW u \in Threads
                 PROVE  /\ pc'[u] # "idle" => job'[u] # <<>>
                        /\ \A i \in 1..Len(job'[u]) :
                             /\ job'[u][i].line.by = u /\ job'[u][i].line.day <= day'
                             /\ u = Main => job'[u][i].file = App
      BY DEF Jobs
    <3>1. CASE u = Main
      <4>1. \A i \in 1..Len(<<App>>) : <<App>>[i] = App
        OBVIOUS
      <4>2. day' = day /\ day \in Nat
        BY <1>1 DEF Types
      <4>4. day <= day'
        BY <4>2
      <4>3. QED
        BY <2>1, <3>1, <4>1, <4>2, <4>4, Zenon
    <3>2. CASE u # Main
      BY <1>1, <2>1, <3>2 DEF Jobs
    <3>3. QED
      BY <3>1, <3>2
  <2>8. Holding'
    BY <1>1, <2>1, <2>3, <2>5 DEF Holding, Writing
  <2>9. Handles'
    BY <1>1, <1>2, <2>2, <2>3, <2>4, <2>5 DEF Handles, VictimIsOld, records
  <2>10. Lasts'
    BY <1>1, <2>1, <2>2, <2>4 DEF Lasts, records
  <2>11. Ends'
    <3> SUFFICES ASSUME NEW u \in Threads, pc'[u] = "end", handle'[u] = "file"
                 PROVE  files'[Entry(u)'.file].last = {Entry(u)'.line}
      BY DEF Ends
    <3>1. u # Main /\ handle[u] = "file" /\ Entry(u).file # victim
      BY <2>1, <2>5
    <3>2. pc[u] = "end" /\ Entry(u)' = Entry(u) /\ Entry(u).file \in DOMAIN files
      BY <2>1, <2>4, <3>1 DEF Handles
    <3>3. files[Entry(u).file].last = {Entry(u).line}
      BY <3>1, <3>2 DEF Ends
    <3>4. files'[Entry(u).file] = files[Entry(u).file]
      BY <2>2, <3>1, <3>2
    <3>5. QED
      BY <3>2, <3>3, <3>4
  <2>12. Ages' /\ Raced'
    BY <1>1, <2>2 DEF Ages, Raced, records
  <2>13. Kept'
    <3> SUFFICES ASSUME NEW r \in logged, r[1] = victim,
                        r[1] \in DOMAIN files, r[2] \in files[r[1]].whole
                 PROVE  day - r[2].day > MaxAge \/ r \in raced
      BY <1>1, <2>2 DEF Kept, records
    <3>1. r = <<victim, r[2]>>
      BY DEF Types
    <3>2. QED
      BY <1>2, <3>1 DEF VictimIsOld
  <2>14. QED
    BY <2>6, <2>7, <2>8, <2>9, <2>10, <2>11, <2>12, <2>13
<1>5. QED
  BY <1>3, <1>4 DEF Remove

-----------------------------------------------------------------------------
(* main() between its lines *)

LEMMA MainStays ==
    ASSUME MainInv, UNCHANGED <<mainAt, victim, day, files, raced>>, missed \subseteq missed',
           pc'[Main] = "idle" => pc[Main] = "idle" \/ Main \in missed'
    PROVE  MainInv'
BY DEF MainInv, AppIsFresh, VictimIsOld

(* main() goes on, with or without a line, to where nothing is asked of it. *)
LEMMA MainLeaves ==
    ASSUME mainAt' \notin {"look", "remove"}, mainAt' = "logged" => pc'[Main] = "lock"
    PROVE  MainInv'
BY DEF MainInv

LEMMA OpenMain ==
    ASSUME WriterInv, MainInv, NEW t \in Threads, Open(t)
    PROVE  MainInv'
<1> USE DEF WriterInv
<1> DEFINE f == Entry(t).file
<1>1. /\ files' = IF f \in DOMAIN files THEN files
                  ELSE [g \in DOMAIN files \cup {f} |-> IF g = f THEN Empty(day) ELSE files[g]]
      /\ pc' = [pc EXCEPT ![t] = "text"]
      /\ UNCHANGED <<mainAt, victim, day, missed, raced>>
  BY DEF Open, Goes, main, records
<1> HIDE DEF f
<1>2. Empty(day).whole = {} /\ Empty(day).written = day
  BY DEF Empty
<1>3. pc'[Main] = "idle" => pc[Main] = "idle"
  BY <1>1 DEF Types
<1>4. \A g \in DOMAIN files' : (g \in DOMAIN files /\ files'[g] = files[g]) \/ files'[g] = Empty(day)
  BY <1>1
<1>5. AppIsFresh => AppIsFresh'
  BY <1>1, <1>2, <1>4 DEF AppIsFresh
<1>6. VictimIsOld => VictimIsOld'
  BY <1>1, <1>2, <1>4 DEF VictimIsOld
<1>7. QED
  BY <1>1, <1>3, <1>5, <1>6 DEF MainInv

LEMMA OpenFailsMain ==
    ASSUME WriterInv, MainInv, NEW t \in Threads, OpenFails(t)
    PROVE  MainInv'
<1>1. /\ Done(t, "lock") /\ missed' = missed \cup {t}
      /\ UNCHANGED <<mainAt, victim, day, files, raced>>
  BY DEF OpenFails, main
<1>2. t # Main => pc'[Main] = pc[Main]
  BY <1>1, DoneIs DEF Threads
<1>3. QED
  BY <1>1, <1>2, MainStays

LEMMA WriteTextMain ==
    ASSUME WriterInv, MainInv, NEW t \in Threads, WriteText(t)
    PROVE  MainInv'
<1> USE DEF WriterInv
<1> DEFINE f == Entry(t).file
           new == [files[f] EXCEPT !.torn = @ \cup files[f].last, !.last = {Entry(t).line},
                                   !.written = day]
<1>1. /\ files' = IF handle[t] = "file" THEN [files EXCEPT ![f] = new] ELSE files
      /\ pc' = [pc EXCEPT ![t] = "end"]
      /\ UNCHANGED <<mainAt, victim, day, missed, raced>>
  BY DEF WriteText, Goes, Writes, main, records
<1>2. f \in DOMAIN files => new.whole = files[f].whole /\ new.written = day
  BY DEF Types, File
<1> HIDE DEF new, f
<1>3. pc'[Main] = "idle" => pc[Main] = "idle"
  BY <1>1 DEF Types
<1>4. /\ DOMAIN files' = DOMAIN files
      /\ \A g \in DOMAIN files :
           files'[g].whole = files[g].whole /\ files'[g].written \in {files[g].written, day}
  BY <1>1, <1>2 DEF Types
<1>5. AppIsFresh => AppIsFresh'
  BY <1>1, <1>4 DEF AppIsFresh
<1>6. VictimIsOld => VictimIsOld'
  BY <1>1, <1>4 DEF VictimIsOld
<1>7. QED
  BY <1>1, <1>3, <1>5, <1>6 DEF MainInv

LEMMA WriteEndMain ==
    ASSUME WriterInv, MainInv, NEW t \in Threads, WriteEnd(t)
    PROVE  MainInv'
<1> USE DEF WriterInv
<1> DEFINE f == Entry(t).file
           line == Entry(t).line
           new == [files[f] EXCEPT !.whole = @ \cup {line}, !.last = {}, !.written = day]
<1>1. /\ Done(t, "end") /\ pc[t] = "end"
      /\ raced' = IF handle[t] = "gone" \/ Removing(f) THEN raced \cup {<<f, line>>} ELSE raced
      /\ UNCHANGED <<mainAt, victim, day, missed>>
  BY DEF WriteEnd, Record, main, Done, Goes
<1>2. handle[t] = "file" => f \in DOMAIN files /\ files[f].last = {line}
  BY <1>1 DEF Handles, Ends
<1>3. files' = IF handle[t] = "file" THEN [files EXCEPT ![f] = new] ELSE files
  BY <1>2 DEF WriteEnd, Writes
<1>4. f \in DOMAIN files => new.whole = files[f].whole \cup {line} /\ new.written = day
  BY DEF Types, File
<1>5. t = Main => f = App /\ handle[t] = "file"
  <2>1. t = Main => f = App
    BY <1>1, EntryIs
  <2>2. handle[t] \in {"file", "gone"}
    BY <1>1 DEF Holding, Types, Writing
  <2>3. QED
    BY <2>1, <2>2 DEF Handles
<1> HIDE DEF new, f, line
<1>6. /\ DOMAIN files' = DOMAIN files
      /\ \A g \in DOMAIN files :
           /\ files'[g].whole \subseteq files[g].whole \cup (IF g = f THEN {line} ELSE {})
           /\ files'[g].written \in {files[g].written, day}
      /\ handle[t] = "file" => files'[f].written = day
  BY <1>2, <1>3, <1>4 DEF Types
<1>7. t # Main => pc'[Main] = pc[Main]
  BY <1>1, DoneIs DEF Threads
<1>8. AppIsFresh => AppIsFresh'
  BY <1>1, <1>6 DEF AppIsFresh
<1>9. t = Main => AppIsFresh'
  BY <1>1, <1>5, <1>6 DEF AppIsFresh
<1>10. mainAt = "remove" /\ VictimIsOld => VictimIsOld'
  <2> SUFFICES ASSUME mainAt = "remove", VictimIsOld, victim \in DOMAIN files,
                      NEW l \in files'[victim].whole
               PROVE  day - l.day > MaxAge \/ <<victim, l>> \in raced'
    BY <1>1, <1>6 DEF VictimIsOld
  <2>1. CASE l \in files[victim].whole
    BY <1>1, <2>1 DEF VictimIsOld
  <2>2. CASE victim = f /\ l = line
    BY <1>1, <2>2 DEF Removing
  <2>3. QED
    BY <1>6, <2>1, <2>2
<1>11. QED
  BY <1>1, <1>7, <1>8, <1>9, <1>10 DEF MainInv

(* Somebody catches what a line throws. *)
LEMMA CaughtHolds ==
    ASSUME IInv, NEW t \in Threads, pc[t] = "lock", MayLock(t), Caught(t),
           UNCHANGED <<day, files, handle, records>>
    PROVE  IInv'
<1> USE DEF WriterInv, IInv
<1>1. g_logMutex' = NoThread /\ g_logMutex = NoThread /\ UNCHANGED <<victim, count>>
  BY DEF Caught, Unwind, MayLock
<1>2. /\ pc' \in [Threads -> {"idle", "lock"} \cup Writing] /\ pc'[t] \notin Writing
      /\ \A u \in Threads \ {t} : pc'[u] = pc[u]
  BY DEF Caught, Types, Writing
<1>3. /\ job' \in [Threads -> Seq(Entries)]
      /\ job'[t] = job[t] \/ (job'[t] = <<>> /\ pc'[t] = "idle")
      /\ \A u \in Threads \ {t} : job'[u] = job[u]
  <2>1. <<>> \in Seq(Entries)
    OBVIOUS
  <2>2. QED
    BY <2>1 DEF Caught, Types
<1>4. Types'
  BY <1>1, <1>2, <1>3 DEF Types, records
<1>5. Jobs'
  <2> SUFFICES ASSUME NEW u \in Threads
               PROVE  /\ pc'[u] # "idle" => job'[u] # <<>>
                      /\ \A i \in 1..Len(job'[u]) :
                           /\ job'[u][i].line.by = u /\ job'[u][i].line.day <= day'
                           /\ u = Main => job'[u][i].file = App
    BY DEF Jobs
  <2>1. CASE u # t \/ job'[t] = job[t]
    BY <1>2, <1>3, <2>1 DEF Jobs
  <2>2. CASE u = t /\ job'[t] = <<>> /\ pc'[t] = "idle"
    <3>1. Len(<<>>) = 0
      OBVIOUS
    <3>2. QED
      BY <2>2, <3>1
  <2>3. QED
    BY <1>3, <2>1, <2>2
<1>6. WriterInv'
  <2>1. \A u \in Threads :
          /\ pc[u] \in Writing => pc'[u] = pc[u] /\ job'[u] = job[u]
          /\ pc'[u] \in Writing => pc[u] \in Writing
    BY <1>2, <1>3 DEF Writing
  <2>2. day' \in Nat /\ day <= day'
    BY DEF Types
  <2>3. /\ UNCHANGED <<files, handle, logged, raced, cut>> /\ missed \subseteq missed'
        /\ g_logMutex' = g_logMutex
    BY <1>1 DEF records
  <2>4. QED
    BY <1>4, <1>5, <2>1, <2>2, <2>3, BesideFiles
<1>7. MainInv'
  <2>1. \/ mainAt' = mainAt /\ (t = Main => pc'[t] = "lock")
        \/ mainAt' \in {"report", "unwind"}
    BY ThreadsAssumption DEF Caught, Types
  <2>2. CASE mainAt' = mainAt /\ (t = Main => pc'[t] = "lock")
    <3>1. pc'[Main] = "idle" => pc[Main] = "idle"
      BY <1>2, <2>2 DEF Threads
    <3>2. QED
      BY <1>1, <2>2, <3>1, MainStays DEF records
  <2>3. CASE mainAt' \in {"report", "unwind"}
    BY <2>3, MainLeaves
  <2>4. QED
    BY <2>1, <2>2, <2>3
<1>8. QED
  BY <1>6, <1>7

(* A thread begins to log, main() stays where it is. *)
LEMMA LogHolds ==
    ASSUME IInv, NEW t \in Threads, pc[t] \notin Writing,
           NEW fs \in Seq(Files), Len(fs) > 0, Logs(t, fs),
           t = Main => \A i \in 1..Len(fs) : fs[i] = App,
           UNCHANGED <<day, files, handle, records, mainAt, victim>>,
           g_logMutex' = g_logMutex \/ g_logMutex = NoThread
    PROVE  IInv'
<1> USE DEF WriterInv, IInv
<1>1. day \in Nat /\ day' \in Nat /\ day <= day'
  BY DEF Types
<1>2. WriterInv'
  BY <1>1, LogStarts DEF Logs
<1>3. pc'[Main] = "idle" => pc[Main] = "idle"
  BY DEF Logs, LogsOn, Types
<1>4. MainInv'
  BY <1>3, MainStays DEF records
<1>5. QED
  BY <1>2, <1>4

(* main() logs a line and goes to where nothing is asked of it. *)
LEMMA MainLogs ==
    ASSUME IInv, pc[Main] = "idle", day' \in Nat, day <= day', LogsOn(day', Main, <<App>>),
           mainAt' \notin {"look", "remove"},
           UNCHANGED <<files, handle, records, g_logMutex>>
    PROVE  IInv'
<1> USE DEF WriterInv, IInv
<1>1. <<App>> \in Seq(Files) /\ Len(<<App>>) > 0 /\ \A i \in 1..Len(<<App>>) : <<App>>[i] = App
  BY DEF Files
<1>2. Main \in Threads /\ pc[Main] \notin Writing /\ day' <= day'
  BY DEF Threads, Writing
<1>3. WriterInv'
  BY <1>1, <1>2, LogStarts
<1>4. pc'[Main] = "lock"
  BY <1>2 DEF LogsOn, Types
<1>5. QED
  BY <1>3, <1>4, MainLeaves

(* main() goes on without a line. *)
LEMMA MainMoves ==
    ASSUME IInv, UNCHANGED <<day, files, g_logMutex, pc, job, handle, count, records>>, MainInv'
    PROVE  IInv'
<1> USE DEF WriterInv, IInv
<1>1. Types' /\ Jobs'
  BY DEF Types, Jobs, records
<1>2. UNCHANGED <<files, handle, logged, raced, cut>> /\ missed \subseteq missed'
  BY DEF records
<1>3. day \in Nat /\ day' \in Nat /\ day <= day' /\ g_logMutex' = g_logMutex
  BY DEF Types
<1>4. WriterInv'
  BY <1>1, <1>2, <1>3, BesideFiles
<1>5. QED
  BY <1>4

LEMMA LookHolds ==
    ASSUME IInv, NEW f \in Files, Look(f)
    PROVE  IInv'
<1> USE DEF IInv
<1>1. /\ mainAt = "look" /\ pc[Main] = "idle" /\ AppIsFresh
      /\ UNCHANGED <<day, files, g_logMutex, handle, records>>
  BY DEF Look, MainGoes, MainInv
<1>2. CASE /\ f \in DOMAIN files /\ TooOld(f) /\ mainAt' = "remove" /\ victim' = f
           /\ UNCHANGED <<pc, job, count>>
  <2>1. AppIsFresh'
    BY <1>1 DEF AppIsFresh, records
  <2>2. files[f].written \in Nat /\ day \in Nat /\ day - files[f].written > MaxAge
    BY <1>2 DEF WriterInv, Types, File, TooOld
  <2>3. f = App => Main \in missed
    BY <1>1, <1>2, <2>2, MaxAgeAssumption DEF AppIsFresh
  <2>4. ASSUME NEW line \in files[f].whole  PROVE day - line.day > MaxAge
    <3>1. line.day \in Nat /\ line.day <= files[f].written
      BY <1>2 DEF WriterInv, Types, File, Lines, Ages
    <3>2. QED
      BY <2>2, <3>1, MaxAgeAssumption
  <2>5. VictimIsOld'
    BY <1>1, <1>2, <2>3, <2>4 DEF VictimIsOld, records
  <2>6. MainInv'
    BY <2>1, <2>5 DEF MainInv
  <2>7. QED
    BY <1>1, <1>2, <2>6, MainMoves
<1>3. CASE mainAt' = "look" /\ UNCHANGED <<pc, job, count, victim>>
  <2>1. AppIsFresh'
    BY <1>1 DEF AppIsFresh, records
  <2>2. MainInv'
    BY <1>3, <2>1 DEF MainInv
  <2>3. QED
    BY <1>1, <1>3, <2>2, MainMoves
<1>4. CASE mainAt' = "look" /\ Logs(Main, <<App>>) /\ UNCHANGED victim
  <2>1. /\ <<App>> \in Seq(Files) /\ Len(<<App>>) > 0 /\ \A i \in 1..Len(<<App>>) : <<App>>[i] = App
        /\ Main \in Threads /\ pc[Main] \notin Writing /\ mainAt' = mainAt
    BY <1>1, <1>4 DEF Files, Threads, Writing
  <2>2. QED
    BY <1>1, <1>4, <2>1, LogHolds
<1>5. QED
  BY <1>2, <1>3, <1>4 DEF Look, MainGoes

LEMMA MainStepHolds ==
    ASSUME IInv, MainStep
    PROVE  IInv'
<1>1. CASE CleanupOldLogFiles
  <2>1. /\ mainAt = "logged" /\ mainAt' = "look" /\ pc[Main] = "idle"
        /\ UNCHANGED <<day, files, g_logMutex, pc, job, handle, count, records>>
    BY <1>1 DEF CleanupOldLogFiles, MainGoes
  <2>2. AppIsFresh'
    BY <2>1 DEF IInv, MainInv, AppIsFresh, records
  <2>3. MainInv'
    BY <2>1, <2>2 DEF MainInv
  <2>4. QED
    BY <2>1, <2>3, MainMoves
<1>2. ASSUME NEW f \in Files, Look(f)  PROVE IInv'
  BY <1>2, LookHolds
<1>3. CASE Remove
  <2>1. WriterInv'
    BY <1>3, RemoveHolds DEF IInv
  <2>2. /\ mainAt = "remove" /\ mainAt' = "look" /\ UNCHANGED <<day, records>>
        /\ \A f \in DOMAIN files' : f \in DOMAIN files /\ files'[f] = files[f]
    BY <1>3 DEF Remove, MainGoes
  <2>3. AppIsFresh'
    BY <2>2 DEF IInv, MainInv, AppIsFresh, records
  <2>4. QED
    BY <2>1, <2>2, <2>3 DEF IInv, MainInv
<1>4. CASE CleanupFailed \/ Cycle \/ Failed
  <2>1. /\ pc[Main] = "idle" /\ mainAt' \notin {"look", "remove"} /\ Logs(Main, <<App>>)
        /\ UNCHANGED <<day, files, g_logMutex, handle, records>>
    BY <1>4 DEF CleanupFailed, Cycle, Failed, MainGoes
  <2>2. day' \in Nat /\ day <= day' /\ day' = day
    BY <2>1 DEF IInv, WriterInv, Types
  <2>3. QED
    BY <2>1, <2>2, MainLogs DEF Logs
<1>5. CASE Cleaned
  <2>1. mainAt' = "cleaned" /\ UNCHANGED <<day, files, g_logMutex, pc, job, handle, count, records>>
    BY <1>5 DEF Cleaned, MainGoes
  <2>2. MainInv'
    BY <2>1, MainLeaves
  <2>3. QED
    BY <2>1, <2>2, MainMoves
<1>6. CASE MainReturns
  BY <1>6, ProcessEndsHolds DEF MainReturns, IInv
<1>7. QED
  BY <1>1, <1>2, <1>3, <1>4, <1>5, <1>6 DEF MainStep

LEMMA WriteLineHolds ==
    ASSUME IInv, NEW t \in Threads, WriteLine(t)
    PROVE  IInv'
<1>1. CASE Open(t)
  BY <1>1, OpenHolds, OpenMain DEF IInv
<1>2. CASE OpenFails(t)
  BY <1>2, OpenFailsHolds, OpenFailsMain DEF IInv
<1>3. CASE WriteText(t)
  BY <1>3, WriteTextHolds, WriteTextMain DEF IInv
<1>4. CASE WriteEnd(t)
  BY <1>4, WriteEndHolds, WriteEndMain DEF IInv
<1>5. CASE WriteLineThrows(t)
  <2>1. /\ pc[t] = "lock" /\ MayLock(t) /\ UNCHANGED <<day, files, handle, records>>
    BY <1>5 DEF WriteLineThrows
  <2>2. CASE Caught(t)
    BY <2>1, <2>2, CaughtHolds
  <2>3. CASE Uncaught(t)
    <3>1. /\ <<App, App>> \in Seq(Files) /\ Len(<<App, App>>) > 0
          /\ \A i \in 1..Len(<<App, App>>) : <<App, App>>[i] = App
      BY DEF Files
    <3>2. /\ Logs(t, <<App, App>>) /\ UNCHANGED <<mainAt, victim>>
          /\ g_logMutex = NoThread /\ pc[t] \notin Writing
      BY <2>1, <2>3 DEF Uncaught, Terminates, main, MayLock, Writing
    <3>3. QED
      BY <2>1, <3>1, <3>2, LogHolds
  <2>4. QED
    BY <1>5, <2>2, <2>3 DEF WriteLineThrows
<1>6. CASE Abort(t)
  BY <1>6, ProcessEndsHolds DEF Abort, IInv
<1>7. QED
  BY <1>1, <1>2, <1>3, <1>4, <1>5, <1>6 DEF WriteLine

LEMMA InitHolds == Init => IInv
<1> SUFFICES ASSUME Init PROVE IInv
  OBVIOUS
<1> DEFINE e == [file |-> App, line |-> [by |-> Main, n |-> 0, day |-> 1]]
<1>1. /\ day = 1 /\ files = [f \in Files |-> Empty(IF f = App THEN 1 ELSE 0)]
      /\ g_logMutex = NoThread /\ pc = AtStart /\ handle = [t \in Threads |-> "none"]
      /\ mainAt = "logged"
      /\ job = [t \in Threads |-> IF t = Main THEN <<e>> ELSE <<>>]
      /\ count = [t \in Threads |-> IF t = Main THEN 1 ELSE 0]
      /\ logged = {} /\ missed = {} /\ cut = {} /\ raced = {}
  BY DEF Init
<1>2. e \in Entries /\ e.line.by = Main /\ e.line.day = 1 /\ e.file = App /\ Main \in Threads
  BY DEF Entries, Lines, Files, Threads
<1> HIDE DEF e
<1>3. /\ pc \in [Threads -> {"idle", "lock"} \cup Writing] /\ pc[Main] = "lock"
      /\ \A t \in Threads : pc[t] \notin Writing /\ handle[t] = "none"
      /\ \A t \in Threads \ {Main} : pc[t] = "idle"
  BY <1>1, <1>2 DEF AtStart, Writing
<1>4. /\ <<e>> \in Seq(Entries) /\ <<e>> # <<>> /\ Len(<<e>>) = 1 /\ <<e>>[1] = e
      /\ <<>> \in Seq(Entries) /\ Len(<<>>) = 0
  BY <1>2
<1>5. ASSUME NEW f \in Files
      PROVE  /\ files[f] \in File /\ files[f].torn = {} /\ files[f].last = {}
             /\ files[f].whole = {} /\ files[f].written <= 1
  BY <1>1, <1>5 DEF Empty, File
<1>6. DOMAIN files = Files
  BY <1>1
<1>7. Types
  <2>1. job \in [Threads -> Seq(Entries)]
    BY <1>1, <1>4
  <2>2. count \in [Threads -> Nat] /\ handle \in [Threads -> {"none", "file", "gone"}] /\ day \in Nat
    BY <1>1
  <2>3. files \in [DOMAIN files -> File]
    BY <1>1, <1>5, <1>6
  <2>4. QED
    BY <1>1, <1>3, <1>6, <2>1, <2>2, <2>3 DEF Types
<1>8. Jobs
  <2>1. job[Main] = <<e>> /\ \A t \in Threads \ {Main} : job[t] = <<>>
    BY <1>1, <1>2
  <2> SUFFICES ASSUME NEW t \in Threads
               PROVE  /\ pc[t] # "idle" => job[t] # <<>>
                      /\ \A i \in 1..Len(job[t]) :
                           /\ job[t][i].line.by = t /\ job[t][i].line.day <= day
                           /\ t = Main => job[t][i].file = App
    BY DEF Jobs
  <2>3. CASE t = Main
    <3>1. ASSUME NEW i \in 1..Len(<<e>>)  PROVE <<e>>[i] = e
      <4>1. i = 1
        BY <1>4, <3>1
      <4>2. QED
        BY <1>4, <4>1
    <3>2. e.line.day <= day
      BY <1>1, <1>2
    <3>3. QED
      BY <1>2, <1>4, <2>1, <2>3, <3>1, <3>2, Zenon
  <2>4. CASE t # Main
    BY <1>3, <1>4, <2>1, <2>4
  <2>5. QED
    BY <2>3, <2>4
<1>9. Holding /\ Handles /\ Ends
  BY <1>3 DEF Holding, Handles, Ends, Writing
<1>10. Lasts
  BY <1>5, <1>6 DEF Lasts
<1>11. Ages /\ Kept /\ Raced
  BY <1>1, <1>5, <1>6 DEF Ages, Kept, Raced
<1>12. MainInv
  BY <1>1, <1>3 DEF MainInv
<1>13. QED
  BY <1>7, <1>8, <1>9, <1>10, <1>11, <1>12 DEF IInv, WriterInv

LEMMA NextHolds == IInv /\ [Next]_vars => IInv'
<1> SUFFICES ASSUME IInv, [Next]_vars PROVE IInv'
  OBVIOUS
<1>1. ASSUME NEW t \in Threads, WriteLine(t)  PROVE IInv'
  BY <1>1, WriteLineHolds
<1>2. ASSUME NEW t \in Threads, HandlerThrows(t)  PROVE IInv'
  <2>1. /\ <<App, App>> \in Seq(Files) /\ Len(<<App, App>>) > 0
        /\ \A i \in 1..Len(<<App, App>>) : <<App, App>>[i] = App
    BY DEF Files
  <2>2. /\ Logs(t, <<App, App>>) /\ pc[t] \notin Writing
        /\ UNCHANGED <<day, files, handle, records, mainAt, victim, g_logMutex>>
    BY <1>2 DEF HandlerThrows, Terminates, main, Writing
  <2>3. QED
    BY <2>1, <2>2, LogHolds
<1>3. ASSUME NEW t \in Threads, Log(t)  PROVE IInv'
  <2>1. <<App>> \in Seq(Files) /\ Len(<<App>>) > 0 /\ \A i \in 1..Len(<<App>>) : <<App>>[i] = App
    BY DEF Files
  <2>2. /\ Logs(t, <<App>>) /\ pc[t] \notin Writing
        /\ UNCHANGED <<day, files, handle, records, mainAt, victim, g_logMutex>>
    BY <1>3 DEF Log, MayLog, main, Writing
  <2>3. QED
    BY <2>1, <2>2, LogHolds
<1>4. ASSUME NEW t \in Threads, Change(t)  PROVE IInv'
  <2>1. <<Changes, App>> \in Seq(Files) /\ Len(<<Changes, App>>) > 0
    BY DEF Files
  <2>2. /\ Logs(t, <<Changes, App>>) /\ pc[t] \notin Writing /\ t # Main
        /\ UNCHANGED <<day, files, handle, records, mainAt, victim, g_logMutex>>
    BY <1>4, ThreadsAssumption DEF Change, MayLog, main, Writing
  <2>3. QED
    BY <2>1, <2>2, LogHolds
<1>5. CASE WaitUntilRestartWindow
  <2>1. /\ pc[Main] = "idle" /\ mainAt' = "logged" /\ LogsOn(day', Main, <<App>>)
        /\ UNCHANGED <<files, handle, records, g_logMutex>>
        /\ day' = day \/ day' = day + 1
    BY <1>5 DEF WaitUntilRestartWindow, MainGoes
  <2>2. day' \in Nat /\ day <= day'
    BY <2>1 DEF IInv, WriterInv, Types
  <2>3. QED
    BY <2>1, <2>2, MainLogs
<1>6. CASE MainStep
  BY <1>6, MainStepHolds
<1>7. CASE Killed
  BY <1>7, ProcessEndsHolds DEF Killed, IInv
<1>8. CASE UNCHANGED vars
  <2>1. /\ UNCHANGED <<day, files, g_logMutex, pc, job, handle, count, records>>
        /\ UNCHANGED <<mainAt, victim>>
    BY <1>8 DEF vars, main
  <2>2. MainInv'
    BY <2>1 DEF IInv, MainInv, AppIsFresh, VictimIsOld, records
  <2>3. QED
    BY <2>1, <2>2, MainMoves
<1>9. QED
  BY <1>1, <1>2, <1>3, <1>4, <1>5, <1>6, <1>7, <1>8 DEF Next

LEMMA Inductive == Spec => []IInv
BY InitHolds, NextHolds, PTL DEF Spec

-----------------------------------------------------------------------------

(* The invariant LinesWhole of Logger::WriteLine: no line of a log file has   *)
(* another one inside it, unless the process ended in the middle of it.       *)
THEOREM NoLineIsTorn == Spec => []LinesWhole
<1>1. IInv => LinesWhole
  <2> SUFFICES ASSUME IInv, NEW f \in DOMAIN files
               PROVE  /\ files[f].torn \subseteq cut
                      /\ \A line \in files[f].last \ cut : g_logMutex = line.by
    BY DEF LinesWhole
  <2>1. ASSUME NEW line \in files[f].last \ cut  PROVE g_logMutex = line.by
    BY <2>1 DEF IInv, WriterInv, Lasts, Holding, Writing
  <2>2. QED
    BY <2>1 DEF IInv, WriterInv, Lasts
<1>2. QED
  BY <1>1, Inductive, PTL

(* The invariant FreshLinesStay of CleanupOldLogFiles: what is younger than   *)
(* a year is lost only in the moment between the look at the age of its file  *)
(* and its removal, and nothing that is in App.log, to which main() itself    *)
(* writes before it looks.                                                    *)
THEOREM FreshLinesAreKept == Spec => []FreshLinesStay
<1>1. IInv => FreshLinesStay
  BY DEF IInv, WriterInv, Kept, Raced, FreshLinesStay
<1>2. QED
  BY <1>1, Inductive, PTL

=============================================================================
