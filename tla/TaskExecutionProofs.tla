------------------------ MODULE TaskExecutionProofs ------------------------
(***************************************************************************)
(* TaskExecution for any number of executions, cancellations, names,       *)
(* outputs and late saves, and any buffer.                                 *)
(*                                                                         *)
(* The argument: what an execution has yielded is determined by what its   *)
(* dispatcher put out (Stream).  Its copy of the task is a write of the    *)
(* log that is not final while an event is left to save (Copies), so every *)
(* save, late ones included, continues a write that is not final (Saves).  *)
(* The copy holds the pieces that were taken (Collects), no document holds *)
(* pieces under an identifier that was not generated yet (Fresh), and so   *)
(* every save of a completed task shows all of its execution (Completes).  *)
(* A save adds only to what its own execution put there, so no document    *)
(* ever mixes two of them in one artifact (Unmixing).                      *)
(* A copy is where its stream is (Abreast), so every save takes the write  *)
(* it continues one state on (Advances), also when it lands late.          *)
(***************************************************************************)
EXTENDS TaskExecution, TLAPS

(* What may be asked of the store. *)
Write ==
    [client : Processes, kind : {"create", "update"}, task : {TheTask}, as : {TheOwner},
     prev : Nat, content : Document]

Written == log[TheTask]

StoreTypes ==
    /\ log \in [{TheTask} -> Seq(Write)]
    /\ late \in [Slots -> Write \cup {NoRequest}]

-----------------------------------------------------------------------------
(* How many events precede the first artifact. *)
Announced(w) == IF stored[w] THEN 1 ELSE 2

Kind(w, i) == events[w][i].kind

(* The i-th event of a call. *)
EventInPlace(w, i) ==
    /\ Kind(w, i) \in Final \cup {"error"} \/ i = broken[w] => i = Len(events[w])
    /\ i < Announced(w) => Kind(w, i) \in {"submitted", "error"}
    /\ i = Announced(w) => Kind(w, i) \in {"working", "error"}
    /\ i > Announced(w) => Kind(w, i) \in {"artifact", "failed", "completed"}
    /\ Kind(w, i) = "artifact" => i <= Announced(w) + Len(sent[w])
    /\ Kind(w, i) = "completed" => i = Announced(w) + Len(sent[w]) + 1

(* The k-th output and the event it became. *)
OutputInPlace(w, k) ==
    /\ Announced(w) + k <= Len(events[w])
    /\ LET e == events[w][Announced(w) + k]
       IN  /\ e.kind = "artifact"
           /\ e.id = IF sent[w][k] = NoName THEN w ELSE sent[w][k]
           /\ e.chunk = <<w, k>>
           /\ e.append <=> \E j \in 1..(k - 1) : sent[w][j] = sent[w][k]

StreamOf(w) ==
    /\ phase[w] = "idle" => /\ pc[w] = "out" /\ events[w] = <<>>
                            /\ taken[w] = 0 /\ broken[w] = 0
    /\ pc[w] = "enter" => events[w] = <<>>
    /\ pc[w] = "announce" => Len(events[w]) = Announced(w) - 1
    /\ pc[w] = "dispatch" => Len(events[w]) = Announced(w) + Len(sent[w])
    /\ pc[w] \in {"enter", "announce"} => sent[w] = <<>>
    /\ pc[w] # "out" => /\ broken[w] = 0
                        /\ \A i \in 1..Len(events[w]) : Kind(w, i) \notin Final \cup {"error"}
    /\ \A i \in 1..Len(events[w]) : EventInPlace(w, i)
    /\ \A k \in 1..Len(sent[w]) : OutputInPlace(w, k)
    /\ \A n \in Names \cup {NoName} :
          artifacts[w][n] # NoId <=> \E k \in 1..Len(sent[w]) : sent[w][k] = n

Stream == \A w \in Executions : StreamOf(w)

-----------------------------------------------------------------------------
(* Where a copy comes from. *)
CopyOf(p) ==
    phase[p] = "ready" =>
       /\ copy[p].version \in 0..Len(Written)
       /\ copy[p].version = 0 => copy[p].doc = NoDocument
       /\ copy[p].version # 0 => copy[p].doc = Written[copy[p].version].content
       /\ copy[p].doc.state \in Final =>
             p \in Executions /\ taken[p] = Len(events[p]) /\ pc[p] = "out"

Copies == \A p \in Processes : CopyOf(p)

(* A save continues a write that is not final, or begins. *)
Continues(r) ==
    r.kind = "update" => r.prev \in 1..Len(Written) /\ Written[r.prev].content.state \notin Final

Saves == \A s \in Slots : late[s] # NoRequest => Continues(late[s])

(* The outputs whose events were saved. *)
TakenOf(w, name) == {i \in Mine(w, name) : Announced(w) + i <= taken[w]}

CollectsOf(w) ==
    phase[w] = "ready" =>
       /\ \A n \in Names :
             TakenOf(w, n) # {} => Lists(copy[w].doc.pieces[n], w, TakenOf(w, n))
       /\ Lists(copy[w].doc.pieces[w], w, TakenOf(w, NoName))

Collects == \A w \in Executions : CollectsOf(w)

Fresh ==
    \A w \in Executions : phase[w] = "idle" =>
       /\ \A i \in 1..Len(Written) : Written[i].content.pieces[w] = <<>>
       /\ \A s \in Slots : late[s] # NoRequest => late[s].content.pieces[w] = <<>>
       /\ \A p \in Processes : copy[p].doc.pieces[w] = <<>>

CompletedBy(r) ==
    r.content.state = "completed" =>
       /\ r.client \in Executions
       /\ phase[r.client] # "idle" /\ pc[r.client] = "out"
       /\ ShowsOutputOf(r.client, r.content)

Completes ==
    /\ \A i \in 1..Len(Written) : CompletedBy(Written[i])
    /\ \A s \in Slots : late[s] # NoRequest => CompletedBy(late[s])

ExecutionInvariant ==
    TypeOK /\ StoreTypes /\ Stream /\ Copies /\ Saves /\ Collects /\ Fresh /\ Completes

-----------------------------------------------------------------------------
(* The store. *)

LEMMA Answers ==
    ASSUME StoreTypes, NEW r \in Write, Store!Answer(r).status = "ok"
    PROVE  /\ Store!Effect(r) = [log EXCEPT ![TheTask] = Append(Written, r)]
           /\ Store!Answer(r).version = Len(Written) + 1
           /\ Store!Answer(r).content = r.content
    BY DEF Write, Written, Store!Answer, Store!Effect, Store!Failure, Store!Success,
           Store!Admissible, Store!Refusal, Store!Accepts

(* An answered load shows the last write. *)
LEMMA Loads ==
    ASSUME StoreTypes, NEW p,
           NEW r, r = Store!Answer(Request(p, "get", 0, NoContent)), r.status = "ok"
    PROVE  r.version = Len(Written) /\ r.version \in 1..Len(Written)
           /\ r.content = Written[Len(Written)].content
<1>1. Written \in Seq(Write)
    BY DEF StoreTypes, Written
<1>2. Written # <<>> /\ r.version = Len(Written) /\ r.content = Written[Len(Written)].content
    BY DEF Written, Store!Answer, Store!Failure, Store!Success, Request,
           Store!Admissible, Store!Refusal, Store!Accepts, Store!Owned, Store!Exists
<1> QED
    BY <1>1, <1>2

(* A write ends the log or leaves it alone; an update ends it only where   *)
(* it continues the last write.                                            *)
LEMMA Effects ==
    ASSUME StoreTypes, NEW r \in Write
    PROVE  /\ Store!Effect(r) \in [{TheTask} -> Seq(Write)]
           /\ \/ Store!Effect(r) = log
              \/ /\ Store!Effect(r)[TheTask] = Append(Written, r)
                 /\ r.kind = "create" => Written = <<>>
                 /\ r.kind = "update" => r.prev \in {0, Len(Written)}
    BY DEF StoreTypes, Write, Written, Store!Effect, Store!Accepts, Store!Exists,
           Store!TaskVersionMissing

LEMMA Documents ==
    /\ NoDocument \in Document
    /\ NoDocument.state = "none" /\ \A i \in Ids : NoDocument.pieces[i] = <<>>
    BY DEF NoDocument, Document, States

-----------------------------------------------------------------------------
(* What an execution has yielded stays in its place when it yields more.   *)
LEMMA EventsStayInPlace ==
    ASSUME TypeOK, NEW w \in Executions, StreamOf(w), pc[w] # "out",
           NEW e, events'[w] = Append(events[w], e),
           broken'[w] \in {0, Len(events[w]) + 1}, stored'[w] = stored[w],
           Len(sent'[w]) \in Nat, Len(sent'[w]) >= Len(sent[w])
    PROVE  \A i \in 1..Len(events[w]) : EventInPlace(w, i)'
<1> SUFFICES ASSUME NEW i \in 1..Len(events[w]) PROVE EventInPlace(w, i)'
    OBVIOUS
<1>1. events[w] \in Seq(Event) /\ Len(events[w]) \in Nat /\ Len(sent[w]) \in Nat
    BY DEF TypeOK
<1>2. events'[w][i] = events[w][i] /\ Len(events'[w]) = Len(events[w]) + 1
    BY <1>1
<1>3. Kind(w, i) \notin Final \cup {"error"} /\ EventInPlace(w, i)
    BY DEF StreamOf
<1>4. (Kind(w, i) = "artifact" => i <= Announced(w) + Len(sent'[w])) /\ Kind(w, i) # "completed"
  <2>1. Announced(w) \in 1..2
      BY DEF Announced
  <2> QED
      BY <1>1, <1>3, <2>1 DEF EventInPlace, Final
<1>5. i # broken'[w]
    BY <1>1
<1> QED
    BY <1>2, <1>3, <1>4, <1>5 DEF EventInPlace, Kind, Announced

LEMMA OutputsStayInPlace ==
    ASSUME TypeOK, NEW w \in Executions, StreamOf(w),
           NEW e, events'[w] = Append(events[w], e), stored'[w] = stored[w],
           \A k \in 1..Len(sent[w]) : sent'[w][k] = sent[w][k]
    PROVE  \A k \in 1..Len(sent[w]) : OutputInPlace(w, k)'
<1> SUFFICES ASSUME NEW k \in 1..Len(sent[w]) PROVE OutputInPlace(w, k)'
    OBVIOUS
<1>1. events[w] \in Seq(Event) /\ Len(events[w]) \in Nat /\ Len(sent[w]) \in Nat
    BY DEF TypeOK
<1>2. OutputInPlace(w, k) /\ Announced(w) \in 1..2 /\ Announced(w)' = Announced(w)
    BY DEF StreamOf, Announced
<1>3. Announced(w) + k \in 1..Len(events[w])
    BY <1>1, <1>2 DEF OutputInPlace
<1>4. events'[w][Announced(w) + k] = events[w][Announced(w) + k] /\ Len(events'[w]) = Len(events[w]) + 1
    BY <1>1, <1>3
<1>5. (\E j \in 1..(k - 1) : sent'[w][j] = sent'[w][k])
         <=> \E j \in 1..(k - 1) : sent[w][j] = sent[w][k]
    BY <1>1
<1>6. Announced(w)' + k <= Len(events'[w]) /\ sent'[w][k] = sent[w][k]
    BY <1>1, <1>2, <1>3, <1>4
<1>7. events'[w][Announced(w)' + k] = events[w][Announced(w) + k]
    BY <1>2, <1>4
<1> QED
    BY <1>2, <1>5, <1>6, <1>7 DEF OutputInPlace

(* The statuses Execute yields, from where to where. *)
Announcement(w, k, next) ==
    \/ pc[w] = "enter" /\ k = "error" /\ next = "out"
    \/ pc[w] = "enter" /\ ~stored[w] /\ k = "submitted" /\ next = "announce"
    \/ pc[w] = "announce" /\ k = "working" /\ next = "dispatch"
    \/ pc[w] = "dispatch" /\ k \in {"failed", "completed"} /\ next = "out"

LEMMA YieldAppends ==
    ASSUME TypeOK, NEW w \in Executions, NEW e, NEW next, Yield(w, e, next)
    PROVE  /\ events' = [events EXCEPT ![w] = Append(events[w], e)]
           /\ events'[w] = Append(events[w], e) /\ Len(events'[w]) = Len(events[w]) + 1
           /\ events'[w][Len(events[w]) + 1] = e
           /\ \/ pc' = [pc EXCEPT ![w] = next] /\ pc'[w] = next /\ broken' = broken
              \/ /\ pc' = [pc EXCEPT ![w] = "out"] /\ pc'[w] = "out"
                 /\ broken' = [broken EXCEPT ![w] = Len(events[w]) + 1]
                 /\ broken'[w] = Len(events[w]) + 1
<1>1. events[w] \in Seq(Event) /\ events \in [Executions -> Seq(Event)]
    BY DEF TypeOK
<1>2. events' = [events EXCEPT ![w] = Append(events[w], e)]
    BY DEF Yield, Set
<1>3. events'[w] = Append(events[w], e)
    BY <1>1, <1>2
<1>4. Len(events'[w]) = Len(events[w]) + 1 /\ events'[w][Len(events[w]) + 1] = e
    BY <1>1, <1>3
<1> QED
    BY <1>2, <1>3, <1>4 DEF Yield, Set, TypeOK

LEMMA StatusStream ==
    ASSUME TypeOK, NEW w \in Executions, StreamOf(w), phase[w] # "idle",
           NEW k, NEW next, Announcement(w, k, next), Yield(w, Status(k), next),
           UNCHANGED <<phase, taken, stored, artifacts, sent>>
    PROVE  StreamOf(w)'
<1>0. Len(events[w]) \in Nat
    BY DEF TypeOK
<1> PICK n \in Nat : n = Len(events[w])
    BY <1>0
<1>1. Len(sent[w]) \in Nat /\ Announced(w) \in 1..2
    BY DEF TypeOK, Announced
<1>2. /\ events'[w] = Append(events[w], Status(k)) /\ Len(events'[w]) = n + 1
      /\ Kind(w, n + 1)' = k
      /\ (pc'[w] = next /\ broken'[w] = 0) \/ (pc'[w] = "out" /\ broken'[w] = n + 1)
    BY YieldAppends DEF StreamOf, Announcement, Status, Kind
<1>3. Announced(w)' = Announced(w)
    BY DEF Announced
<1>4. \A i \in 1..n : EventInPlace(w, i)'
  <2>1. pc[w] # "out" /\ broken'[w] \in {0, Len(events[w]) + 1}
      BY <1>2 DEF Announcement
  <2>2. stored'[w] = stored[w] /\ Len(sent'[w]) \in Nat /\ Len(sent'[w]) >= Len(sent[w])
      BY <1>1
  <2>3. \A i \in 1..Len(events[w]) : EventInPlace(w, i)'
      BY <1>2, <2>1, <2>2, EventsStayInPlace
  <2> QED
      BY <2>3
<1>5. \A i \in 1..Len(sent[w]) : OutputInPlace(w, i)'
    BY <1>2, OutputsStayInPlace
<1>6. EventInPlace(w, n + 1)'
  <2>1. CASE pc[w] = "enter"
    <3>1. n = 0 /\ (k = "error" \/ (k = "submitted" /\ ~stored[w]))
        BY <2>1 DEF Announcement, StreamOf
    <3>2. Kind(w, 1)' = k /\ (k = "submitted" => Announced(w) = 2)
        BY <1>2, <3>1 DEF Announced
    <3> QED
        BY <1>1, <1>2, <1>3, <3>1, <3>2 DEF EventInPlace, Final
  <2>2. CASE pc[w] = "announce"
      BY <1>1, <1>2, <1>3, <2>2 DEF EventInPlace, Announcement, Final, StreamOf
  <2>3. CASE pc[w] = "dispatch"
      BY <1>1, <1>2, <1>3, <2>3 DEF EventInPlace, Announcement, Final, StreamOf
  <2> QED
      BY <2>1, <2>2, <2>3 DEF Announcement
<1>7. pc'[w] # "out" => \A i \in 1..(n + 1) : Kind(w, i)' \notin Final \cup {"error"}
  <2> SUFFICES ASSUME pc'[w] # "out", NEW i \in 1..(n + 1)
               PROVE  Kind(w, i)' \notin Final \cup {"error"}
      OBVIOUS
  <2>1. CASE i \in 1..n
    <3>1. Kind(w, i)' = Kind(w, i)
        BY <1>1, <1>2, <2>1 DEF Kind, TypeOK
    <3> QED
        BY <2>1, <3>1 DEF StreamOf, Announcement
  <2>2. CASE i = n + 1
      BY <1>2, <2>2 DEF Announcement, Final
  <2> QED
      BY <1>1, <2>1, <2>2
<1>8. /\ pc'[w] # "enter"
      /\ pc'[w] = "announce" => Len(events'[w]) = Announced(w) - 1 /\ sent[w] = <<>>
      /\ pc'[w] = "dispatch" => Len(events'[w]) = Announced(w) + Len(sent[w])
  <2>1. pc[w] = "enter" => n = 0 /\ sent[w] = <<>>
      BY DEF StreamOf
  <2>2. pc[w] = "announce" => n + 1 = Announced(w) /\ sent[w] = <<>> /\ Len(sent[w]) = 0
      BY <1>1 DEF StreamOf
  <2>3. pc'[w] = "announce" => pc[w] = "enter" /\ Announced(w) = 2
      BY <1>2 DEF Announcement, Announced
  <2>4. pc'[w] = "dispatch" => pc[w] = "announce"
      BY <1>2 DEF Announcement
  <2>5. pc'[w] # "enter"
      BY <1>2 DEF Announcement
  <2> QED
      BY <1>1, <1>2, <2>1, <2>2, <2>3, <2>4, <2>5
<1>9. \A i \in 1..(n + 1) : EventInPlace(w, i)'
    BY <1>1, <1>4, <1>6
<1> QED
    BY <1>2, <1>3, <1>5, <1>7, <1>8, <1>9 DEF StreamOf

(* Whoever does not touch a stream, keeps it. *)
LEMMA StreamUntouched ==
    ASSUME NEW w, StreamOf(w),
           events'[w] = events[w], sent'[w] = sent[w], stored'[w] = stored[w],
           broken'[w] = broken[w], artifacts'[w] = artifacts[w],
           phase'[w] = "idle" => phase[w] = "idle" /\ pc'[w] = "out" /\ taken'[w] = taken[w],
           pc'[w] = "enter" => pc[w] = "enter",
           pc'[w] = "announce" => pc[w] = "announce" \/ (pc[w] = "enter" /\ stored[w]),
           pc'[w] = "dispatch" => pc[w] = "dispatch",
           pc'[w] # "out" => pc[w] # "out"
    PROVE  StreamOf(w)'
<1>1. Announced(w)' = Announced(w) /\ \A i : Kind(w, i)' = Kind(w, i)
    BY DEF Announced, Kind
<1>2. \A i \in 1..Len(events'[w]) : EventInPlace(w, i)'
    BY <1>1 DEF EventInPlace, StreamOf
<1>3. \A k \in 1..Len(sent'[w]) : OutputInPlace(w, k)'
    BY <1>1 DEF OutputInPlace, StreamOf
<1>4. pc'[w] = "announce" => Len(events'[w]) = Announced(w)' - 1
    BY <1>1 DEF StreamOf, Announced
<1> QED
    BY <1>1, <1>2, <1>3, <1>4 DEF StreamOf

LEMMA OutputStream ==
    ASSUME TypeOK, NEW w \in Executions, StreamOf(w), phase[w] # "idle",
           NEW o \in Outputs, o.parts, Receive(w, o)
    PROVE  StreamOf(w)'
<1> DEFINE e == ArtifactEvent(IdOf(w, o), Appends(w, o), <<w, Len(sent[w]) + 1>>)
<1>0. Len(events[w]) \in Nat /\ Len(sent[w]) \in Nat /\ sent[w] \in Seq(Names \cup {NoName})
    BY DEF TypeOK
<1> PICK n \in Nat, l \in Nat : n = Len(events[w]) /\ l = Len(sent[w])
    BY <1>0
<1>1. /\ pc[w] = "dispatch" /\ Announced(w) \in 1..2 /\ n = Announced(w) + l
      /\ o.name \in Names \cup {NoName} /\ IdOf(w, o) # NoId
  <2>1. o \in Output /\ NoId \notin Names \cup Executions
      BY ExecutionAssumption
  <2>2. o.name \in Names \cup {NoName} /\ IdOf(w, o) # NoId
      BY <2>1 DEF Output, IdOf
  <2>3. pc[w] = "dispatch" /\ Len(events[w]) = Announced(w) + Len(sent[w])
      BY DEF Receive, StreamOf
  <2> QED
      BY <2>2, <2>3 DEF Announced
<1>2. /\ events'[w] = Append(events[w], e) /\ Len(events'[w]) = n + 1
      /\ events'[w][n + 1] = e
      /\ (pc'[w] = "dispatch" /\ broken'[w] = 0) \/ (pc'[w] = "out" /\ broken'[w] = n + 1)
  <2>1. Yield(w, e, "dispatch") /\ broken[w] = 0
      BY <1>1 DEF Receive, StreamOf
  <2> HIDE DEF e
  <2> QED
      BY <2>1, YieldAppends
<1>3. /\ sent'[w] = Append(sent[w], o.name) /\ Len(sent'[w]) = l + 1 /\ sent'[w][l + 1] = o.name
      /\ \A k \in 1..l : sent'[w][k] = sent[w][k]
  <2>1. sent'[w] = Append(sent[w], o.name)
      BY DEF Receive, Set, TypeOK
  <2> QED
      BY <1>0, <1>1, <2>1
<1>4. UNCHANGED <<phase, taken, stored>> /\ Announced(w)' = Announced(w)
    BY DEF Receive, store, sdk, Announced
<1>5. \A i \in 1..n : EventInPlace(w, i)'
  <2>1. pc[w] # "out" /\ broken'[w] \in {0, Len(events[w]) + 1} /\ stored'[w] = stored[w]
      BY <1>1, <1>2, <1>4
  <2>2. Len(sent'[w]) \in Nat /\ Len(sent'[w]) >= Len(sent[w])
      BY <1>3
  <2>3. \A i \in 1..Len(events[w]) : EventInPlace(w, i)'
      BY <1>2, <2>1, <2>2, EventsStayInPlace
  <2> QED
      BY <2>3
<1>6. EventInPlace(w, n + 1)'
  <2>1. Kind(w, n + 1)' = "artifact"
      BY <1>2 DEF Kind, ArtifactEvent
  <2> QED
      BY <1>1, <1>2, <1>3, <1>4, <2>1 DEF EventInPlace, Final
<1>7. \A k \in 1..l : OutputInPlace(w, k)'
  <2>1. stored'[w] = stored[w] /\ \A k \in 1..Len(sent[w]) : sent'[w][k] = sent[w][k]
      BY <1>3, <1>4
  <2>2. \A k \in 1..Len(sent[w]) : OutputInPlace(w, k)'
      BY <1>2, <2>1, OutputsStayInPlace
  <2> QED
      BY <2>2
<1>8. OutputInPlace(w, l + 1)'
  <2>1. Appends(w, o) <=> \E k \in 1..l : sent[w][k] = o.name
      BY <1>1 DEF Appends, StreamOf
  <2>2. (\E j \in 1..((l + 1) - 1) : sent'[w][j] = sent'[w][l + 1]) <=> Appends(w, o)
      BY <1>3, <2>1
  <2>3. Announced(w)' + (l + 1) = n + 1
      BY <1>1, <1>4
  <2>4. /\ e.kind = "artifact" /\ e.id = IdOf(w, o) /\ e.append = Appends(w, o)
        /\ e.chunk = <<w, l + 1>>
      BY DEF ArtifactEvent
  <2> HIDE DEF e
  <2> QED
      BY <1>2, <1>3, <2>2, <2>3, <2>4 DEF OutputInPlace, IdOf
<1>9. ASSUME NEW m \in Names \cup {NoName}
      PROVE  artifacts'[w][m] # NoId <=> \E k \in 1..(l + 1) : sent'[w][k] = m
  <2>1. artifacts'[w][m] = IF m = o.name THEN IdOf(w, o) ELSE artifacts[w][m]
      BY <1>1 DEF Receive, TypeOK
  <2>2. (\E k \in 1..(l + 1) : sent'[w][k] = m) <=> (m = o.name \/ \E k \in 1..l : sent[w][k] = m)
      BY <1>3
  <2>3. artifacts[w][m] # NoId <=> \E k \in 1..l : sent[w][k] = m
      BY DEF StreamOf
  <2> QED
      BY <1>1, <2>1, <2>2, <2>3
<1>10. pc'[w] # "out" => \A i \in 1..(n + 1) : Kind(w, i)' \notin Final \cup {"error"}
  <2> SUFFICES ASSUME pc'[w] # "out", NEW i \in 1..(n + 1)
               PROVE  Kind(w, i)' \notin Final \cup {"error"}
      OBVIOUS
  <2>1. CASE i \in 1..n
    <3>1. Kind(w, i)' = Kind(w, i)
        BY <1>2, <2>1 DEF Kind, TypeOK
    <3> QED
        BY <1>1, <2>1, <3>1 DEF StreamOf
  <2>2. CASE i = n + 1
      BY <1>2, <2>2 DEF Kind, ArtifactEvent, Final
  <2> QED
      BY <2>1, <2>2
<1>11. \A i \in 1..(n + 1) : EventInPlace(w, i)'
    BY <1>5, <1>6
<1>12. \A k \in 1..(l + 1) : OutputInPlace(w, k)'
    BY <1>7, <1>8
<1>13. pc'[w] = "dispatch" => Len(events'[w]) = Announced(w)' + Len(sent'[w])
    BY <1>1, <1>2, <1>3, <1>4
<1>14. phase'[w] # "idle" /\ pc'[w] \in {"dispatch", "out"} /\ (pc'[w] # "out" => broken'[w] = 0)
    BY <1>2, <1>4
<1>15. \A m \in Names \cup {NoName} :
          artifacts'[w][m] # NoId <=> \E k \in 1..Len(sent'[w]) : sent'[w][k] = m
    BY <1>3, <1>9
<1>16. Len(events'[w]) = n + 1 /\ Len(sent'[w]) = l + 1
    BY <1>2, <1>3
<1> HIDE DEF e
<1> QED
    BY <1>10, <1>11, <1>12, <1>13, <1>14, <1>15, <1>16 DEF StreamOf

(* A step of Execute keeps every stream in order. *)
LEMMA ExecutorStream ==
    ASSUME TypeOK, Stream, NEW w \in Executions, Executor(w)
    PROVE  Stream'
<1>1. StreamOf(w) /\ pc[w] # "out" /\ phase[w] # "idle"
    BY DEF Stream, StreamOf, Executor, RefuseNoMessage, Submit, Work, Receive, DispatchFails,
           DispatchEnds
<1>2. StreamOf(w)'
  <2>1. CASE Submit(w) /\ stored[w]
      BY <1>1, <2>1, StreamUntouched DEF Submit, Set, sdk, TypeOK
  <2>2. CASE \E o \in Outputs : Receive(w, o)
    <3>1. PICK o \in Outputs : Receive(w, o)
        BY <2>2
    <3>2. CASE ~o.parts
        BY <1>1, <3>1, <3>2, StreamUntouched DEF Receive, sdk
    <3> QED
        BY <1>1, <3>1, <3>2, OutputStream
  <2>3. CASE RefuseNoMessage(w) \/ (Submit(w) /\ ~stored[w]) \/ Work(w) \/ DispatchFails(w) \/ DispatchEnds(w)
    <3>1. /\ UNCHANGED <<phase, taken, stored, artifacts, sent>>
          /\ \E k, next : Announcement(w, k, next) /\ Yield(w, Status(k), next)
        BY <2>3
        DEF RefuseNoMessage, Submit, Work, DispatchFails, DispatchEnds, Announcement, sdk
    <3> QED
        BY <1>1, <3>1, StatusStream
  <2> QED
      BY <2>1, <2>2, <2>3 DEF Executor
<1>3. ASSUME NEW v \in Executions, v # w PROVE StreamOf(v)'
  <2>1. /\ phase'[v] = phase[v] /\ pc'[v] = pc[v] /\ events'[v] = events[v] /\ taken'[v] = taken[v]
        /\ sent'[v] = sent[v] /\ stored'[v] = stored[v] /\ broken'[v] = broken[v]
        /\ artifacts'[v] = artifacts[v]
      BY <1>3 DEF Executor, RefuseNoMessage, Submit, Work, Receive, DispatchFails,
                  DispatchEnds, Yield, Set, sdk, TypeOK
  <2>2. StreamOf(v)
      BY DEF Stream
  <2>3. phase'[v] = "idle" => phase[v] = "idle" /\ pc'[v] = "out"
      BY <2>1, <2>2 DEF StreamOf
  <2> QED
      BY <2>1, <2>2, <2>3, StreamUntouched
<1> QED
    BY <1>2, <1>3 DEF Stream

-----------------------------------------------------------------------------
(* Types. *)

LEMMA AppliedTypes ==
    ASSUME NEW doc \in Document, NEW e \in Event
    PROVE  Applied(doc, e) \in Document
<1>1. CASE e.kind = "error"
    BY <1>1 DEF Applied, Document, States
<1>2. CASE e.kind = "artifact"
  <2>1. e.id \in Ids /\ e.chunk \in Chunk
      BY <1>2 DEF Event, States
  <2> DEFINE piece == IF e.append THEN Append(doc.pieces[e.id], e.chunk) ELSE <<e.chunk>>
  <2>2. doc.pieces \in [Ids -> Seq(Chunk)]
      BY DEF Document
  <2>3. piece \in Seq(Chunk)
      BY <2>1, <2>2
  <2>4. Applied(doc, e) = [doc EXCEPT !.pieces = [doc.pieces EXCEPT ![e.id] = piece]]
      BY <1>2 DEF Applied, Document
  <2> HIDE DEF piece
  <2> QED
      BY <2>1, <2>2, <2>3, <2>4 DEF Document
<1>3. CASE e.kind \in States \ {"none"}
    BY <1>3 DEF Applied, Document, States
<1> QED
    BY <1>1, <1>2, <1>3 DEF Event

LEMMA SavingTypes ==
    ASSUME TypeOK, NEW p \in Processes, NEW doc \in Document
    PROVE  Saving(p, doc) \in Write
<1>1. copy[p].version \in Nat
    BY DEF TypeOK
<1> QED
    BY <1>1 DEF Saving, Request, Write, Store!TaskVersionMissing

LEMMA NextSaveTypes ==
    ASSUME TypeOK, NEW w \in Executions, taken[w] < Len(events[w])
    PROVE  /\ events[w][taken[w] + 1] \in Event
           /\ Applied(copy[w].doc, events[w][taken[w] + 1]) \in Document
           /\ NextSave(w) \subseteq Write
<1>1. events[w] \in Seq(Event) /\ taken[w] + 1 \in 1..Len(events[w])
    BY DEF TypeOK
<1>2. events[w][taken[w] + 1] \in Event
    BY <1>1
<1>3. w \in Processes /\ copy[w].doc \in Document
    BY DEF TypeOK, Processes
<1> QED
    BY <1>2, <1>3, AppliedTypes, SavingTypes DEF NextSave

LEMMA CancelSaveTypes ==
    ASSUME TypeOK, NEW c \in Cancels
    PROVE  CancelSave(c) \in Write
<1>1. c \in Processes /\ copy[c].doc \in Document
    BY DEF TypeOK, Processes
<1>2. Status("canceled") \in Event
    BY DEF Status, Event, States
<1> QED
    BY <1>1, <1>2, AppliedTypes, SavingTypes DEF CancelSave

(* The SDK goes on with p, has p load the task again, or stops. *)
Moves(p) ==
    \E ph \in Phase, d \in Document, v \in Nat :
       /\ phase' = [phase EXCEPT ![p] = ph]
       /\ copy' = [copy EXCEPT ![p] = [doc |-> d, version |-> v]]

LEMMA Moving ==
    ASSUME TypeOK, NEW p \in Processes, Moves(p)
    PROVE  /\ phase' \in [Processes -> Phase]
           /\ copy' \in [Processes -> [doc : Document, version : Nat]]
           /\ \A q \in Processes : q # p => phase'[q] = phase[q] /\ copy'[q] = copy[q]
    BY DEF TypeOK, Moves

LEMMA Stopping ==
    ASSUME TypeOK, NEW p \in Processes, NEW ph \in Phase,
           phase' = Set(phase, p, ph), copy' = Set(copy, p, NoCopy)
    PROVE  /\ Moves(p)
           /\ phase'[p] = ph /\ copy'[p] = NoCopy
<1>1. NoCopy = [doc |-> NoDocument, version |-> 0] /\ NoDocument \in Document
    BY Documents DEF NoCopy, Store!TaskVersionMissing
<1> QED
    BY <1>1 DEF Moves, Set, TypeOK

LEMMA Reaching ==
    ASSUME TypeOK, NEW p \in Processes, NEW d \in Document, NEW v \in Nat, Reached(p, d, v)
    PROVE  /\ Moves(p)
           /\ phase'[p] = "ready" /\ copy'[p] = [doc |-> d, version |-> v]
    BY DEF Moves, Reached, Set, TypeOK, Phase

(* The log stays, or r is its new end. *)
Grows(r) ==
    /\ log' \in [{TheTask} -> Seq(Write)]
    /\ Len(Written) \in Nat /\ Len(Written') \in Nat /\ Len(Written') >= Len(Written)
    /\ \A i \in 1..Len(Written) : Written'[i] = Written[i]
    /\ \A i \in 1..Len(Written') : i \notin 1..Len(Written) => Written'[i] = r

LEMMA Growing ==
    ASSUME StoreTypes, NEW r \in Write, log' = Store!Effect(r)
    PROVE  Grows(r)
<1>1. Written \in Seq(Write) /\ log' \in [{TheTask} -> Seq(Write)]
    BY Effects DEF StoreTypes, Written
<1>2. Written' = Written \/ Written' = Append(Written, r)
    BY Effects DEF Written
<1> QED
    BY <1>1, <1>2 DEF Grows

LEMMA Staying ==
    ASSUME StoreTypes, log' = log, NEW r
    PROVE  Grows(r)
<1>1. Written \in Seq(Write) /\ Written' = Written
    BY DEF StoreTypes, Written
<1> QED
    BY <1>1 DEF Grows, StoreTypes

(* What a step leaves alone stays true. *)
LEMMA CopyUntouched ==
    ASSUME StoreTypes, NEW p \in Processes, CopyOf(p), NEW r, Grows(r),
           phase'[p] = phase[p], copy'[p] = copy[p],
           p \in Executions /\ taken[p] = Len(events[p]) /\ pc[p] = "out" =>
              taken'[p] = taken[p] /\ events'[p] = events[p] /\ pc'[p] = pc[p]
    PROVE  CopyOf(p)'
    BY DEF CopyOf, Grows

LEMMA StillContinues ==
    ASSUME NEW x, Continues(x), NEW r, Grows(r)
    PROVE  Continues(x)'
    BY DEF Continues, Grows

LEMMA StillCompleted ==
    ASSUME NEW x, CompletedBy(x),
           \A w \in Executions : phase[w] # "idle" /\ pc[w] = "out" =>
              phase'[w] # "idle" /\ pc'[w] = "out" /\ sent'[w] = sent[w]
    PROVE  CompletedBy(x)'
    BY DEF CompletedBy, ShowsOutputOf, Mine

LEMMA StillCollects ==
    ASSUME TypeOK, NEW w \in Executions, CollectsOf(w), copy'[w] = copy[w], phase'[w] = phase[w],
           taken'[w] = taken[w], stored'[w] = stored[w],
           \/ sent'[w] = sent[w]
           \/ /\ Announced(w) + Len(sent[w]) >= taken[w]
              /\ \E n \in Names \cup {NoName} : sent'[w] = Append(sent[w], n)
    PROVE  CollectsOf(w)'
<1>1. Announced(w)' = Announced(w) /\ Announced(w) \in 1..2
    BY DEF Announced
<1>2. ASSUME NEW name PROVE TakenOf(w, name)' = TakenOf(w, name)
  <2>1. CASE sent'[w] = sent[w]
      BY <1>1, <2>1 DEF TakenOf, Mine
  <2>2. CASE /\ Announced(w) + Len(sent[w]) >= taken[w]
             /\ \E n \in Names \cup {NoName} : sent'[w] = Append(sent[w], n)
    <3>1. sent[w] \in Seq(Names \cup {NoName}) /\ Len(sent[w]) \in Nat /\ taken[w] \in Nat
        BY DEF TypeOK
    <3>2. Len(sent'[w]) = Len(sent[w]) + 1 /\ \A i \in 1..Len(sent[w]) : sent'[w][i] = sent[w][i]
        BY <2>2, <3>1
    <3>3. \A i \in 1..Len(sent'[w]) : Announced(w) + i <= taken[w] => i \in 1..Len(sent[w])
        BY <1>1, <2>2, <3>1, <3>2
    <3> QED
        BY <1>1, <3>1, <3>2, <3>3 DEF TakenOf, Mine
  <2> QED
      BY <2>1, <2>2
<1> QED
    BY <1>2 DEF CollectsOf, Lists

-----------------------------------------------------------------------------
(* Execute. *)

LEMMA YieldTypes ==
    ASSUME TypeOK, NEW w \in Executions, NEW e \in Event,
           NEW next \in {"out", "enter", "announce", "dispatch"}, Yield(w, e, next)
    PROVE  /\ pc' \in [Executions -> {"out", "enter", "announce", "dispatch"}]
           /\ events' \in [Executions -> Seq(Event)]
           /\ broken' \in [Executions -> Nat]
           /\ \A v \in Executions : Len(events'[v]) \in Nat /\ Len(events'[v]) >= Len(events[v])
<1>1. events[w] \in Seq(Event) /\ \A v \in Executions : Len(events[v]) \in Nat
    BY DEF TypeOK
<1>2. Append(events[w], e) \in Seq(Event) /\ Len(Append(events[w], e)) = Len(events[w]) + 1
    BY <1>1
<1>3. events' = [events EXCEPT ![w] = Append(events[w], e)]
    BY DEF Yield, Set
<1>4. /\ events' \in [Executions -> Seq(Event)]
      /\ \A v \in Executions : Len(events'[v]) \in Nat /\ Len(events'[v]) >= Len(events[v])
    BY <1>1, <1>2, <1>3 DEF TypeOK
<1>5. pc' \in [Executions -> {"out", "enter", "announce", "dispatch"}]
    BY DEF Yield, Set, TypeOK
<1>6. Len(events[w]) + 1 \in Nat
    BY <1>1
<1>7. broken' \in [Executions -> Nat]
    BY <1>6 DEF Yield, Set, TypeOK
<1> QED
    BY <1>4, <1>5, <1>7

LEMMA ExecutorTypes ==
    ASSUME TypeOK, StoreTypes, NEW w \in Executions, Executor(w)
    PROVE  TypeOK' /\ StoreTypes'
<1>0. \A v \in Executions : Len(events[v]) \in Nat
    BY DEF TypeOK
<1>1. UNCHANGED <<log, late, phase, copy, taken, stored>> /\ StoreTypes'
    BY DEF Executor, RefuseNoMessage, Submit, Work, Receive, DispatchFails, DispatchEnds,
           store, sdk, StoreTypes
<1>2. /\ pc' \in [Executions -> {"out", "enter", "announce", "dispatch"}]
      /\ events' \in [Executions -> Seq(Event)]
      /\ broken' \in [Executions -> Nat]
      /\ \A v \in Executions : Len(events'[v]) \in Nat /\ Len(events'[v]) >= Len(events[v])
  <2>1. CASE \E o \in Outputs : Receive(w, o) /\ o.parts
    <3>1. PICK o \in Outputs : Receive(w, o) /\ o.parts
        BY <2>1
    <3>2. IdOf(w, o) \in Ids /\ <<w, Len(sent[w]) + 1>> \in Chunk /\ Appends(w, o) \in BOOLEAN
      <4>1. o.name \in Names \cup {NoName}
          BY ExecutionAssumption DEF Output
      <4>2. Len(sent[w]) + 1 \in 1..MaxOutputs
          BY <3>1, ExecutionAssumption DEF Receive, TypeOK
      <4> QED
          BY <4>1, <4>2 DEF IdOf, Ids, Chunk, Appends
    <3>3. ArtifactEvent(IdOf(w, o), Appends(w, o), <<w, Len(sent[w]) + 1>>) \in Event
        BY <3>2 DEF ArtifactEvent, Event
    <3> QED
        BY <3>1, <3>3, YieldTypes DEF Receive
  <2>2. CASE \E o \in Outputs : Receive(w, o) /\ ~o.parts
      BY <1>0, <2>2 DEF Receive, TypeOK
  <2>3. CASE Submit(w) /\ stored[w]
    <3>1. UNCHANGED <<events, broken>> /\ pc' = [pc EXCEPT ![w] = "announce"]
        BY <2>3 DEF Submit, Set
    <3> QED
        BY <1>0, <3>1 DEF TypeOK
  <2>4. CASE RefuseNoMessage(w) \/ (Submit(w) /\ ~stored[w]) \/ Work(w) \/ DispatchFails(w) \/ DispatchEnds(w)
    <3>1. PICK k \in {"error", "submitted", "working", "failed", "completed"},
               next \in {"out", "announce", "dispatch"} : Yield(w, Status(k), next)
        BY <2>4 DEF RefuseNoMessage, Submit, Work, DispatchFails, DispatchEnds
    <3>2. Status(k) \in Event
        BY DEF Status, Event, States
    <3> QED
        BY <3>1, <3>2, YieldTypes
  <2> QED
      BY <2>1, <2>2, <2>3, <2>4 DEF Executor
<1>3. /\ artifacts' \in [Executions -> [Names \cup {NoName} -> Ids \cup {NoId}]]
      /\ sent' \in [Executions -> Seq(Names \cup {NoName})]
      /\ \A v \in Executions : Len(sent'[v]) <= MaxOutputs
  <2>1. CASE \E o \in Outputs : Receive(w, o) /\ o.parts
    <3>1. PICK o \in Outputs : Receive(w, o) /\ o.parts
        BY <2>1
    <3>2. o.name \in Names \cup {NoName} /\ IdOf(w, o) \in Ids
        BY ExecutionAssumption DEF Output, IdOf, Ids
    <3>3. sent[w] \in Seq(Names \cup {NoName}) /\ Len(sent[w]) < MaxOutputs
        BY <3>1 DEF Receive, TypeOK
    <3>4. Append(sent[w], o.name) \in Seq(Names \cup {NoName})
          /\ Len(Append(sent[w], o.name)) <= MaxOutputs
        BY <3>2, <3>3, ExecutionAssumption
    <3>5. sent' \in [Executions -> Seq(Names \cup {NoName})]
          /\ \A v \in Executions : Len(sent'[v]) <= MaxOutputs
        BY <3>1, <3>4 DEF Receive, Set, TypeOK
    <3>6. artifacts' \in [Executions -> [Names \cup {NoName} -> Ids \cup {NoId}]]
      <4>1. artifacts' = [artifacts EXCEPT ![w] = [artifacts[w] EXCEPT ![o.name] = IdOf(w, o)]]
          BY <3>1 DEF Receive
      <4>2. [artifacts[w] EXCEPT ![o.name] = IdOf(w, o)] \in [Names \cup {NoName} -> Ids \cup {NoId}]
          BY <3>2 DEF TypeOK
      <4> QED
          BY <4>1, <4>2 DEF TypeOK
    <3> QED
        BY <3>5, <3>6
  <2>2. CASE UNCHANGED <<artifacts, sent>>
      BY <2>2 DEF TypeOK
  <2> QED
      BY <2>1, <2>2 DEF Executor, RefuseNoMessage, Submit, Work, Receive, DispatchFails,
                        DispatchEnds
<1>4. \A v \in Executions : taken'[v] <= Len(events'[v])
    BY <1>1, <1>2 DEF TypeOK
<1> QED
    BY <1>1, <1>2, <1>3, <1>4 DEF TypeOK

LEMMA ExecutorKeeps ==
    ASSUME ExecutionInvariant, NEW w \in Executions, Executor(w)
    PROVE  ExecutionInvariant'
<1> USE DEF ExecutionInvariant
<1>1. /\ UNCHANGED <<log, late, phase, copy, taken, stored>>
      /\ pc[w] # "out" /\ phase[w] # "idle"
      /\ \A v \in Executions : v # w => pc'[v] = pc[v] /\ events'[v] = events[v] /\ sent'[v] = sent[v]
  <2>1. StreamOf(w)
      BY DEF Stream
  <2> QED
      BY <2>1 DEF Executor, RefuseNoMessage, Submit, Work, Receive, DispatchFails, DispatchEnds,
                  Yield, Set, store, sdk, TypeOK, StreamOf
<1>2. TypeOK' /\ StoreTypes' /\ Stream'
    BY ExecutorTypes, ExecutorStream
<1> PICK r : Grows(r)
    BY <1>1, Staying
<1>3. Copies'
    BY <1>1, CopyUntouched DEF Copies
<1>4. Saves'
    BY <1>1, StillContinues DEF Saves
<1>5. Collects'
  <2>1. ASSUME NEW v \in Executions, v # w PROVE CollectsOf(v)'
      BY <1>1, <2>1, StillCollects DEF Collects, Processes
  <2>2. CASE sent'[w] = sent[w]
      BY <1>1, <2>2, StillCollects DEF Collects
  <2>3. CASE \E o \in Outputs : Receive(w, o) /\ o.parts
    <3>1. PICK o \in Outputs : Receive(w, o) /\ o.parts
        BY <2>3
    <3>2. o.name \in Names \cup {NoName}
        BY ExecutionAssumption DEF Output
    <3>3. sent'[w] = Append(sent[w], o.name)
        BY <3>1 DEF Receive, Set, TypeOK
    <3>4. Announced(w) + Len(sent[w]) >= taken[w]
      <4>1. StreamOf(w) /\ pc[w] = "dispatch" /\ taken[w] <= Len(events[w])
          BY <3>1 DEF Stream, Receive, TypeOK
      <4> QED
          BY <4>1 DEF StreamOf
    <3>5. CollectsOf(w)'
        BY <1>1, <3>2, <3>3, <3>4, StillCollects DEF Collects
    <3> QED
        BY <2>1, <3>5 DEF Collects
  <2>4. sent'[w] = sent[w] \/ \E o \in Outputs : Receive(w, o) /\ o.parts
      BY DEF Executor, RefuseNoMessage, Submit, Work, Receive, DispatchFails, DispatchEnds
  <2> QED
      BY <2>1, <2>2, <2>3, <2>4 DEF Collects
<1>6. Fresh'
    BY <1>1 DEF Fresh, Written
<1>7. Completes'
  <2>1. \A v \in Executions : phase[v] # "idle" /\ pc[v] = "out" =>
           phase'[v] # "idle" /\ pc'[v] = "out" /\ sent'[v] = sent[v]
      BY <1>1
  <2> QED
      BY <1>1, <2>1, StillCompleted DEF Completes, Written
<1> QED
    BY <1>2, <1>3, <1>4, <1>5, <1>6, <1>7

-----------------------------------------------------------------------------
(* The saves. *)

(* No final event is saved before the last one, and then Execute is over.  *)
LEMMA NextEvent ==
    ASSUME ExecutionInvariant, NEW w \in Executions, phase[w] = "ready",
           taken[w] < Len(events[w]), NEW e, e = events[w][taken[w] + 1]
    PROVE  /\ taken[w] \in Nat /\ taken[w] + 1 \in 1..Len(events[w]) /\ Len(events[w]) \in Nat
           /\ EventInPlace(w, taken[w] + 1) /\ Kind(w, taken[w] + 1) = e.kind
           /\ copy[w].doc.state \notin Final /\ copy[w].doc \in Document
           /\ e.kind \in Final \cup {"error"} => taken[w] + 1 = Len(events[w]) /\ pc[w] = "out"
           /\ e \in Event
           /\ e.kind = "artifact" => e.id \in Names \cup {w}
<1> USE DEF ExecutionInvariant
<1>1. taken[w] \in Nat /\ Len(events[w]) \in Nat /\ taken[w] + 1 \in 1..Len(events[w])
    BY DEF TypeOK
<1>2. StreamOf(w) /\ EventInPlace(w, taken[w] + 1) /\ Kind(w, taken[w] + 1) = e.kind
    BY <1>1 DEF Stream, StreamOf, Kind
<1>3. copy[w].doc.state \notin Final /\ copy[w].doc \in Document
  <2>1. CopyOf(w) /\ w \in Processes
      BY DEF Copies, Processes
  <2> QED
      BY <1>1, <2>1 DEF CopyOf, TypeOK
<1>4. e.kind \in Final \cup {"error"} => taken[w] + 1 = Len(events[w]) /\ pc[w] = "out"
    BY <1>1, <1>2 DEF EventInPlace, StreamOf
<1>5. e \in Event
    BY NextSaveTypes
<1>6. e.kind = "artifact" => e.id \in Names \cup {w}
  <2> SUFFICES ASSUME e.kind = "artifact" PROVE e.id \in Names \cup {w}
      OBVIOUS
  <2>1. Announced(w) \in 1..2 /\ Len(sent[w]) \in Nat
      BY DEF Announced, TypeOK
  <2> DEFINE k == taken[w] + 1 - Announced(w)
  <2>2. k \in 1..Len(sent[w])
    <3>1. taken[w] + 1 > Announced(w) /\ taken[w] + 1 <= Announced(w) + Len(sent[w])
        BY <1>1, <1>2, <2>1 DEF EventInPlace
    <3> QED
        BY <1>1, <2>1, <3>1
  <2>3. OutputInPlace(w, k) /\ events[w][Announced(w) + k] = e
      BY <1>1, <1>2, <2>1, <2>2 DEF StreamOf
  <2>4. sent[w][k] \in Names \cup {NoName}
      BY <2>2 DEF TypeOK
  <2> HIDE DEF k
  <2> QED
      BY <2>3, <2>4 DEF OutputInPlace
<1> QED
    BY <1>1, <1>2, <1>3, <1>4, <1>5, <1>6

LEMMA AppliedIs ==
    ASSUME NEW doc \in Document, NEW e \in Event
    PROVE  /\ e.kind = "artifact" =>
                 /\ Applied(doc, e).state = doc.state
                 /\ e.id \in Ids /\ e.chunk \in Chunk
                 /\ \A i \in Ids : Applied(doc, e).pieces[i] =
                       IF i # e.id THEN doc.pieces[i]
                       ELSE IF e.append THEN Append(doc.pieces[i], e.chunk) ELSE <<e.chunk>>
           /\ e.kind # "artifact" =>
                 /\ Applied(doc, e).state = IF e.kind = "error" THEN "failed" ELSE e.kind
                 /\ Applied(doc, e).pieces = doc.pieces
    BY DEF Applied, Document, Event, States

LEMMA ListsOneMore ==
    ASSUME NEW pieces \in Seq(Chunk), NEW w, NEW k \in Nat, NEW I \in SUBSET Nat,
           \A i \in I : i < k, Lists(pieces, w, I)
    PROVE  Lists(Append(pieces, <<w, k>>), w, I \cup {k})
<1> DEFINE more == Append(pieces, <<w, k>>)
<1>1. Len(pieces) \in Nat
    OBVIOUS
<1>2. Len(more) = Len(pieces) + 1 /\ more[Len(pieces) + 1] = <<w, k>>
      /\ \A j \in 1..Len(pieces) : more[j] = pieces[j]
    BY <1>1
<1> HIDE DEF more
<1>3. {more[j] : j \in 1..Len(more)} = {pieces[j] : j \in 1..Len(pieces)} \cup {<<w, k>>}
  <2> DEFINE all == {pieces[j] : j \in 1..Len(pieces)} \cup {<<w, k>>}
  <2>1. \A j \in 1..Len(more) : more[j] \in all
    <3> SUFFICES ASSUME NEW j \in 1..Len(more) PROVE more[j] \in all
        OBVIOUS
    <3>1. j \in 1..Len(pieces) \/ j = Len(pieces) + 1
        BY <1>1, <1>2
    <3> QED
        BY <1>2, <3>1
  <2>2. \A j \in 1..Len(pieces) : j \in 1..Len(more) /\ pieces[j] = more[j]
      BY <1>1, <1>2
  <2>3. Len(pieces) + 1 \in 1..Len(more)
      BY <1>1, <1>2
  <2> QED
      BY <1>2, <2>1, <2>2, <2>3
<1>4. {more[j] : j \in 1..Len(more)} = {<<w, i>> : i \in I \cup {k}}
    BY <1>3 DEF Lists
<1>5. \A j \in 1..Len(pieces) : \E i \in I : pieces[j] = <<w, i>>
    BY DEF Lists
<1>6. \A i, j \in 1..Len(more) : i < j => more[i][2] < more[j][2]
  <2> SUFFICES ASSUME NEW i \in 1..Len(more), NEW j \in 1..Len(more), i < j
               PROVE  more[i][2] < more[j][2]
      OBVIOUS
  <2>1. CASE j \in 1..Len(pieces)
    <3>1. i \in 1..Len(pieces) /\ more[i] = pieces[i] /\ more[j] = pieces[j]
        BY <1>1, <1>2, <2>1
    <3>2. \A x, y \in 1..Len(pieces) : x < y => pieces[x][2] < pieces[y][2]
        BY DEF Lists
    <3>3. pieces[i][2] < pieces[j][2]
        BY <2>1, <3>1, <3>2
    <3> QED
        BY <3>1, <3>3
  <2>2. CASE j = Len(pieces) + 1
    <3>1. i \in 1..Len(pieces) /\ more[i] = pieces[i] /\ more[j] = <<w, k>>
        BY <1>1, <1>2, <2>2
    <3>2. PICK x \in I : pieces[i] = <<w, x>>
        BY <1>5, <3>1
    <3>3. more[i][2] = x /\ more[j][2] = k
        BY <3>1, <3>2
    <3> QED
        BY <3>3
  <2> QED
      BY <1>1, <1>2, <2>1, <2>2
<1> QED
    BY <1>4, <1>6 DEF Lists, more

LEMMA ListsFirst ==
    ASSUME NEW w, NEW k \in Nat
    PROVE  Lists(<<<<w, k>>>>, w, {k})
<1>1. {<<<<w, k>>>>[j] : j \in 1..Len(<<<<w, k>>>>)} = {<<w, k>>}
    OBVIOUS
<1> QED
    BY <1>1 DEF Lists

(* What was taken once the next event is. *)
SoonTaken(w, name) == {i \in Mine(w, name) : Announced(w) + i <= taken[w] + 1}

LEMMA CollectsTheNext ==
    ASSUME ExecutionInvariant, NEW w \in Executions, phase[w] = "ready",
           taken[w] < Len(events[w]), NEW e, e = events[w][taken[w] + 1],
           NEW d, d = Applied(copy[w].doc, e)
    PROVE  /\ \A n \in Names : SoonTaken(w, n) # {} => Lists(d.pieces[n], w, SoonTaken(w, n))
           /\ Lists(d.pieces[w], w, SoonTaken(w, NoName))
<1> DEFINE k == taken[w] + 1 - Announced(w)
           doc == copy[w].doc
<1>0. StreamOf(w) /\ CollectsOf(w) /\ doc \in Document /\ e \in Event
    BY NextEvent DEF ExecutionInvariant, Stream, Collects
<1>1. /\ Announced(w) \in 1..2 /\ taken[w] \in Nat /\ Len(sent[w]) \in Nat
      /\ taken[w] + 1 \in 1..Len(events[w])
    BY NextEvent DEF Announced, ExecutionInvariant, TypeOK
<1>2. CASE e.kind # "artifact"
  <2>1. ASSUME NEW name PROVE SoonTaken(w, name) = TakenOf(w, name)
    <3>1. ASSUME NEW i \in 1..Len(sent[w]) PROVE Announced(w) + i # taken[w] + 1
        BY <1>0, <1>2 DEF StreamOf, OutputInPlace
    <3> QED
        BY <1>1, <3>1 DEF SoonTaken, TakenOf, Mine
  <2>2. d.pieces = doc.pieces
      BY <1>0, <1>2, AppliedIs
  <2> QED
      BY <1>0, <2>1, <2>2 DEF CollectsOf
<1>3. CASE e.kind = "artifact"
  <2>1. k \in 1..Len(sent[w]) /\ k \in Nat
    <3>1. EventInPlace(w, taken[w] + 1) /\ Kind(w, taken[w] + 1) = "artifact"
        BY <1>3, NextEvent
    <3>2. taken[w] + 1 > Announced(w) /\ taken[w] + 1 <= Announced(w) + Len(sent[w])
        BY <1>1, <3>1 DEF EventInPlace
    <3> QED
        BY <1>1, <3>2
  <2> DEFINE name == sent[w][k]
  <2>2. /\ e.chunk = <<w, k>> /\ e.id = IF name = NoName THEN w ELSE name
        /\ e.append <=> \E j \in 1..(k - 1) : sent[w][j] = name
        /\ name \in Names \cup {NoName}
    <3>1. OutputInPlace(w, k) /\ events[w][Announced(w) + k] = e
        BY <1>0, <1>1, <2>1 DEF StreamOf
    <3>2. sent[w][k] \in Names \cup {NoName}
        BY <2>1 DEF ExecutionInvariant, TypeOK
    <3> HIDE DEF k
    <3> QED
        BY <3>1, <3>2 DEF OutputInPlace
  <2>3. ASSUME NEW m
        PROVE  SoonTaken(w, m) = IF m = name THEN TakenOf(w, m) \cup {k} ELSE TakenOf(w, m)
    <3>1. \A i \in 1..Len(sent[w]) :
             Announced(w) + i <= taken[w] + 1 <=> (Announced(w) + i <= taken[w] \/ i = k)
        BY <1>1
    <3>2. k \in Mine(w, m) <=> m = name
        BY <2>1 DEF Mine
    <3>3. Mine(w, m) \subseteq 1..Len(sent[w])
        BY DEF Mine
    <3> HIDE DEF k, name
    <3> QED
        BY <3>1, <3>2, <3>3 DEF SoonTaken, TakenOf
  <2>4. TakenOf(w, name) \in SUBSET Nat /\ \A i \in TakenOf(w, name) : i < k
      BY <1>1, <2>1 DEF TakenOf, Mine
  <2>5. e.append <=> TakenOf(w, name) # {}
    <3>1. \A j \in 1..Len(sent[w]) : Announced(w) + j <= taken[w] <=> j \in 1..(k - 1)
        BY <1>1, <2>1
    <3>2. \A j \in 1..(k - 1) : j \in 1..Len(sent[w])
        BY <2>1
    <3> HIDE DEF k, name
    <3> QED
        BY <2>2, <3>1, <3>2 DEF TakenOf, Mine
  <2>6. w \in Ids /\ w \notin Names /\ Names \subseteq Ids /\ NoName \notin Names
      BY ExecutionAssumption DEF Ids
  <2>7. \A i \in Ids : d.pieces[i] = IF i # e.id THEN doc.pieces[i]
                                     ELSE IF e.append THEN Append(doc.pieces[i], <<w, k>>)
                                     ELSE <<<<w, k>>>>
      BY <1>0, <1>3, <2>2, AppliedIs
  <2>8. e.id \in Ids /\ doc.pieces[e.id] \in Seq(Chunk)
      BY <1>0, <1>3, AppliedIs DEF Document
  <2> HIDE DEF k, name, doc
  <2>9. TakenOf(w, name) # {} => Lists(doc.pieces[e.id], w, TakenOf(w, name))
      BY <1>0, <2>2 DEF CollectsOf, doc
  <2>10. Lists(d.pieces[e.id], w, TakenOf(w, name) \cup {k})
    <3>1. CASE TakenOf(w, name) # {}
      <4>1. d.pieces[e.id] = Append(doc.pieces[e.id], <<w, k>>)
          BY <2>5, <2>7, <2>8, <3>1
      <4>2. Lists(Append(doc.pieces[e.id], <<w, k>>), w, TakenOf(w, name) \cup {k})
          BY <2>1, <2>4, <2>8, <2>9, <3>1, ListsOneMore
      <4> QED
          BY <4>1, <4>2
    <3>2. CASE TakenOf(w, name) = {}
      <4>1. d.pieces[e.id] = <<<<w, k>>>> /\ TakenOf(w, name) \cup {k} = {k}
          BY <2>5, <2>7, <2>8, <3>2
      <4> QED
          BY <2>1, <4>1, ListsFirst
    <3> QED
        BY <3>1, <3>2
  <2>11. ASSUME NEW n \in Names, SoonTaken(w, n) # {} PROVE Lists(d.pieces[n], w, SoonTaken(w, n))
    <3>1. CASE n = name
        BY <2>2, <2>3, <2>6, <2>10, <3>1
    <3>2. CASE n # name
      <4>1. d.pieces[n] = doc.pieces[n]
          BY <2>2, <2>6, <2>7, <3>2
      <4> QED
          BY <1>0, <2>3, <2>11, <3>2, <4>1 DEF CollectsOf, doc
    <3> QED
        BY <3>1, <3>2
  <2>12. Lists(d.pieces[w], w, SoonTaken(w, NoName))
    <3>1. CASE name = NoName
        BY <2>2, <2>3, <2>10, <3>1
    <3>2. CASE name # NoName
      <4>1. d.pieces[w] = doc.pieces[w]
          BY <2>2, <2>6, <2>7, <3>2
      <4> QED
          BY <1>0, <2>3, <3>2, <4>1 DEF CollectsOf, doc
    <3> QED
        BY <3>1, <3>2
  <2> QED
      BY <2>11, <2>12
<1> QED
    BY <1>2, <1>3

(* A save of an execution continues its last one; if it completes the      *)
(* task, it shows all of the output.                                       *)
LEMMA NextSaveIsSound ==
    ASSUME ExecutionInvariant, NEW w \in Executions, phase[w] = "ready",
           taken[w] < Len(events[w]), NEW r \in NextSave(w)
    PROVE  /\ r \in Write /\ r.client = w /\ r.content \in Document
           /\ r.content = Applied(copy[w].doc, events[w][taken[w] + 1])
           /\ Continues(r) /\ CompletedBy(r)
           /\ r.content.state \in Final => taken[w] + 1 = Len(events[w]) /\ pc[w] = "out"
           /\ \A v \in Executions : phase[v] = "idle" => r.content.pieces[v] = <<>>
<1> DEFINE e == events[w][taken[w] + 1]
           doc == copy[w].doc
<1>1. w \in Processes /\ CopyOf(w) /\ StreamOf(w)
    BY DEF Processes, ExecutionInvariant, Copies, Stream
<1>2. r = Saving(w, Applied(doc, e)) /\ r \in Write /\ Applied(doc, e) \in Document
    BY NextSaveTypes DEF NextSave, ExecutionInvariant
<1>3. /\ r.client = w /\ r.content = Applied(doc, e)
      /\ r.kind = "update" => r.prev = copy[w].version /\ copy[w].version # 0
    BY <1>2 DEF Saving, Request, Store!TaskVersionMissing
<1>4. doc.state \notin Final /\ doc \in Document /\ e \in Event
    BY NextEvent
<1>5. Continues(r)
    BY <1>1, <1>3, <1>4 DEF Continues, CopyOf
<1> HIDE DEF e, doc
<1>6. /\ e.kind = "artifact" => r.content.state = doc.state
      /\ e.kind # "artifact" => r.content.state = IF e.kind = "error" THEN "failed" ELSE e.kind
    BY <1>3, <1>4, AppliedIs
<1>7. /\ e.kind \in Final \cup {"error"} => taken[w] + 1 = Len(events[w]) /\ pc[w] = "out"
      /\ e.kind = "artifact" => e.id \in Names \cup {w}
      /\ EventInPlace(w, taken[w] + 1) /\ Kind(w, taken[w] + 1) = e.kind
    BY NextEvent DEF e
<1>8. r.content.state \in Final => taken[w] + 1 = Len(events[w]) /\ pc[w] = "out"
    BY <1>4, <1>6, <1>7
<1>9. ASSUME NEW v \in Executions, phase[v] = "idle" PROVE r.content.pieces[v] = <<>>
  <2>1. doc.pieces[v] = <<>>
      BY <1>1, <1>9 DEF ExecutionInvariant, Fresh, doc
  <2>2. v # w /\ v \in Ids /\ v \notin Names
      BY <1>9, ExecutionAssumption DEF Ids
  <2>3. e.kind = "artifact" => e.id # v
      BY <1>7, <2>2
  <2>4. Applied(doc, e).pieces[v] = doc.pieces[v]
      BY <1>4, <2>2, <2>3, AppliedIs
  <2> QED
      BY <1>3, <2>1, <2>4
<1>10. CompletedBy(r)
  <2> SUFFICES ASSUME r.content.state = "completed" PROVE CompletedBy(r)
      BY DEF CompletedBy
  <2>1. e.kind = "completed"
      BY <1>4, <1>6 DEF Final
  <2>2. /\ taken[w] + 1 = Announced(w) + Len(sent[w]) + 1
        /\ taken[w] \in Nat /\ Len(sent[w]) \in Nat /\ Announced(w) \in 1..2
    <3>1. taken[w] \in Nat /\ Len(sent[w]) \in Nat /\ Announced(w) \in 1..2
        BY DEF ExecutionInvariant, TypeOK, Announced
    <3> QED
        BY <1>7, <2>1, <3>1 DEF EventInPlace
  <2>3. ASSUME NEW name PROVE SoonTaken(w, name) = Mine(w, name)
      BY <2>2 DEF SoonTaken, Mine
  <2>4. ShowsOutputOf(w, r.content)
      BY <1>3, <2>3, CollectsTheNext DEF ShowsOutputOf, e, doc
  <2> QED
      BY <1>3, <1>8, <2>4 DEF CompletedBy, Final
<1> QED
    BY <1>2, <1>3, <1>5, <1>8, <1>9, <1>10 DEF e, doc

LEMMA CancelSaveIsSound ==
    ASSUME ExecutionInvariant, NEW c \in Cancels, phase[c] = "ready",
           NEW r, r = CancelSave(c)
    PROVE  /\ r \in Write /\ Continues(r) /\ CompletedBy(r)
           /\ \A v \in Executions : phase[v] = "idle" => r.content.pieces[v] = <<>>
<1> DEFINE e == Status("canceled")
           doc == copy[c].doc
<1>1. c \in Processes /\ c \notin Executions /\ CopyOf(c) /\ doc \in Document
    BY ExecutionAssumption DEF Processes, ExecutionInvariant, Copies, TypeOK
<1>2. e \in Event /\ e.kind = "canceled"
    BY DEF Status, Event, States
<1>3. Applied(doc, e).state = "canceled" /\ Applied(doc, e).pieces = doc.pieces
    BY <1>1, <1>2, AppliedIs
<1>4. /\ r \in Write /\ r.content = Applied(doc, e)
      /\ r.kind = "update" => r.prev = copy[c].version /\ copy[c].version # 0
    BY CancelSaveTypes DEF ExecutionInvariant, CancelSave, Saving, Request, Store!TaskVersionMissing
<1>5. Continues(r)
    BY <1>1, <1>4 DEF Continues, CopyOf
<1>6. CompletedBy(r)
    BY <1>3, <1>4 DEF CompletedBy
<1>7. \A v \in Executions : phase[v] = "idle" => r.content.pieces[v] = <<>>
    BY <1>1, <1>3, <1>4 DEF ExecutionInvariant, Fresh
<1> QED
    BY <1>4, <1>5, <1>6, <1>7

-----------------------------------------------------------------------------
(* The SDK. *)

FreshIn(doc) == \A v \in Executions : phase[v] = "idle" => doc.pieces[v] = <<>>

Sound(r) == Continues(r) /\ CompletedBy(r) /\ FreshIn(r.content)

(* A step of the SDK for P: at most one sound save is added, to the log or *)
(* to those that may still land.                                           *)
LEMMA SdkStep ==
    ASSUME ExecutionInvariant, TypeOK', StoreTypes', UNCHANGED stream,
           NEW P \in SUBSET Processes, NEW r, Grows(r), log' = log \/ Sound(r),
           \A s \in Slots : late'[s] \in {late[s], NoRequest} \/ (late'[s] = r /\ Sound(r)),
           \A q \in Processes \ P : phase'[q] = phase[q] /\ copy'[q] = copy[q],
           \A v \in Executions \ P : taken'[v] = taken[v],
           \A p \in P : CopyOf(p)' /\ FreshIn(copy'[p].doc),
           \A p \in P \cap Executions : phase'[p] # "idle" /\ CollectsOf(p)'
    PROVE  ExecutionInvariant'
<1> USE DEF ExecutionInvariant, stream
<1>1. \A v \in Executions : phase'[v] = "idle" => v \notin P /\ phase[v] = "idle" /\ taken'[v] = taken[v]
    BY DEF Processes
<1>2. Stream'
  <2> SUFFICES ASSUME NEW v \in Executions PROVE StreamOf(v)'
      BY DEF Stream
  <2>1. StreamOf(v)
      BY DEF Stream
  <2>2. phase'[v] = "idle" => phase[v] = "idle" /\ pc'[v] = "out" /\ taken'[v] = taken[v]
      BY <1>1, <2>1 DEF StreamOf
  <2> QED
      BY <2>1, <2>2, StreamUntouched
<1>3. Copies'
  <2> SUFFICES ASSUME NEW q \in Processes, q \notin P PROVE CopyOf(q)'
      BY DEF Copies
  <2>1. CopyOf(q) /\ (q \in Executions => taken'[q] = taken[q])
      BY DEF Copies
  <2> QED
      BY <2>1, CopyUntouched
<1>4. Saves'
  <2>1. \A x : Continues(x) => Continues(x)'
      BY StillContinues
  <2>2. \A s \in Slots : late'[s] # NoRequest => \E x : x = late'[s] /\ Continues(x)
      BY DEF Saves, Sound
  <2> QED
      BY <2>1, <2>2 DEF Saves, Continues
<1>5. Collects'
  <2> SUFFICES ASSUME NEW v \in Executions, v \notin P PROVE CollectsOf(v)'
      BY DEF Collects
  <2> QED
      BY StillCollects DEF Collects, Processes
<1>6. Fresh'
  <2> SUFFICES ASSUME NEW v \in Executions, phase'[v] = "idle"
               PROVE  /\ \A i \in 1..Len(Written') : Written'[i].content.pieces[v] = <<>>
                      /\ \A s \in Slots : late'[s] # NoRequest => late'[s].content.pieces[v] = <<>>
                      /\ \A p \in Processes : copy'[p].doc.pieces[v] = <<>>
      BY DEF Fresh
  <2>1. phase[v] = "idle"
      BY <1>1
  <2>2. \A i \in 1..Len(Written') : Written'[i].content.pieces[v] = <<>>
    <3>1. CASE log' = log
        BY <2>1, <3>1 DEF Fresh, Written
    <3>2. CASE Sound(r)
        BY <2>1, <3>2 DEF Fresh, Grows, Sound, FreshIn
    <3> QED
        BY <3>1, <3>2
  <2>3. \A s \in Slots : late'[s] # NoRequest => late'[s].content.pieces[v] = <<>>
      BY <2>1 DEF Fresh, Sound, FreshIn
  <2>4. \A p \in Processes : copy'[p].doc.pieces[v] = <<>>
      BY <2>1 DEF Fresh, FreshIn
  <2> QED
      BY <2>2, <2>3, <2>4
<1>7. Completes'
  <2>1. \A w \in Executions : phase[w] # "idle" /\ pc[w] = "out" =>
           phase'[w] # "idle" /\ pc'[w] = "out" /\ sent'[w] = sent[w]
      BY <1>1
  <2>2. \A x : CompletedBy(x) => CompletedBy(x)'
      BY <2>1, StillCompleted
  <2>3. \A i \in 1..Len(Written') : \E x : x = Written'[i] /\ CompletedBy(x)
    <3>1. CASE log' = log
        BY <3>1 DEF Completes, Written
    <3>2. CASE Sound(r)
        BY <3>2 DEF Completes, Grows, Sound
    <3> QED
        BY <3>1, <3>2
  <2>4. \A s \in Slots : late'[s] # NoRequest => \E x : x = late'[s] /\ CompletedBy(x)
      BY DEF Completes, Sound
  <2> QED
      BY <2>2, <2>3, <2>4 DEF Completes, CompletedBy
<1> QED
    BY <1>2, <1>3, <1>4, <1>5, <1>6, <1>7

LEMMA SdkStepOf ==
    ASSUME ExecutionInvariant, TypeOK', StoreTypes', UNCHANGED stream,
           NEW p \in Processes, NEW r, Grows(r), log' = log \/ Sound(r),
           \A s \in Slots : late'[s] \in {late[s], NoRequest} \/ (late'[s] = r /\ Sound(r)),
           \A q \in Processes \ {p} : phase'[q] = phase[q] /\ copy'[q] = copy[q],
           \A v \in Executions \ {p} : taken'[v] = taken[v],
           CopyOf(p)' /\ FreshIn(copy'[p].doc),
           p \in Executions => phase'[p] # "idle" /\ CollectsOf(p)'
    PROVE  ExecutionInvariant'
<1> PICK P \in SUBSET Processes : P = {p}
    OBVIOUS
<1>1. /\ \A q \in Processes \ P : phase'[q] = phase[q] /\ copy'[q] = copy[q]
      /\ \A v \in Executions \ P : taken'[v] = taken[v]
      /\ \A q \in P : CopyOf(q)' /\ FreshIn(copy'[q].doc)
      /\ \A q \in P \cap Executions : phase'[q] # "idle" /\ CollectsOf(q)'
    OBVIOUS
<1> QED
    BY <1>1, SdkStep

LEMMA SdkTypes ==
    ASSUME TypeOK, StoreTypes, UNCHANGED stream,
           phase' \in [Processes -> Phase],
           copy' \in [Processes -> [doc : Document, version : Nat]],
           NEW r, Grows(r), late' \in [Slots -> Write \cup {NoRequest}],
           taken' \in [Executions -> Nat], \A v \in Executions : taken'[v] <= Len(events[v])
    PROVE  TypeOK' /\ StoreTypes'
<1>1. StoreTypes'
    BY DEF Grows, StoreTypes
<1>2. Written' \in Seq(Write)
    BY <1>1 DEF StoreTypes, Written
<1>3. \A i \in 1..Len(Written') : Written'[i].content \in Document
  <2>1. \A x \in Write : x.content \in Document
      BY DEF Write
  <2> QED
      BY <1>2, <2>1
<1> QED
    BY <1>1, <1>3 DEF TypeOK, stream, Written

(* Who stops or starts over has no copy. *)
LEMMA StopIsSound ==
    ASSUME TypeOK, NEW p \in Processes, NEW ph \in {"idle", "stopped"},
           phase' = Set(phase, p, ph), copy' = Set(copy, p, NoCopy)
    PROVE  /\ phase' \in [Processes -> Phase]
           /\ copy' \in [Processes -> [doc : Document, version : Nat]]
           /\ phase'[p] = ph
           /\ \A q \in Processes \ {p} : phase'[q] = phase[q] /\ copy'[q] = copy[q]
           /\ CopyOf(p)' /\ FreshIn(copy'[p].doc)
           /\ p \in Executions => CollectsOf(p)'
<1>1. Moves(p) /\ phase'[p] = ph /\ copy'[p] = NoCopy
    BY Stopping DEF Phase
<1>2. FreshIn(copy'[p].doc)
    BY <1>1, Documents DEF FreshIn, NoCopy, Ids
<1>3. CopyOf(p)' /\ CollectsOf(p)'
    BY <1>1 DEF CopyOf, CollectsOf
<1> QED
    BY <1>1, <1>2, <1>3, Moving

LEMMA TakeKeeps ==
    ASSUME ExecutionInvariant, NEW w \in Executions, Take(w)
    PROVE  ExecutionInvariant'
<1> USE DEF ExecutionInvariant
<1> PICK r \in NextSave(w) :
       /\ log' = Store!Effect(r)
       /\ IF Store!Answer(r).status = "ok"
          THEN Reached(w, Store!Answer(r).content, Store!Answer(r).version)
               /\ taken' = Set(taken, w, taken[w] + 1)
          ELSE Stop(w) /\ UNCHANGED taken
    BY DEF Take
<1>1. phase[w] = "ready" /\ taken[w] < Len(events[w]) /\ late' = late /\ UNCHANGED stream
    BY DEF Take
<1>2. /\ r \in Write /\ r.content \in Document
      /\ r.content = Applied(copy[w].doc, events[w][taken[w] + 1])
      /\ r.content.state \in Final => taken[w] + 1 = Len(events[w]) /\ pc[w] = "out"
      /\ Sound(r)
    BY <1>1, NextSaveIsSound DEF Sound, FreshIn
<1>3. Grows(r)
    BY <1>2, Growing
<1>4. w \in Processes /\ taken[w] + 1 \in Nat /\ taken[w] + 1 <= Len(events[w]) /\ late \in [Slots -> Write \cup {NoRequest}]
    BY <1>1 DEF Processes, StoreTypes, TypeOK
<1>5. CASE Store!Answer(r).status = "ok"
  <2>1. /\ Store!Effect(r)[TheTask] = Append(Written, r) /\ Store!Answer(r).content = r.content
        /\ Store!Answer(r).version = Len(Written) + 1
      BY <1>2, <1>5, Answers DEF StoreTypes
  <2>2. Written' = Append(Written, r) /\ Written \in Seq(Write) /\ Len(Written) \in Nat
      BY <2>1 DEF Written, StoreTypes
  <2>3. Len(Written') = Len(Written) + 1 /\ Written'[Len(Written) + 1] = r
      BY <1>2, <2>2
  <2>4. /\ Moves(w) /\ phase'[w] = "ready"
        /\ copy'[w] = [doc |-> r.content, version |-> Len(Written) + 1]
      BY <1>2, <1>4, <1>5, <2>1, <2>2, Reaching
  <2>5. /\ taken' \in [Executions -> Nat] /\ taken'[w] = taken[w] + 1
        /\ \A v \in Executions \ {w} : taken'[v] = taken[v]
        /\ \A v \in Executions : taken'[v] <= Len(events[v])
      BY <1>4, <1>5 DEF Set, TypeOK
  <2>6. /\ phase' \in [Processes -> Phase]
        /\ copy' \in [Processes -> [doc : Document, version : Nat]]
        /\ \A q \in Processes \ {w} : phase'[q] = phase[q] /\ copy'[q] = copy[q]
      BY <1>4, <2>4, Moving
  <2>7. TypeOK' /\ StoreTypes'
      BY <1>1, <1>3, <1>4, <2>5, <2>6, SdkTypes
  <2>8. CopyOf(w)'
      BY <1>1, <1>2, <1>4, <2>2, <2>3, <2>4, <2>5 DEF CopyOf, stream
  <2>9. CollectsOf(w)'
    <3>1. \A name : TakenOf(w, name)' = SoonTaken(w, name)
        BY <1>1, <2>5 DEF TakenOf, SoonTaken, Mine, Announced, stream
    <3>2. /\ \A n \in Names : SoonTaken(w, n) # {} => Lists(r.content.pieces[n], w, SoonTaken(w, n))
          /\ Lists(r.content.pieces[w], w, SoonTaken(w, NoName))
        BY <1>1, <1>2, CollectsTheNext
    <3>3. copy'[w].doc = r.content
        BY <2>4
    <3> HIDE DEF ExecutionInvariant
    <3> QED
        BY <3>1, <3>2, <3>3 DEF CollectsOf, Lists
  <2>10. FreshIn(copy'[w].doc)
      BY <1>2, <2>4 DEF Sound
  <2> QED
      BY <1>1, <1>2, <1>3, <1>4, <2>4, <2>5, <2>6, <2>7, <2>8, <2>9, <2>10, SdkStepOf
<1>6. CASE Store!Answer(r).status # "ok"
  <2>1. /\ phase' = Set(phase, w, "stopped") /\ copy' = Set(copy, w, NoCopy)
        /\ taken' = taken /\ taken \in [Executions -> Nat]
        /\ \A v \in Executions : taken'[v] <= Len(events[v])
      BY <1>6 DEF Stop, TypeOK
  <2>2. TypeOK' /\ StoreTypes'
      BY <1>1, <1>3, <1>4, <2>1, StopIsSound, SdkTypes
  <2> QED
      BY <1>1, <1>2, <1>3, <1>4, <2>1, <2>2, StopIsSound, SdkStepOf
<1> QED
    BY <1>5, <1>6

(* Nothing is saved and p stops. *)
LEMMA StopKeeps ==
    ASSUME ExecutionInvariant, NEW p \in Processes, Stop(p),
           NEW r, Grows(r), log' = log \/ Sound(r),
           late' \in [Slots -> Write \cup {NoRequest}],
           \A s \in Slots : late'[s] \in {late[s], NoRequest} \/ (late'[s] = r /\ Sound(r)),
           UNCHANGED <<taken, stream>>
    PROVE  ExecutionInvariant'
<1> USE DEF ExecutionInvariant
<1>1. /\ phase' = Set(phase, p, "stopped") /\ copy' = Set(copy, p, NoCopy)
      /\ taken' = taken /\ taken \in [Executions -> Nat]
      /\ \A v \in Executions : taken'[v] <= Len(events[v])
    BY DEF Stop, TypeOK
<1>2. TypeOK' /\ StoreTypes'
    BY <1>1, StopIsSound, SdkTypes
<1> QED
    BY <1>1, <1>2, StopIsSound, SdkStepOf

LEMMA BreakOffKeeps ==
    ASSUME ExecutionInvariant, NEW p \in Processes, Stop(p), UNCHANGED <<store, taken, stream>>
    PROVE  ExecutionInvariant'
<1>1. /\ log' = log /\ late' = late /\ late \in [Slots -> Write \cup {NoRequest}]
      /\ UNCHANGED <<taken, stream>>
    BY DEF store, ExecutionInvariant, StoreTypes
<1>2. Grows(NoRequest)
    BY <1>1, Staying DEF ExecutionInvariant
<1> QED
    BY <1>1, <1>2, StopKeeps

LEMMA CancelKeeps ==
    ASSUME ExecutionInvariant, NEW c \in Cancels, Cancel(c)
    PROVE  ExecutionInvariant'
<1> PICK r : r = CancelSave(c)
    OBVIOUS
<1>1. /\ c \in Processes /\ c \notin Executions /\ phase[c] = "ready"
      /\ log' = Store!Effect(r) /\ UNCHANGED <<late, taken, stream>>
    BY ExecutionAssumption DEF Processes, Cancel
<1>2. r \in Write /\ Sound(r) /\ Grows(r)
    BY <1>1, CancelSaveIsSound, Growing DEF Sound, FreshIn, ExecutionInvariant
<1>3. late' = late /\ late \in [Slots -> Write \cup {NoRequest}]
    BY <1>1 DEF ExecutionInvariant, StoreTypes
<1>4. PICK ph \in {"idle", "stopped"} :
         phase' = Set(phase, c, ph) /\ copy' = Set(copy, c, NoCopy)
    BY DEF Cancel, Stop
<1>5. /\ taken' = taken /\ taken \in [Executions -> Nat]
      /\ \A v \in Executions : taken'[v] <= Len(events[v])
    BY <1>1 DEF ExecutionInvariant, TypeOK
<1>6. TypeOK' /\ StoreTypes'
    BY <1>1, <1>2, <1>3, <1>4, <1>5, StopIsSound, SdkTypes DEF ExecutionInvariant
<1> QED
    BY <1>1, <1>2, <1>3, <1>4, <1>5, <1>6, StopIsSound, SdkStepOf DEF ExecutionInvariant

LEMMA SaveFailsKeeps ==
    ASSUME ExecutionInvariant, NEW p \in Processes, SaveFails(p)
    PROVE  ExecutionInvariant'
<1>1. phase[p] = "ready" /\ Stop(p) /\ UNCHANGED <<log, taken, stream>>
    BY DEF SaveFails
<1>2. PICK r \in IF p \in Cancels THEN {CancelSave(p)}
                 ELSE IF taken[p] < Len(events[p]) THEN NextSave(p) ELSE {},
           s \in Slots : late' = Set(late, s, r)
    BY DEF SaveFails
<1>3. r \in Write /\ Sound(r)
    BY <1>1, <1>2, CancelSaveIsSound, NextSaveIsSound DEF Sound, FreshIn, Processes
<1>4. /\ late' \in [Slots -> Write \cup {NoRequest}]
      /\ \A t \in Slots : late'[t] \in {late[t], NoRequest} \/ (late'[t] = r /\ Sound(r))
    BY <1>2, <1>3 DEF Set, ExecutionInvariant, StoreTypes
<1>5. Grows(r)
    BY <1>1, Staying DEF ExecutionInvariant
<1> QED
    BY <1>1, <1>4, <1>5, StopKeeps

LEMMA LandKeeps ==
    ASSUME ExecutionInvariant, NEW s \in Slots, Land(s)
    PROVE  ExecutionInvariant'
<1> USE DEF ExecutionInvariant
<1> PICK r : r = late[s]
    OBVIOUS
<1>1. /\ r # NoRequest /\ r \in Write /\ UNCHANGED <<sdk, stream>>
      /\ log' \in {log, Store!Effect(r)} /\ late' = [late EXCEPT ![s] = NoRequest]
    BY DEF Land, Store!Settle, StoreTypes
<1>2. Sound(r)
    BY <1>1 DEF Sound, FreshIn, Saves, Completes, Fresh
<1>3. Grows(r)
    BY <1>1, Growing, Staying
<1>4. /\ late' \in [Slots -> Write \cup {NoRequest}]
      /\ \A t \in Slots : late'[t] \in {late[t], NoRequest} \/ (late'[t] = r /\ Sound(r))
    BY <1>1, <1>2 DEF StoreTypes
<1>5. /\ phase' = phase /\ copy' = copy /\ taken' = taken
    BY <1>1 DEF sdk
<1>6. /\ phase' \in [Processes -> Phase] /\ taken' \in [Executions -> Nat]
      /\ copy' \in [Processes -> [doc : Document, version : Nat]]
      /\ \A v \in Executions : taken'[v] <= Len(events[v])
    BY <1>5 DEF TypeOK
<1>7. TypeOK' /\ StoreTypes'
    BY <1>1, <1>3, <1>4, <1>6, SdkTypes
<1> PICK P \in SUBSET Processes : P = {}
    OBVIOUS
<1>8. /\ \A q \in Processes \ P : phase'[q] = phase[q] /\ copy'[q] = copy[q]
      /\ \A v \in Executions \ P : taken'[v] = taken[v]
      /\ \A p \in P : CopyOf(p)' /\ FreshIn(copy'[p].doc)
      /\ \A p \in P \cap Executions : phase'[p] # "idle" /\ CollectsOf(p)'
    BY <1>5
<1> QED
    BY <1>1, <1>2, <1>3, <1>4, <1>7, <1>8, SdkStep

(* A load starts a call with the last write, with nothing, or not at all.  *)
LEMMA LoadKeeps ==
    ASSUME ExecutionInvariant, NEW p \in Processes, Load(p)
    PROVE  ExecutionInvariant'
<1> USE DEF ExecutionInvariant
<1>1. phase[p] = "idle" /\ UNCHANGED <<log, late, taken, artifacts, sent, events, broken>>
    BY DEF Load, store
<1>2. PICK doc \in Document, version \in Nat, ph \in {"ready", "stopped"} :
         /\ phase' = [phase EXCEPT ![p] = ph]
         /\ copy' = [copy EXCEPT ![p] = [doc |-> doc, version |-> version]]
         /\ \/ version = 0 /\ doc = NoDocument
            \/ version \in 1..Len(Written) /\ doc = Written[version].content
         /\ ph = "ready" => doc.state \notin Final
  <2> PICK r : r = Store!Answer(Request(p, "get", 0, NoContent))
      OBVIOUS
  <2>1. CASE r.status = "ok" /\ r.content.state \notin Final
    <3>1. Reached(p, r.content, r.version)
        BY <2>1 DEF Load, Store!TaskVersionMissing
    <3>2. /\ r.version = Len(Written) /\ r.version \in 1..Len(Written)
          /\ r.content = Written[r.version].content
        BY <2>1, Loads
    <3>3. r.content \in Document /\ r.version \in Nat
        BY <3>2 DEF TypeOK, Written
    <3> QED
        BY <2>1, <3>1, <3>2, <3>3 DEF Reached, Set
  <2>2. CASE ~(r.status = "ok" /\ r.content.state \notin Final)
    <3>1. Reached(p, NoDocument, 0) \/ Stop(p)
        BY <2>2 DEF Load, Store!TaskVersionMissing
    <3> QED
        BY <3>1, Documents DEF Reached, Stop, Set, NoCopy, Final, Store!TaskVersionMissing
  <2> QED
      BY <2>1, <2>2
<1>3. /\ phase'[p] = ph /\ copy'[p] = [doc |-> doc, version |-> version]
      /\ phase' \in [Processes -> Phase]
      /\ copy' \in [Processes -> [doc : Document, version : Nat]]
      /\ \A q \in Processes : q # p => phase'[q] = phase[q] /\ copy'[q] = copy[q]
    BY <1>2 DEF TypeOK, Phase
<1>4. /\ pc' \in [Executions -> {"out", "enter", "announce", "dispatch"}]
      /\ stored' \in [Executions -> BOOLEAN]
      /\ \A v \in Executions : v # p => pc'[v] = pc[v] /\ stored'[v] = stored[v]
      /\ p \in Executions => pc'[p] \in {pc[p], "enter"}
    BY DEF Load, Set, TypeOK
<1>5. TypeOK' /\ StoreTypes'
  <2>1. StoreTypes'
      BY <1>1 DEF StoreTypes
  <2> QED
      BY <1>1, <1>3, <1>4, <2>1 DEF TypeOK
<1>6. p \in Executions =>
         pc[p] = "out" /\ events[p] = <<>> /\ sent[p] = <<>> /\ taken[p] = 0 /\ broken[p] = 0
  <2> SUFFICES ASSUME p \in Executions PROVE pc[p] = "out" /\ events[p] = <<>>
               /\ sent[p] = <<>> /\ taken[p] = 0 /\ broken[p] = 0
      OBVIOUS
  <2>1. StreamOf(p) /\ sent[p] \in Seq(Names \cup {NoName}) /\ Announced(p) \in 1..2
      BY DEF Stream, TypeOK, Announced
  <2>2. pc[p] = "out" /\ events[p] = <<>> /\ taken[p] = 0 /\ broken[p] = 0
      BY <1>1, <2>1 DEF StreamOf
  <2>3. Len(sent[p]) = 0
    <3>1. \A k \in 1..Len(sent[p]) : Announced(p) + k <= 0
        BY <2>1, <2>2 DEF StreamOf, OutputInPlace
    <3> QED
        BY <2>1, <3>1
  <2> QED
      BY <2>1, <2>2, <2>3
<1>7. Stream'
  <2>1. ASSUME NEW v \in Executions, v # p PROVE StreamOf(v)'
    <3>1. StreamOf(v) /\ v \in Processes
        BY DEF Stream, Processes
    <3>2. phase'[v] = phase[v] /\ pc'[v] = pc[v] /\ stored'[v] = stored[v]
        BY <1>3, <1>4, <2>1, <3>1
    <3>3. phase'[v] = "idle" => phase[v] = "idle" /\ pc'[v] = "out"
        BY <3>1, <3>2 DEF StreamOf
    <3> QED
        BY <1>1, <3>1, <3>2, <3>3, StreamUntouched
  <2>2. ASSUME p \in Executions PROVE StreamOf(p)'
    <3>1. /\ events'[p] = <<>> /\ sent'[p] = <<>> /\ taken'[p] = 0 /\ broken'[p] = 0
          /\ phase'[p] # "idle" /\ pc'[p] \in {"out", "enter"} /\ artifacts' = artifacts
        BY <1>1, <1>2, <1>3, <1>4, <1>6, <2>2
    <3>2. \A n \in Names \cup {NoName} :
             artifacts[p][n] # NoId <=> \E k \in 1..Len(sent'[p]) : sent'[p][k] = n
        BY <1>1, <2>2 DEF Stream, StreamOf
    <3> QED
        BY <3>1, <3>2 DEF StreamOf
  <2> QED
      BY <2>1, <2>2 DEF Stream
<1>8. Copies'
  <2> PICK r : Grows(r)
      BY <1>1, Staying
  <2>1. ASSUME NEW q \in Processes, q # p PROVE CopyOf(q)'
    <3>1. CopyOf(q) /\ (q \in Executions => pc'[q] = pc[q] /\ taken'[q] = taken[q] /\ events'[q] = events[q])
        BY <1>1, <1>4, <2>1 DEF Copies
    <3> QED
        BY <1>3, <2>1, <3>1, CopyUntouched
  <2>2. CopyOf(p)'
    <3>1. Written' = Written /\ Len(Written) \in Nat
        BY <1>1 DEF Written, StoreTypes
    <3> QED
        BY <1>2, <1>3, <3>1, Documents DEF CopyOf, Final
  <2> QED
      BY <2>1, <2>2 DEF Copies
<1>9. Saves'
    BY <1>1 DEF Saves, Continues, Written
<1>10. ASSUME NEW v \in Executions, phase[v] = "idle" PROVE doc.pieces[v] = <<>>
  <2>1. v \in Ids
      BY DEF Ids
  <2> QED
      BY <1>2, <1>10, <2>1, Documents DEF Fresh
<1>11. Collects'
  <2>1. ASSUME NEW v \in Executions, v # p PROVE CollectsOf(v)'
    <3>1. CollectsOf(v) /\ phase'[v] = phase[v] /\ copy'[v] = copy[v]
        BY <1>3, <2>1 DEF Collects, Processes
    <3> QED
        BY <1>1, <1>4, <2>1, <3>1, StillCollects
  <2>2. ASSUME p \in Executions PROVE CollectsOf(p)'
    <3>1. \A name : TakenOf(p, name)' = {}
        BY <1>1, <1>6, <2>2 DEF TakenOf, Mine
    <3>2. copy'[p].doc.pieces[p] = <<>>
        BY <1>1, <1>3, <1>10, <2>2
    <3>3. Lists(<<>>, p, {})
        BY DEF Lists
    <3> QED
        BY <3>1, <3>2, <3>3 DEF CollectsOf, Lists
  <2> QED
      BY <2>1, <2>2 DEF Collects
<1>12. Fresh'
  <2>1. \A v \in Executions : phase'[v] = "idle" => phase[v] = "idle" /\ doc.pieces[v] = <<>>
      BY <1>2, <1>3, <1>10 DEF Processes
  <2>2. \A v \in Executions : phase'[v] = "idle" => \A q \in Processes : copy'[q].doc.pieces[v] = <<>>
      BY <1>3, <2>1 DEF Fresh
  <2> QED
      BY <1>1, <2>1, <2>2 DEF Fresh, Written
<1>13. Completes'
  <2>1. \A v \in Executions : phase[v] # "idle" /\ pc[v] = "out" =>
           phase'[v] # "idle" /\ pc'[v] = "out" /\ sent'[v] = sent[v]
      BY <1>1, <1>3, <1>4 DEF Processes
  <2> QED
      BY <1>1, <2>1, StillCompleted DEF Completes, Written
<1> QED
    BY <1>5, <1>7, <1>8, <1>9, <1>11, <1>12, <1>13

LEMMA InvariantAtStart == ASSUME Init PROVE ExecutionInvariant
<1>1. /\ Written = <<>> /\ \A s \in Slots : late[s] = NoRequest
      /\ StoreTypes
    BY DEF Init, Store!Init, StoreTypes, Written
<1>2. NoCopy \in [doc : Document, version : Nat] /\ NoCopy.doc = NoDocument
    BY Documents DEF NoCopy, Store!TaskVersionMissing
<1>3. TypeOK
    BY <1>1, <1>2, ExecutionAssumption DEF Init, TypeOK, Phase, Written
<1>4. Stream
  <2> SUFFICES ASSUME NEW w \in Executions PROVE StreamOf(w)
      BY DEF Stream
  <2>1. /\ pc[w] = "out" /\ events[w] = <<>> /\ taken[w] = 0 /\ broken[w] = 0 /\ sent[w] = <<>>
        /\ \A n \in Names \cup {NoName} : artifacts[w][n] = NoId
      BY DEF Init
  <2>2. Len(events[w]) = 0 /\ Len(sent[w]) = 0
      BY <2>1
  <2> QED
      BY <2>1, <2>2 DEF StreamOf
<1>5. Copies /\ Collects
    BY DEF Init, Copies, CopyOf, Collects, CollectsOf, Processes
<1>6. Saves /\ Completes
    BY <1>1 DEF Saves, Completes
<1>7. Fresh
    BY <1>1, <1>2, Documents DEF Init, Fresh, Ids, Processes
<1> QED
    BY <1>1, <1>3, <1>4, <1>5, <1>6, <1>7 DEF ExecutionInvariant

LEMMA InvariantKept ==
    ASSUME ExecutionInvariant, [Next]_vars
    PROVE  ExecutionInvariant'
<1>1. CASE UNCHANGED vars
  <2>1. TypeOK' /\ StoreTypes'
      BY <1>1 DEF ExecutionInvariant, TypeOK, StoreTypes, vars
  <2>2. UNCHANGED <<sdk, stream>> /\ log' = log /\ late' = late
      BY <1>1 DEF vars, sdk, stream
  <2> PICK r, P \in SUBSET Processes : Grows(r) /\ P = {}
      BY <2>2, Staying DEF ExecutionInvariant
  <2>3. /\ \A q \in Processes \ P : phase'[q] = phase[q] /\ copy'[q] = copy[q]
        /\ \A v \in Executions \ P : taken'[v] = taken[v]
        /\ \A p \in P : CopyOf(p)' /\ FreshIn(copy'[p].doc)
        /\ \A p \in P \cap Executions : phase'[p] # "idle" /\ CollectsOf(p)'
      BY <2>2 DEF sdk
  <2> QED
      BY <2>1, <2>2, <2>3, SdkStep
<1>2. ASSUME NEW w \in Executions, Executor(w) \/ Take(w) \/ BreakOff(w)
      PROVE  ExecutionInvariant'
    BY <1>2, ExecutorKeeps, TakeKeeps, BreakOffKeeps DEF BreakOff, Processes
<1>3. ASSUME NEW c \in Cancels, Cancel(c) \/ CancelFails(c)
      PROVE  ExecutionInvariant'
    BY <1>3, CancelKeeps, BreakOffKeeps DEF CancelFails, Processes
<1>4. ASSUME NEW p \in Processes, Load(p) \/ SaveFails(p)
      PROVE  ExecutionInvariant'
    BY <1>4, LoadKeeps, SaveFailsKeeps
<1>5. ASSUME NEW s \in Slots, Land(s)
      PROVE  ExecutionInvariant'
    BY <1>5, LandKeeps
<1> QED
    BY <1>1, <1>2, <1>3, <1>4, <1>5 DEF Next

-----------------------------------------------------------------------------
(* The invariant of executions holds, whatever the dispatchers put out and *)
(* whenever a consumer stops.                                              *)
THEOREM ExecutionInvariantHolds == Spec => []ExecutionInvariant
<1>1. Init => ExecutionInvariant
    BY InvariantAtStart
<1>2. ExecutionInvariant /\ [Next]_vars => ExecutionInvariant'
    BY InvariantKept
<1> QED
    BY <1>1, <1>2, PTL DEF Spec

(* The variables keep their types. *)
THEOREM ExecutionTypes == Spec => []TypeOK
<1>1. ExecutionInvariant => TypeOK
    BY DEF ExecutionInvariant
<1> QED
    BY <1>1, ExecutionInvariantHolds, PTL

(* What Execute yields is always a sentence (executor.go 61-110). *)
THEOREM ExecutionStreamWellFormed == Spec => []StreamWellFormed
<1>1. ExecutionInvariant => StreamWellFormed
  <2> SUFFICES ASSUME ExecutionInvariant, NEW w \in Executions, NEW i \in 1..Len(events[w])
               PROVE  /\ Kind(w, i) \in Final \cup {"error"} \/ i = broken[w] => i = Len(events[w])
                      /\ Kind(w, i) = "submitted" => i = 1 /\ ~stored[w]
                      /\ Kind(w, i) = "artifact" => \E j \in 1..(i - 1) : Kind(w, j) = "working"
                      /\ Kind(w, i) = "working" /\ ~stored[w] => Kind(w, 1) = "submitted"
      BY DEF StreamWellFormed, Kind
  <2>1. Len(events[w]) \in Nat /\ \A j \in 1..Len(events[w]) : EventInPlace(w, j)
      BY DEF ExecutionInvariant, Stream, StreamOf, TypeOK
  <2>2. Announced(w) \in 1..2 /\ (Announced(w) = 1 <=> stored[w])
      BY DEF Announced
  <2>3. Kind(w, i) = "submitted" => i = 1 /\ ~stored[w]
      BY <2>1, <2>2 DEF EventInPlace
  <2>4. Kind(w, i) = "artifact" => \E j \in 1..(i - 1) : Kind(w, j) = "working"
    <3> SUFFICES ASSUME Kind(w, i) = "artifact" PROVE \E j \in 1..(i - 1) : Kind(w, j) = "working"
        OBVIOUS
    <3>1. i > Announced(w)
        BY <2>1, <2>2 DEF EventInPlace
    <3>2. Announced(w) \in 1..(i - 1) /\ Announced(w) \in 1..Len(events[w]) /\ Announced(w) # Len(events[w])
        BY <2>1, <2>2, <3>1
    <3>3. EventInPlace(w, Announced(w))
        BY <2>1, <3>2
    <3>4. Kind(w, Announced(w)) = "working"
        BY <3>2, <3>3 DEF EventInPlace
    <3> QED
        BY <3>2, <3>4
  <2>5. Kind(w, i) = "working" /\ ~stored[w] => Kind(w, 1) = "submitted"
    <3> SUFFICES ASSUME Kind(w, i) = "working", ~stored[w] PROVE Kind(w, 1) = "submitted"
        OBVIOUS
    <3>1. i = 2 /\ Announced(w) = 2
        BY <2>1, <2>2 DEF EventInPlace
    <3>2. \A n \in Nat : 2 \in 1..n => 1 \in 1..n /\ 1 # n
        OBVIOUS
    <3>3. 1 \in 1..Len(events[w]) /\ 1 # Len(events[w])
        BY <2>1, <3>1, <3>2
    <3> QED
        BY <2>1, <3>1, <3>3 DEF EventInPlace
  <2>6. Kind(w, i) \in Final \cup {"error"} \/ i = broken[w] => i = Len(events[w])
      BY <2>1 DEF EventInPlace
  <2> QED
      BY <2>3, <2>4, <2>5, <2>6
<1> QED
    BY <1>1, ExecutionInvariantHolds, PTL

-----------------------------------------------------------------------------
(* No artifact mixes executions. *)

Unmixing ==
    /\ \A i \in 1..Len(Written) : Unmixed(Written[i].content)
    /\ \A s \in Slots : late[s] # NoRequest => Unmixed(late[s].content)
    /\ \A p \in Processes : Unmixed(copy[p].doc)

(* At most one more piece was put out. *)
PutsOut(w) == sent'[w] = sent[w] \/ \E n \in Names \cup {NoName} : sent'[w] = Append(sent[w], n)

LEMMA StillBegins ==
    ASSUME TypeOK, NEW w \in Executions, PutsOut(w), NEW name, NEW pieces, Begins(pieces, w, name)
    PROVE  Begins(pieces, w, name)'
<1>1. PICK m \in 0..Len(sent[w]) : Lists(pieces, w, {i \in Mine(w, name) : i <= m})
    BY DEF Begins
<1>2. sent[w] \in Seq(Names \cup {NoName}) /\ Len(sent[w]) \in Nat
    BY DEF TypeOK
<1>3. /\ Len(sent'[w]) \in {Len(sent[w]), Len(sent[w]) + 1}
      /\ \A i \in 1..Len(sent[w]) : sent'[w][i] = sent[w][i]
    BY <1>2 DEF PutsOut
<1>4. m \in 0..Len(sent'[w]) /\ \A i \in 1..Len(sent'[w]) : i <= m => i \in 1..Len(sent[w])
    BY <1>2, <1>3
<1>5. {i \in Mine(w, name) : i <= m} = {i \in Mine(w, name)' : i <= m}
  <2>1. 1..Len(sent[w]) \subseteq 1..Len(sent'[w])
      BY <1>2, <1>3
  <2> QED
      BY <1>3, <1>4, <2>1 DEF Mine
<1> QED
    BY <1>1, <1>4, <1>5 DEF Begins, Lists

LEMMA StillUnmixed ==
    ASSUME TypeOK, \A w \in Executions : PutsOut(w), NEW d, Unmixed(d)
    PROVE  Unmixed(d)'
<1>1. ASSUME NEW n \in Names, d.pieces[n] # <<>>
      PROVE  \E w \in Executions : Begins(d.pieces[n], w, n)'
    BY <1>1, StillBegins DEF Unmixed
<1>2. ASSUME NEW w \in Executions PROVE Begins(d.pieces[w], w, NoName)'
    BY StillBegins DEF Unmixed
<1> QED
    BY <1>1, <1>2 DEF Unmixed

LEMMA NothingIsUnmixed ==
    ASSUME TypeOK
    PROVE  Unmixed(NoDocument)
<1>1. ASSUME NEW w \in Executions PROVE Begins(<<>>, w, NoName)
  <2>1. 0 \in 0..Len(sent[w]) /\ {i \in Mine(w, NoName) : i <= 0} = {}
      BY DEF TypeOK, Mine
  <2>2. Lists(<<>>, w, {})
      BY DEF Lists
  <2> QED
      BY <2>1, <2>2 DEF Begins
<1> QED
    BY <1>1, Documents DEF Unmixed, Ids

(* What was taken is a beginning of what was put out. *)
LEMMA SoonTakenBegins ==
    ASSUME ExecutionInvariant, NEW w \in Executions, NEW name, NEW pieces,
           Lists(pieces, w, SoonTaken(w, name))
    PROVE  Begins(pieces, w, name)
<1>1. Announced(w) \in 1..2 /\ taken[w] \in Nat /\ Len(sent[w]) \in Nat
    BY DEF Announced, ExecutionInvariant, TypeOK
<1>2. \E m \in 0..Len(sent[w]) :
         \A i \in 1..Len(sent[w]) : i <= m <=> Announced(w) + i <= taken[w] + 1
  <2> DEFINE k == taken[w] + 1 - Announced(w)
  <2>1. k \in Int /\ \A i \in 1..Len(sent[w]) : i <= k <=> Announced(w) + i <= taken[w] + 1
      BY <1>1
  <2> HIDE DEF k
  <2>2. CASE k <= 0
    <3>1. 0 \in 0..Len(sent[w]) /\ \A i \in 1..Len(sent[w]) : i <= 0 <=> i <= k
        BY <1>1, <2>1, <2>2
    <3> QED
        BY <2>1, <3>1
  <2>3. CASE k \in 1..Len(sent[w])
    <3>1. k \in 0..Len(sent[w])
        BY <1>1, <2>3
    <3> QED
        BY <2>1, <3>1
  <2>4. CASE k > Len(sent[w])
    <3>1. Len(sent[w]) \in 0..Len(sent[w])
          /\ \A i \in 1..Len(sent[w]) : i <= Len(sent[w]) <=> i <= k
        BY <1>1, <2>1, <2>4
    <3> QED
        BY <2>1, <3>1
  <2> QED
      BY <1>1, <2>1, <2>2, <2>3, <2>4
<1>3. PICK m \in 0..Len(sent[w]) :
         \A i \in 1..Len(sent[w]) : i <= m <=> Announced(w) + i <= taken[w] + 1
    BY <1>2
<1>4. SoonTaken(w, name) = {i \in Mine(w, name) : i <= m}
    BY <1>3 DEF SoonTaken, Mine
<1> QED
    BY <1>4 DEF Begins

(* The next save adds to what the execution itself began, or begins it.    *)
LEMMA NextSaveIsUnmixed ==
    ASSUME ExecutionInvariant, NEW w \in Executions, phase[w] = "ready",
           taken[w] < Len(events[w]), NEW r \in NextSave(w), Unmixed(copy[w].doc)
    PROVE  Unmixed(r.content)
<1> DEFINE e == events[w][taken[w] + 1]
           doc == copy[w].doc
           d == r.content
<1>1. d = Applied(doc, e) /\ doc \in Document /\ e \in Event
    BY NextSaveIsSound, NextEvent
<1>2. /\ e.kind = "artifact" => e.id \in Names \cup {w}
      /\ EventInPlace(w, taken[w] + 1) /\ Kind(w, taken[w] + 1) = e.kind
      /\ taken[w] + 1 \in 1..Len(events[w]) /\ taken[w] \in Nat
    BY NextEvent
<1>3. /\ \A n \in Names : SoonTaken(w, n) # {} => Lists(d.pieces[n], w, SoonTaken(w, n))
      /\ Lists(d.pieces[w], w, SoonTaken(w, NoName))
    BY <1>1, CollectsTheNext
<1>4. ASSUME NEW n \in Names, e.kind = "artifact", e.id = n PROVE SoonTaken(w, n) # {}
  <2> DEFINE k == taken[w] + 1 - Announced(w)
  <2>1. /\ Announced(w) \in 1..2 /\ taken[w] \in Nat /\ Len(sent[w]) \in Nat
        /\ EventInPlace(w, taken[w] + 1) /\ Kind(w, taken[w] + 1) = "artifact"
        /\ taken[w] + 1 \in 1..Len(events[w])
    <3>1. Announced(w) \in 1..2 /\ Len(sent[w]) \in Nat
        BY DEF Announced, ExecutionInvariant, TypeOK
    <3> HIDE DEF e
    <3> QED
        BY <1>2, <1>4, <3>1
  <2>2. taken[w] + 1 > Announced(w) /\ taken[w] + 1 <= Announced(w) + Len(sent[w])
      BY <2>1 DEF EventInPlace
  <2>3. k \in 1..Len(sent[w]) /\ Announced(w) + k = taken[w] + 1
      BY <2>1, <2>2
  <2> HIDE DEF k
  <2>4. OutputInPlace(w, k)
      BY <2>3 DEF ExecutionInvariant, Stream, StreamOf
  <2>5. sent[w][k] = n
      BY <1>4, <2>3, <2>4, ExecutionAssumption DEF OutputInPlace
  <2>6. k \in SoonTaken(w, n)
    <3>1. k \in Mine(w, n)
        BY <2>3, <2>5 DEF Mine
    <3>2. Announced(w) + k <= taken[w] + 1
        BY <2>1, <2>3
    <3> QED
        BY <3>1, <3>2 DEF SoonTaken
  <2> QED
      BY <2>6
<1> HIDE DEF e, doc, d
<1>5. ASSUME NEW i \in Ids, e.kind = "artifact" => e.id # i PROVE d.pieces[i] = doc.pieces[i]
    BY <1>1, <1>5, AppliedIs
<1>6. ASSUME NEW n \in Names PROVE d.pieces[n] = <<>> \/ \E v \in Executions : Begins(d.pieces[n], v, n)
  <2>1. CASE SoonTaken(w, n) # {}
      BY <1>3, <2>1, SoonTakenBegins
  <2>2. CASE SoonTaken(w, n) = {}
    <3>1. d.pieces[n] = doc.pieces[n]
        BY <1>4, <1>5, <2>2 DEF Ids
    <3> QED
        BY <3>1 DEF Unmixed, doc
  <2> QED
      BY <2>1, <2>2
<1>7. ASSUME NEW v \in Executions PROVE Begins(d.pieces[v], v, NoName)
  <2>1. CASE v = w
      BY <1>3, <2>1, SoonTakenBegins
  <2>2. CASE v # w
    <3>1. v \in Ids /\ v \notin Names
        BY ExecutionAssumption DEF Ids
    <3>2. d.pieces[v] = doc.pieces[v]
        BY <1>2, <1>5, <2>2, <3>1
    <3> QED
        BY <3>2 DEF Unmixed, doc
  <2> QED
      BY <2>1, <2>2
<1> QED
    BY <1>6, <1>7 DEF Unmixed, d

LEMMA CancelSaveIsUnmixed ==
    ASSUME ExecutionInvariant, NEW c \in Cancels, NEW r, r = CancelSave(c), Unmixed(copy[c].doc)
    PROVE  Unmixed(r.content)
<1>1. copy[c].doc \in Document /\ Status("canceled") \in Event /\ Status("canceled").kind = "canceled"
    BY DEF ExecutionInvariant, TypeOK, Processes, Status, Event, States
<1>2. r.content.pieces = copy[c].doc.pieces
    BY <1>1, AppliedIs DEF CancelSave, Saving, Request
<1> QED
    BY <1>2 DEF Unmixed

(* A step writes and copies only what is unmixed. *)
LEMMA UnmixingKept ==
    ASSUME TypeOK, Unmixing, \A w \in Executions : PutsOut(w),
           NEW r, Grows(r), log' = log \/ Unmixed(r.content),
           \A s \in Slots : \/ late'[s] \in {late[s], NoRequest}
                            \/ late'[s] = r /\ Unmixed(r.content),
           \A p \in Processes : copy'[p] = copy[p] \/ Unmixed(copy'[p].doc)
    PROVE  Unmixing'
<1>1. \A x : Unmixed(x) => Unmixed(x)'
    BY StillUnmixed
<1>2. \A i \in 1..Len(Written') : \E x : x = Written'[i].content /\ Unmixed(x)
  <2>1. CASE log' = log
      BY <2>1 DEF Unmixing, Written
  <2>2. CASE Unmixed(r.content)
      BY <2>2 DEF Unmixing, Grows
  <2> QED
      BY <2>1, <2>2
<1>3. \A s \in Slots : late'[s] # NoRequest => \E x : x = late'[s].content /\ Unmixed(x)
    BY DEF Unmixing
<1>4. \A p \in Processes : \E x : x = copy'[p].doc /\ Unmixed(x)
    BY DEF Unmixing
<1>5. \A i \in 1..Len(Written') : Unmixed(Written[i].content)'
    BY <1>1, <1>2 DEF Unmixed
<1>6. \A s \in Slots : late'[s] # NoRequest => Unmixed(late[s].content)'
    BY <1>1, <1>3 DEF Unmixed
<1>7. \A p \in Processes : Unmixed(copy[p].doc)'
    BY <1>1, <1>4 DEF Unmixed
<1> QED
    BY <1>5, <1>6, <1>7 DEF Unmixing

LEMMA StepUnmixed ==
    ASSUME ExecutionInvariant, Unmixing, [Next]_vars
    PROVE  Unmixing'
<1> USE DEF ExecutionInvariant
<1>1. ASSUME NEW w \in Executions, Executor(w) PROVE Unmixing'
  <2>1. UNCHANGED <<log, late, copy>>
      BY <1>1 DEF Executor, RefuseNoMessage, Submit, Work, Receive, DispatchFails,
                  DispatchEnds, store, sdk
  <2>2. ASSUME NEW v \in Executions PROVE PutsOut(v)
    <3>1. CASE sent' = sent
        BY <3>1 DEF PutsOut
    <3>2. CASE sent' # sent
      <4>1. PICK o \in Outputs : sent' = Set(sent, w, Append(sent[w], o.name))
          BY <1>1, <3>2 DEF Executor, RefuseNoMessage, Submit, Work, Receive, DispatchFails,
                            DispatchEnds
      <4>2. o.name \in Names \cup {NoName}
          BY ExecutionAssumption DEF Output
      <4> QED
          BY <4>1, <4>2 DEF PutsOut, Set, TypeOK
    <3> QED
        BY <3>1, <3>2
  <2> QED
      BY <2>1, <2>2, Staying, UnmixingKept
<1> DEFINE Quiet == \A v \in Executions : PutsOut(v)
<1>2. sent' = sent => Quiet
    BY DEF PutsOut
<1>3. ASSUME NEW p \in Processes, copy' = Set(copy, p, NoCopy)
      PROVE  \A q \in Processes : copy'[q] = copy[q] \/ Unmixed(copy'[q].doc)
    BY <1>3, NothingIsUnmixed DEF Set, TypeOK, NoCopy
<1>4. ASSUME NEW p \in Processes, NEW doc, NEW version, Unmixed(doc), Reached(p, doc, version)
      PROVE  \A q \in Processes : copy'[q] = copy[q] \/ Unmixed(copy'[q].doc)
    BY <1>4 DEF Reached, Set, TypeOK
<1>5. ASSUME NEW p \in Processes, Stop(p), UNCHANGED <<store, taken, stream>> PROVE Unmixing'
  <2>1. UNCHANGED <<log, late, sent>> /\ copy' = Set(copy, p, NoCopy)
      BY <1>5 DEF Stop, store, stream
  <2> QED
      BY <1>2, <1>3, <2>1, Staying, UnmixingKept
<1>6. ASSUME NEW w \in Executions, Take(w) PROVE Unmixing'
  <2>1. PICK r \in NextSave(w) :
           /\ log' = Store!Effect(r)
           /\ IF Store!Answer(r).status = "ok"
              THEN Reached(w, Store!Answer(r).content, Store!Answer(r).version) ELSE Stop(w)
      BY <1>6 DEF Take
  <2>2. phase[w] = "ready" /\ taken[w] < Len(events[w]) /\ UNCHANGED <<late, sent>>
      BY <1>6 DEF Take, stream
  <2>3. r \in Write /\ Unmixed(r.content) /\ w \in Processes
      BY <2>2, NextSaveIsSound, NextSaveIsUnmixed DEF Unmixing, Processes
  <2>4. \A q \in Processes : copy'[q] = copy[q] \/ Unmixed(copy'[q].doc)
    <3>1. CASE Store!Answer(r).status = "ok"
      <4>1. Store!Answer(r).content = r.content
          BY <2>3, <3>1, Answers
      <4> QED
          BY <1>4, <2>1, <2>3, <3>1, <4>1
    <3>2. CASE Store!Answer(r).status # "ok"
        BY <1>3, <2>1, <2>3, <3>2 DEF Stop
    <3> QED
        BY <3>1, <3>2
  <2> QED
      BY <1>2, <2>1, <2>2, <2>3, <2>4, Growing, UnmixingKept
<1>7. ASSUME NEW c \in Cancels, Cancel(c) PROVE Unmixing'
  <2> PICK r : r = CancelSave(c)
      OBVIOUS
  <2>1. /\ c \in Processes /\ phase[c] = "ready" /\ log' = Store!Effect(r)
        /\ UNCHANGED <<late, sent>> /\ copy' = Set(copy, c, NoCopy)
      BY <1>7 DEF Processes, Cancel, Stop, stream
  <2>2. r \in Write /\ Unmixed(r.content)
      BY <2>1, CancelSaveIsSound, CancelSaveIsUnmixed DEF Unmixing
  <2> QED
      BY <1>2, <1>3, <2>1, <2>2, Growing, UnmixingKept
<1>8. ASSUME NEW p \in Processes, SaveFails(p) PROVE Unmixing'
  <2>1. phase[p] = "ready" /\ UNCHANGED <<log, sent>> /\ copy' = Set(copy, p, NoCopy)
      BY <1>8 DEF SaveFails, Stop, stream
  <2>2. PICK r \in IF p \in Cancels THEN {CancelSave(p)}
                   ELSE IF taken[p] < Len(events[p]) THEN NextSave(p) ELSE {},
             s \in Slots : late' = Set(late, s, r)
      BY <1>8 DEF SaveFails
  <2>3. Unmixed(r.content)
      BY <2>1, <2>2, NextSaveIsUnmixed, CancelSaveIsUnmixed DEF Unmixing, Processes
  <2>4. \A t \in Slots : late'[t] \in {late[t], NoRequest} \/ (late'[t] = r /\ Unmixed(r.content))
      BY <2>2, <2>3 DEF Set, StoreTypes
  <2> QED
      BY <1>2, <1>3, <2>1, <2>4, Staying, UnmixingKept
<1>9. ASSUME NEW p \in Processes, Load(p) PROVE Unmixing'
  <2> PICK r : r = Store!Answer(Request(p, "get", 0, NoContent))
      OBVIOUS
  <2>1. /\ UNCHANGED <<log, late, sent>>
        /\ \/ r.status = "ok" /\ Reached(p, r.content, r.version)
           \/ Reached(p, NoDocument, 0)
           \/ copy' = Set(copy, p, NoCopy)
      BY <1>9 DEF Load, Stop, store, Store!TaskVersionMissing
  <2>2. r.status = "ok" => Unmixed(r.content)
      BY Loads DEF Unmixing
  <2>3. \A q \in Processes : copy'[q] = copy[q] \/ Unmixed(copy'[q].doc)
      BY <1>3, <1>4, <2>1, <2>2, NothingIsUnmixed
  <2> QED
      BY <1>2, <2>1, <2>3, Staying, UnmixingKept
<1>10. ASSUME NEW s \in Slots, Land(s) PROVE Unmixing'
  <2> PICK r : r = late[s]
      OBVIOUS
  <2>1. /\ r # NoRequest /\ r \in Write /\ UNCHANGED <<copy, sent>>
        /\ log' \in {log, Store!Effect(r)} /\ late' = [late EXCEPT ![s] = NoRequest]
      BY <1>10 DEF Land, Store!Settle, StoreTypes, sdk, stream
  <2>2. Unmixed(r.content) /\ Grows(r)
      BY <2>1, Growing, Staying DEF Unmixing
  <2>3. \A t \in Slots : late'[t] \in {late[t], NoRequest}
      BY <2>1 DEF StoreTypes
  <2> QED
      BY <1>2, <2>1, <2>2, <2>3, UnmixingKept
<1>11. CASE UNCHANGED vars
    BY <1>2, <1>11, Staying, UnmixingKept DEF vars
<1> QED
    BY <1>1, <1>5, <1>6, <1>7, <1>8, <1>9, <1>10, <1>11
    DEF Next, BreakOff, CancelFails, Processes

(* No artifact of the stored task mixes two executions, and a completed    *)
(* task holds all pieces of every artifact of the execution that completed *)
(* it (executor.go 82-110, store.go 103-105).                              *)
THEOREM ExecutionShowsWholeOutput == Spec => []TaskShowsWholeOutput
<1>1. Init => Unmixing
  <2> SUFFICES ASSUME Init PROVE Unmixing
      OBVIOUS
  <2>1. Unmixed(NoDocument) /\ Written = <<>> /\ \A s \in Slots : late[s] = NoRequest
      BY InvariantAtStart, NothingIsUnmixed DEF ExecutionInvariant, Init, Store!Init, Written
  <2>2. \A p \in Processes : copy[p].doc = NoDocument
      BY DEF Init, NoCopy
  <2> QED
      BY <2>1, <2>2 DEF Unmixing
<1>2. ExecutionInvariant /\ Unmixing /\ [Next]_vars => Unmixing'
    BY StepUnmixed
<1>3. ExecutionInvariant /\ Unmixing => TaskShowsWholeOutput
  <2> SUFFICES ASSUME ExecutionInvariant, Unmixing PROVE TaskShowsWholeOutput
      OBVIOUS
  <2>1. CASE Written = <<>>
    <3>1. Latest = NoDocument
        BY <2>1 DEF Latest, Written
    <3> QED
        BY <3>1, NothingIsUnmixed, Documents DEF TaskShowsWholeOutput, ExecutionInvariant
  <2>2. CASE Written # <<>>
    <3>1. Len(Written) \in 1..Len(Written) /\ Latest = Written[Len(Written)].content
        BY <2>2 DEF Latest, Written, ExecutionInvariant, StoreTypes
    <3>2. Unmixed(Latest) /\ CompletedBy(Written[Len(Written)])
        BY <3>1 DEF Unmixing, ExecutionInvariant, Completes
    <3> QED
        BY <3>1, <3>2 DEF TaskShowsWholeOutput, CompletedBy, Written
  <2> QED
      BY <2>1, <2>2
<1> QED
    BY <1>1, <1>2, <1>3, ExecutionInvariantHolds, PTL DEF Spec

-----------------------------------------------------------------------------
(* The states of a task. *)

(* Where the copy of an execution is after n of its events. *)
StatesAt(w, n) ==
    IF n >= Announced(w) THEN {"working"} \cup Final
    ELSE IF n = 1 THEN {"submitted"}
    ELSE IF stored[w] THEN {"submitted", "working"} ELSE {"none"}

Abreast ==
    /\ \A w \in Executions : phase[w] = "ready" => copy[w].doc.state \in StatesAt(w, taken[w])
    /\ \A c \in Cancels : phase[c] = "ready" => copy[c].doc.state \in {"submitted", "working"}

(* A save creates a submitted task, or takes the write it continues on.    *)
Advances(r) ==
    \/ r.kind = "create" /\ r.content.state = "submitted"
    \/ /\ r.kind = "update" /\ r.prev \in 1..Len(Written)
       /\ <<Written[r.prev].content.state, r.content.state>> \in Protocol

Advancing ==
    /\ \A i \in 1..Len(Written) : Written[i].content.state # "none"
    /\ \A s \in Slots : late[s] # NoRequest => Advances(late[s])

ProtocolInvariant == Abreast /\ Advancing

LEMMA StillAdvances ==
    ASSUME NEW x, Advances(x), NEW r, Grows(r)
    PROVE  Advances(x)'
<1>1. CASE x.kind = "create" /\ x.content.state = "submitted"
    BY <1>1 DEF Advances
<1>2. CASE /\ x.kind = "update" /\ x.prev \in 1..Len(Written)
           /\ <<Written[x.prev].content.state, x.content.state>> \in Protocol
  <2>1. x.prev \in 1..Len(Written') /\ Written'[x.prev] = Written[x.prev]
      BY <1>2 DEF Grows
  <2>2. <<Written'[x.prev].content.state, x.content.state>> \in Protocol
      BY <1>2, <2>1
  <2> QED
      BY <1>2, <2>1, <2>2 DEF Advances, Protocol
<1> QED
    BY <1>1, <1>2 DEF Advances

LEMMA AdvancingKept ==
    ASSUME Advancing, NEW r, Grows(r), log' = log \/ Advances(r),
           \A s \in Slots : late'[s] \in {late[s], NoRequest} \/ (late'[s] = r /\ Advances(r))
    PROVE  Advancing'
<1>1. \A i \in 1..Len(Written') : Written'[i].content.state # "none"
  <2>1. CASE log' = log
      BY <2>1 DEF Advancing, Written
  <2>2. CASE Advances(r)
    <3>1. r.content.state # "none"
        BY <2>2 DEF Advances, Protocol
    <3> QED
        BY <3>1 DEF Advancing, Grows
  <2> QED
      BY <2>1, <2>2
<1>2. \A x : Advances(x) => Advances(x)'
    BY StillAdvances
<1>3. \A s \in Slots : late'[s] # NoRequest => \E x : x = late'[s] /\ Advances(x)
    BY DEF Advancing
<1> QED
    BY <1>1, <1>2, <1>3 DEF Advancing, Advances

(* A save of an execution takes the task one state on. *)
LEMMA NextSaveAdvances ==
    ASSUME ExecutionInvariant, ProtocolInvariant, NEW w \in Executions, phase[w] = "ready",
           taken[w] < Len(events[w]), NEW r \in NextSave(w)
    PROVE  Advances(r) /\ r.content.state \in StatesAt(w, taken[w] + 1)
<1> DEFINE e == events[w][taken[w] + 1]
           doc == copy[w].doc
           k == taken[w] + 1
<1>1. /\ taken[w] \in Nat /\ EventInPlace(w, k) /\ Kind(w, k) = e.kind
      /\ doc.state \notin Final /\ doc \in Document /\ e \in Event
    BY NextEvent
<1>2. doc.state \in StatesAt(w, taken[w]) /\ CopyOf(w)
    BY DEF ProtocolInvariant, Abreast, ExecutionInvariant, Copies, Processes
<1>3. /\ r = Saving(w, Applied(doc, e))
      /\ copy[w].version = 0 => e.kind # "error"
    BY DEF NextSave, Store!TaskVersionMissing
<1>4. /\ r.content = Applied(doc, e)
      /\ copy[w].version = 0 => r.kind = "create"
      /\ copy[w].version # 0 => r.kind = "update" /\ r.prev = copy[w].version
    BY <1>3 DEF Saving, Request, Store!TaskVersionMissing
<1>5. /\ copy[w].version = 0 => doc.state = "none"
      /\ copy[w].version # 0 => /\ copy[w].version \in 1..Len(Written)
                                /\ Written[copy[w].version].content.state = doc.state
                                /\ doc.state # "none"
    BY <1>2, Documents DEF CopyOf, ProtocolInvariant, Advancing
<1> HIDE DEF e, doc
<1>6. r.content.state = IF e.kind = "artifact" THEN doc.state
                        ELSE IF e.kind = "error" THEN "failed" ELSE e.kind
    BY <1>1, <1>4, AppliedIs
<1>7. Announced(w) \in 1..2 /\ (stored[w] <=> Announced(w) = 1)
    BY DEF Announced
<1>8. CASE copy[w].version = 0
  <2>1. taken[w] = 0 /\ Announced(w) = 2
      BY <1>1, <1>2, <1>5, <1>7, <1>8 DEF StatesAt, Final
  <2>2. e.kind = "submitted"
      BY <1>1, <1>3, <1>8, <2>1 DEF EventInPlace
  <2>3. r.content.state = "submitted"
      BY <1>6, <2>2
  <2> QED
      BY <1>4, <1>8, <2>1, <2>3 DEF Advances, StatesAt
<1>9. CASE copy[w].version # 0
  <2>1. k >= Announced(w)
      BY <1>1, <1>2, <1>5, <1>7, <1>9 DEF StatesAt
  <2>2. CASE k = Announced(w)
    <3>1. doc.state \in {"submitted", "working"}
        BY <1>1, <1>2, <1>5, <1>7, <1>9, <2>2 DEF StatesAt
    <3>2. r.content.state \in {"working", "failed"}
        BY <1>1, <1>6, <2>2 DEF EventInPlace
    <3>3. r.content.state \in StatesAt(w, k)
        BY <1>1, <1>7, <2>1, <3>2 DEF StatesAt, Final
    <3>4. <<doc.state, r.content.state>> \in Protocol
        BY <3>1, <3>2 DEF Protocol
    <3> QED
        BY <1>4, <1>5, <1>9, <3>3, <3>4 DEF Advances
  <2>3. CASE k > Announced(w)
    <3>1. doc.state = "working"
        BY <1>1, <1>2, <1>7, <2>3 DEF StatesAt
    <3>2. r.content.state \in {"working", "failed", "completed"}
        BY <1>1, <1>6, <1>7, <2>3, <3>1 DEF EventInPlace
    <3>3. r.content.state \in StatesAt(w, k)
        BY <1>1, <1>7, <2>1, <3>2 DEF StatesAt, Final
    <3>4. <<doc.state, r.content.state>> \in Protocol
        BY <3>1, <3>2 DEF Protocol
    <3> QED
        BY <1>4, <1>5, <1>9, <3>3, <3>4 DEF Advances
  <2> QED
      BY <1>1, <1>7, <2>1, <2>2, <2>3
<1> QED
    BY <1>8, <1>9

LEMMA CancelSaveAdvances ==
    ASSUME ExecutionInvariant, ProtocolInvariant, NEW c \in Cancels, phase[c] = "ready",
           NEW r, r = CancelSave(c)
    PROVE  Advances(r)
<1> DEFINE doc == copy[c].doc
<1>1. doc.state \in {"submitted", "working"} /\ CopyOf(c) /\ doc \in Document
    BY DEF ProtocolInvariant, Abreast, ExecutionInvariant, Copies, Processes, TypeOK
<1>2. /\ copy[c].version \in 1..Len(Written)
      /\ Written[copy[c].version].content.state = doc.state
    BY <1>1, Documents DEF CopyOf
<1>3. Applied(doc, Status("canceled")).state = "canceled"
  <2>1. Status("canceled") \in Event /\ Status("canceled").kind = "canceled"
      BY DEF Status, Event, States
  <2> QED
      BY <1>1, <2>1, AppliedIs
<1>4. r.kind = "update" /\ r.prev = copy[c].version /\ r.content = Applied(doc, Status("canceled"))
    BY <1>2 DEF CancelSave, Saving, Request, Store!TaskVersionMissing
<1> QED
    BY <1>1, <1>2, <1>3, <1>4 DEF Advances, Protocol

LEMMA TakeAdvances ==
    ASSUME ExecutionInvariant, ProtocolInvariant, NEW w \in Executions, Take(w)
    PROVE  ProtocolInvariant'
<1> PICK r \in NextSave(w) :
       /\ log' = Store!Effect(r)
       /\ IF Store!Answer(r).status = "ok"
          THEN Reached(w, Store!Answer(r).content, Store!Answer(r).version)
               /\ taken' = Set(taken, w, taken[w] + 1)
          ELSE Stop(w) /\ UNCHANGED taken
    BY DEF Take
<1>1. phase[w] = "ready" /\ taken[w] < Len(events[w]) /\ late' = late /\ UNCHANGED stream
    BY DEF Take
<1>2. Advances(r) /\ r.content.state \in StatesAt(w, taken[w] + 1) /\ r \in Write
    BY <1>1, NextSaveAdvances, NextSaveIsSound
<1>3. Advancing'
  <2>1. Grows(r)
      BY <1>2, Growing DEF ExecutionInvariant
  <2> QED
      BY <1>1, <1>2, <2>1, AdvancingKept DEF ProtocolInvariant
<1>4. ASSUME NEW v \in Executions, phase'[v] = "ready"
      PROVE  copy'[v].doc.state \in StatesAt(v, taken[v])'
  <2>1. CASE v # w
    <3>1. phase'[v] = phase[v] /\ copy'[v] = copy[v] /\ taken'[v] = taken[v]
        BY <2>1 DEF Reached, Stop, Set, ExecutionInvariant, TypeOK, Processes
    <3>2. StatesAt(v, taken[v])' = StatesAt(v, taken[v])
        BY <1>1, <3>1 DEF StatesAt, Announced, stream
    <3> QED
        BY <1>4, <3>1, <3>2 DEF ProtocolInvariant, Abreast
  <2>2. CASE v = w
    <3>1. Store!Answer(r).status = "ok"
        BY <1>4, <2>2 DEF Stop, Set, ExecutionInvariant, TypeOK, Processes
    <3>2. Store!Answer(r).content = r.content
        BY <1>2, <3>1, Answers DEF ExecutionInvariant
    <3>3. copy'[w].doc = r.content /\ taken'[w] = taken[w] + 1
        BY <3>1, <3>2 DEF Reached, Set, ExecutionInvariant, TypeOK, Processes
    <3>4. StatesAt(w, taken[w])' = StatesAt(w, taken[w] + 1)
        BY <1>1, <3>3 DEF StatesAt, Announced, stream
    <3> QED
        BY <1>2, <2>2, <3>3, <3>4
  <2> QED
      BY <2>1, <2>2
<1>5. ASSUME NEW c \in Cancels, phase'[c] = "ready"
      PROVE  copy'[c].doc.state \in {"submitted", "working"}
  <2>1. phase'[c] = phase[c] /\ copy'[c] = copy[c]
      BY ExecutionAssumption DEF Reached, Stop, Set, ExecutionInvariant, TypeOK, Processes
  <2> QED
      BY <1>5, <2>1 DEF ProtocolInvariant, Abreast
<1> QED
    BY <1>3, <1>4, <1>5 DEF ProtocolInvariant, Abreast

(* Who is not reading the task on stays abreast. *)
LEMMA AbreastKept ==
    ASSUME ExecutionInvariant, Abreast, UNCHANGED <<taken, stored>>,
           \A p \in Processes : phase'[p] = "ready" => phase[p] = "ready" /\ copy'[p] = copy[p]
    PROVE  Abreast'
<1>1. \A w \in Executions : StatesAt(w, taken[w])' = StatesAt(w, taken[w])
    BY DEF StatesAt, Announced
<1> QED
    BY <1>1 DEF Abreast, Processes

LEMMA LoadAdvances ==
    ASSUME ExecutionInvariant, ProtocolInvariant, NEW p \in Processes, Load(p)
    PROVE  ProtocolInvariant'
<1> DEFINE r == Store!Answer(Request(p, "get", 0, NoContent))
           found == r.status = "ok" /\ r.content.state \notin Final
<1>1. phase[p] = "idle" /\ UNCHANGED <<log, late, taken>>
    BY DEF Load, store
<1>2. Advancing'
    BY <1>1 DEF ProtocolInvariant, Advancing, Advances, Written
<1>3. \A q \in Processes : q # p => phase'[q] = phase[q] /\ copy'[q] = copy[q]
    BY DEF Load, Reached, Stop, Set, ExecutionInvariant, TypeOK
<1>4. \A v \in Executions : v # p => stored'[v] = stored[v]
    BY DEF Load, Set, ExecutionInvariant, TypeOK
<1>5. CASE found
  <2>1. Reached(p, r.content, r.version) /\ (p \in Executions => stored' = Set(stored, p, TRUE))
      BY <1>5 DEF Load, Store!TaskVersionMissing
  <2>2. r.version \in 1..Len(Written) /\ r.content = Written[r.version].content
      BY <1>5, Loads DEF ExecutionInvariant
  <2>3. r.content.state \in {"submitted", "working"}
    <3>1. r.content.state # "none" /\ r.content \in Document
        BY <2>2 DEF ProtocolInvariant, Advancing, ExecutionInvariant, TypeOK, Written
    <3> QED
        BY <1>5, <3>1 DEF Document, States, Final
  <2>4. copy'[p].doc = r.content
      BY <2>1 DEF Reached, Set, ExecutionInvariant, TypeOK
  <2>5. p \in Executions => stored'[p] /\ taken'[p] = 0
      BY <1>1, <2>1 DEF Set, ExecutionInvariant, TypeOK, Stream, StreamOf
  <2> HIDE DEF r
  <2>6. p \in Executions => copy'[p].doc.state \in StatesAt(p, taken[p])'
      BY <2>3, <2>4, <2>5 DEF StatesAt, Announced
  <2>7. ASSUME NEW v \in Executions, v # p PROVE StatesAt(v, taken[v])' = StatesAt(v, taken[v])
      BY <1>1, <1>4, <2>7 DEF StatesAt, Announced
  <2>8. Abreast'
      BY <1>3, <2>3, <2>4, <2>6, <2>7 DEF Abreast, ProtocolInvariant, Processes
  <2> QED
      BY <1>2, <2>8 DEF ProtocolInvariant
<1>6. CASE ~found
  <2>1. \/ p \in Executions /\ Reached(p, NoDocument, 0) /\ stored' = Set(stored, p, FALSE)
        \/ Stop(p)
      BY <1>6 DEF Load, Store!TaskVersionMissing
  <2>2. phase'[p] = "ready" =>
           /\ p \in Executions /\ ~stored'[p] /\ taken'[p] = 0
           /\ copy'[p].doc.state = "none"
      BY <1>1, <2>1, Documents
      DEF Reached, Stop, Set, ExecutionInvariant, TypeOK, Stream, StreamOf
  <2>3. phase'[p] = "ready" => copy'[p].doc.state \in StatesAt(p, taken[p])'
      BY <2>2 DEF StatesAt, Announced
  <2>4. ASSUME NEW v \in Executions, v # p PROVE StatesAt(v, taken[v])' = StatesAt(v, taken[v])
      BY <1>1, <1>4, <2>4 DEF StatesAt, Announced
  <2>5. p \in Cancels => phase'[p] # "ready"
      BY <2>2, ExecutionAssumption
  <2>6. Abreast'
      BY <1>3, <2>3, <2>4, <2>5 DEF Abreast, ProtocolInvariant, Processes
  <2> QED
      BY <1>2, <2>6 DEF ProtocolInvariant
<1> QED
    BY <1>5, <1>6

LEMMA ProtocolAtStart == ASSUME Init PROVE ProtocolInvariant
<1>1. Written = <<>> /\ \A s \in Slots : late[s] = NoRequest
    BY DEF Init, Store!Init, Written
<1>2. \A p \in Processes : phase[p] = "idle"
    BY DEF Init
<1> QED
    BY <1>1, <1>2 DEF ProtocolInvariant, Abreast, Advancing, Processes

(* Only a save that advances is added to the log. *)
LEMMA StepAdvances ==
    ASSUME ExecutionInvariant, ProtocolInvariant, [Next]_vars
    PROVE  /\ ProtocolInvariant'
           /\ log' = log \/ \E r \in Write : log' = Store!Effect(r) /\ Advances(r)
<1> DEFINE Goal == /\ ProtocolInvariant'
                   /\ log' = log \/ \E r \in Write : log' = Store!Effect(r) /\ Advances(r)
<1>1. CASE UNCHANGED <<log, late, taken, stored, phase, copy>>
  <2>1. Abreast'
      BY <1>1, AbreastKept DEF ProtocolInvariant
  <2>2. Advancing'
      BY <1>1 DEF ProtocolInvariant, Advancing, Advances, Written
  <2> QED
      BY <1>1, <2>1, <2>2 DEF ProtocolInvariant
<1>2. ASSUME NEW w \in Executions, Executor(w) PROVE Goal
  <2>1. UNCHANGED <<log, late, taken, stored, phase, copy>>
      BY <1>2 DEF Executor, RefuseNoMessage, Submit, Work, Receive, DispatchFails,
                  DispatchEnds, store, sdk
  <2> QED
      BY <1>1, <2>1
<1>3. ASSUME NEW w \in Executions, Take(w) PROVE Goal
  <2>1. \E r \in NextSave(w) : log' = Store!Effect(r) /\ r \in Write /\ Advances(r)
      BY <1>3, NextSaveAdvances, NextSaveIsSound DEF Take
  <2> QED
      BY <1>3, <2>1, TakeAdvances
<1>4. ASSUME NEW p \in Processes, Stop(p), UNCHANGED <<store, taken, stream>> PROVE Goal
  <2>1. UNCHANGED <<log, late, taken, stored>>
      BY <1>4 DEF store, stream
  <2>2. \A q \in Processes : phase'[q] = "ready" => phase[q] = "ready" /\ copy'[q] = copy[q]
      BY <1>4 DEF Stop, Set, ExecutionInvariant, TypeOK
  <2>3. Abreast'
      BY <2>1, <2>2, AbreastKept DEF ProtocolInvariant
  <2>4. Advancing'
      BY <2>1 DEF ProtocolInvariant, Advancing, Advances, Written
  <2> QED
      BY <2>1, <2>3, <2>4 DEF ProtocolInvariant
<1>5. ASSUME NEW c \in Cancels, Cancel(c) PROVE Goal
  <2> PICK r : r = CancelSave(c)
      OBVIOUS
  <2>1. phase[c] = "ready" /\ log' = Store!Effect(r) /\ UNCHANGED <<late, taken, stored>>
      BY <1>5 DEF Cancel, stream
  <2>2. r \in Write /\ Advances(r) /\ Grows(r)
      BY <2>1, CancelSaveIsSound, CancelSaveAdvances, Growing DEF ExecutionInvariant
  <2>3. \A q \in Processes : phase'[q] = "ready" => phase[q] = "ready" /\ copy'[q] = copy[q]
      BY <1>5 DEF Cancel, Stop, Set, ExecutionInvariant, TypeOK
  <2>4. Abreast'
      BY <2>1, <2>3, AbreastKept DEF ProtocolInvariant
  <2>5. Advancing'
      BY <2>1, <2>2, AdvancingKept DEF ProtocolInvariant
  <2> QED
      BY <2>1, <2>2, <2>4, <2>5 DEF ProtocolInvariant
<1>6. ASSUME NEW p \in Processes, SaveFails(p) PROVE Goal
  <2>1. phase[p] = "ready" /\ Stop(p) /\ UNCHANGED <<log, taken, stored>>
      BY <1>6 DEF SaveFails, stream
  <2>2. PICK r \in IF p \in Cancels THEN {CancelSave(p)}
                   ELSE IF taken[p] < Len(events[p]) THEN NextSave(p) ELSE {},
             s \in Slots : late' = Set(late, s, r)
      BY <1>6 DEF SaveFails
  <2>3. Advances(r)
      BY <2>1, <2>2, CancelSaveAdvances, NextSaveAdvances DEF Processes
  <2>4. \A t \in Slots : late'[t] \in {late[t], NoRequest} \/ (late'[t] = r /\ Advances(r))
      BY <2>2, <2>3 DEF Set, ExecutionInvariant, StoreTypes
  <2>5. Grows(r)
      BY <2>1, Staying DEF ExecutionInvariant
  <2>6. \A q \in Processes : phase'[q] = "ready" => phase[q] = "ready" /\ copy'[q] = copy[q]
      BY <2>1 DEF Stop, Set, ExecutionInvariant, TypeOK
  <2>7. Abreast'
      BY <2>1, <2>6, AbreastKept DEF ProtocolInvariant
  <2>8. Advancing'
      BY <2>1, <2>4, <2>5, AdvancingKept DEF ProtocolInvariant
  <2> QED
      BY <2>1, <2>7, <2>8 DEF ProtocolInvariant
<1>7. ASSUME NEW p \in Processes, Load(p) PROVE Goal
  <2>1. log' = log
      BY <1>7 DEF Load, store
  <2> QED
      BY <1>7, <2>1, LoadAdvances
<1>8. ASSUME NEW s \in Slots, Land(s) PROVE Goal
  <2> PICK r : r = late[s]
      OBVIOUS
  <2>1. /\ r # NoRequest /\ r \in Write /\ UNCHANGED <<phase, copy, taken, stored>>
        /\ log' \in {log, Store!Effect(r)} /\ late' = [late EXCEPT ![s] = NoRequest]
      BY <1>8 DEF Land, Store!Settle, ExecutionInvariant, StoreTypes, sdk, stream
  <2>2. Advances(r) /\ Grows(r)
      BY <2>1, Growing, Staying DEF ExecutionInvariant, ProtocolInvariant, Advancing
  <2>3. \A t \in Slots : late'[t] \in {late[t], NoRequest}
      BY <2>1 DEF ExecutionInvariant, StoreTypes
  <2>4. Abreast'
      BY <2>1, AbreastKept DEF ProtocolInvariant
  <2>5. Advancing'
      BY <2>2, <2>3, AdvancingKept DEF ProtocolInvariant
  <2> QED
      BY <2>1, <2>2, <2>4, <2>5 DEF ProtocolInvariant
<1>9. CASE UNCHANGED vars
    BY <1>1, <1>9 DEF vars
<1> QED
    BY <1>2, <1>3, <1>4, <1>5, <1>6, <1>7, <1>8, <1>9
    DEF Next, BreakOff, CancelFails, Processes

(* A save that advances takes the stored task one state on. *)
LEMMA EffectFollowsProtocol ==
    ASSUME StoreTypes, NEW r \in Write, Advances(r), log' = Store!Effect(r)
    PROVE  log' = log \/ <<Latest.state, Latest'.state>> \in Protocol
<1>1. Written \in Seq(Write)
    BY DEF StoreTypes, Written
<1>2. CASE log' # log
  <2>1. /\ Written' = Append(Written, r)
        /\ r.kind = "create" => Written = <<>>
        /\ r.kind = "update" => r.prev \in {0, Len(Written)}
      BY <1>2, Effects DEF Written
  <2>2. Latest' = r.content
      BY <1>1, <2>1 DEF Latest, Written
  <2>3. CASE r.kind = "create"
    <3>1. Latest.state = "none" /\ r.content.state = "submitted"
        BY <2>1, <2>3, Documents DEF Latest, Written, Advances
    <3> QED
        BY <2>2, <3>1 DEF Protocol
  <2>4. CASE r.kind = "update"
    <3>1. r.prev = Len(Written) /\ Written # <<>>
          /\ <<Written[r.prev].content.state, r.content.state>> \in Protocol
        BY <1>1, <2>1, <2>4 DEF Advances
    <3>2. Latest = Written[r.prev].content
        BY <3>1 DEF Latest, Written
    <3> QED
        BY <2>2, <3>1, <3>2
  <2> QED
      BY <2>3, <2>4 DEF Write
<1> QED
    BY <1>2

(* Whoever writes it, the stored task goes through its states in their     *)
(* order and stays where it ended (executor.go 65-70, 84-88, 110, 127,     *)
(* store.go 103-105).                                                      *)
THEOREM ExecutionFollowsProtocol == Spec => TaskFollowsProtocol
<1>1. Init => ProtocolInvariant
    BY ProtocolAtStart
<1>2. ExecutionInvariant /\ ProtocolInvariant /\ [Next]_vars => ProtocolInvariant'
    BY StepAdvances
<1>3. ExecutionInvariant /\ ProtocolInvariant /\ [Next]_vars
         => [UNCHANGED log \/ <<Latest.state, Latest'.state>> \in Protocol]_vars
    BY StepAdvances, EffectFollowsProtocol DEF ExecutionInvariant
<1> QED
    BY <1>1, <1>2, <1>3, ExecutionInvariantHolds, PTL DEF Spec, TaskFollowsProtocol

FinalStays == [][Latest.state \in Final => UNCHANGED log]_vars

(* A final state has no successor in the protocol, so nothing is written   *)
(* after it (executor.go 110, 127, store.go 103-105).                      *)
THEOREM ExecutionFinalStays == Spec => FinalStays
<1>1. [UNCHANGED log \/ <<Latest.state, Latest'.state>> \in Protocol]_vars
         => [Latest.state \in Final => UNCHANGED log]_vars
    BY DEF Protocol, Final
<1> QED
    BY <1>1, ExecutionFollowsProtocol, PTL DEF TaskFollowsProtocol, FinalStays

=============================================================================
