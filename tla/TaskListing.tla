---------------------------- MODULE TaskListing ----------------------------
(***************************************************************************)
(* internal/storage/postgres/store.go List and cursor.go: a client pages   *)
(* through one owner's tasks, newest update first, while other goroutines  *)
(* create and update tasks.                                                *)
(*                                                                         *)
(* Every page is one List call: a REPEATABLE READ transaction that counts  *)
(* the matching rows and then reads those below the cursor of the last     *)
(* page.  Nothing holds the pages of a session together but that cursor,   *)
(* (updated_at, task_id), so the rows may change between two pages, and a  *)
(* write may carry a timestamp that is older than rows already listed.     *)
(*                                                                         *)
(* What is assumed of PostgreSQL: a REPEATABLE READ transaction sees the   *)
(* rows as committed when its first statement ran.  clock_timestamp() may  *)
(* run backwards where ClockMoves says so.                                 *)
(* Writes are TaskStore's Create and Update, reduced to what List can see  *)
(* of them: that a row has one writer and keeps its owner is proved there  *)
(* (StoreWritesInTurn).                                                    *)
(***************************************************************************)
EXTENDS Integers, FiniteSets, Sequences

CONSTANTS
    Tasks,            \* task identifiers, integers for their order as text
    Document,         \* records [owner, context, state, reported, history, artifacts]
    Filters,          \* what the sessions ask for: records of FilterFields
    RequestedSizes,   \* page sizes asked for, 0 for none
    DefaultPageSize, MaximumPageSize, DefaultHistory,
    AnyContext, AnyState, NoTime, NoLength,   \* model values: not asked for, no status time
    NoRow, NoCursor,  \* model values
    MaxWriters,       \* connections left to the writers
    ClockMoves,       \* how the clock may move: {1}, or {1, -1} if it may be set back
    MaxClock          \* bound: the clock stops there

FilterFields == {"owner", "context", "state", "after", "length", "artifacts"}

ASSUME ListingAssumption ==
    /\ Tasks \subseteq Int /\ IsFiniteSet(Tasks)
    /\ DefaultPageSize \in Nat /\ MaximumPageSize \in Nat
    /\ DefaultPageSize \in 1..MaximumPageSize
    /\ RequestedSizes \subseteq 0..MaximumPageSize
    /\ DefaultHistory \in Nat
    /\ \A d \in Document : d.history \in Seq(Nat) /\ d.artifacts \in BOOLEAN
    /\ \A f \in Filters : /\ DOMAIN f = FilterFields
                          /\ f.length \in Int \cup {NoLength} /\ f.artifacts \in BOOLEAN
    /\ ClockMoves \subseteq {1, -1} /\ MaxClock \in Nat /\ MaxWriters \in Nat

Row == [doc : Document, stamp : 0..MaxClock]

(* A row by its place in the order, which is what a page token encodes. *)
Entry == [task : Tasks, stamp : 0..MaxClock]

ASSUME AbsenceAssumption == NoRow \notin Row /\ NoCursor \notin Entry

Phase == {"idle", "ready", "counted", "done"}

(* What a task is listed with: its history and its artifacts. *)
Listed == [task : Tasks, history : Seq(Nat), artifacts : BOOLEAN]

Response == [tasks : SUBSET Entry, shown : SUBSET Listed, total : Nat, size : 1..MaximumPageSize, more : BOOLEAN]

VARIABLES
    rows,       \* [Tasks -> Row or NoRow]: a2a_tasks as committed
    writing,    \* [Tasks -> Row or NoRow]: the new row of an open transaction
    clock,      \* clock_timestamp()
    phase,      \* where the session is: between calls, or inside List
    filter,     \* the session's filter
    cursor,     \* Entry or NoCursor: the token of the last response
    snapshot,   \* [Tasks -> Row or NoRow]: what the transaction sees
    size,       \* its page size
    total,      \* what it counted
    pages,      \* Seq(Response): the responses of the session
    touched     \* ghost, SUBSET Tasks: committed since the session's first look

table == <<rows, writing, clock>>
reading == <<snapshot, size, total>>
vars == <<rows, writing, clock, phase, filter, cursor, snapshot, size, total, pages, touched>>

Table == [Tasks -> Row \cup {NoRow}]

TypeOK ==
    /\ rows \in Table /\ writing \in Table /\ snapshot \in Table
    /\ clock \in 0..MaxClock
    /\ phase \in Phase
    /\ filter \in Filters
    /\ cursor \in Entry \cup {NoCursor}
    /\ size \in 1..MaximumPageSize /\ total \in Nat
    /\ pages \in Seq(Response)
    /\ touched \subseteq Tasks

NoRows == [t \in Tasks |-> NoRow]

Init ==
    /\ rows = NoRows /\ writing = NoRows /\ clock = 0
    /\ phase = "idle" /\ filter \in Filters /\ cursor = NoCursor
    /\ snapshot = NoRows /\ size = DefaultPageSize /\ total = 0
    /\ pages = <<>> /\ touched = {}

-----------------------------------------------------------------------------
(* The writers. *)

Writers == {t \in Tasks : writing[t] # NoRow}

(* Mutant: updated_at = now(), the time the transaction began. *)
StampAtBegin(t, d) == \E s \in 0..clock :
    writing' = [writing EXCEPT ![t] = [doc |-> d, stamp |-> s]]

(* updated_at = clock_timestamp(), read while the row is locked. *)
Stamp(t, d) == writing' = [writing EXCEPT ![t] = [doc |-> d, stamp |-> clock]]

(* INSERT or UPDATE: a row keeps its owner, and has one writer at a time. *)
Write(t) ==
    /\ writing[t] = NoRow
    /\ Cardinality(Writers) < MaxWriters
    /\ \E d \in Document :
          /\ rows[t] # NoRow => rows[t].doc.owner = d.owner
          /\ Stamp(t, d)
    /\ UNCHANGED <<rows, clock, phase, filter, cursor, reading, pages, touched>>

(* The write is committed, at any time after it was stamped. *)
Land(t) ==
    /\ writing[t] # NoRow
    /\ rows' = [rows EXCEPT ![t] = writing[t]]
    /\ writing' = [writing EXCEPT ![t] = NoRow]
    /\ touched' = touched \cup {t}
    /\ UNCHANGED <<clock, phase, filter, cursor, reading, pages>>

(* Or it is rolled back. *)
RollBack(t) ==
    /\ writing[t] # NoRow
    /\ writing' = [writing EXCEPT ![t] = NoRow]
    /\ UNCHANGED <<rows, clock, phase, filter, cursor, reading, pages, touched>>

(* Time passes, or is set back; two writes in one instant have the same    *)
(* timestamp.                                                              *)
Tick ==
    /\ \E d \in ClockMoves : clock' = clock + d
    /\ clock' \in 0..MaxClock
    /\ UNCHANGED <<rows, writing, phase, filter, cursor, reading, pages, touched>>

-----------------------------------------------------------------------------
(* List. *)

(* listFilter. *)
Matches(d, f) ==
    /\ d.owner = f.owner
    /\ f.context \in {AnyContext, d.context}
    /\ f.state \in {AnyState, d.state}
    /\ f.after = NoTime \/ d.reported = NoTime \/ d.reported >= f.after

Matching(t, f) ==
    {[task |-> k, stamp |-> t[k].stamp] :
        k \in {j \in Tasks : t[j] # NoRow /\ Matches(t[j].doc, f)}}

(* (updated_at, task_id) < (updated_at, task_id). *)
Below(e, g) == e.stamp < g.stamp \/ (e.stamp = g.stamp /\ e.task < g.task)

AfterCursor(e, token) == token = NoCursor \/ Below(e, token)

(* ORDER BY updated_at DESC, task_id DESC LIMIT n. *)
FirstOf(entries, n) == {e \in entries : Cardinality({g \in entries : Below(e, g)}) < n}

Lowest(entries) == CHOOSE e \in entries : \A g \in entries : g = e \/ Below(e, g)

(* Mutant: every statement sees the newest commits (READ COMMITTED). *)
SeenAtEachStatement == rows

(* What a statement of the transaction sees. *)
Seen == snapshot

(* Mutant: a request without a page size gets none. *)
NoDefaultSize(requested) == requested

PageSize(requested) == IF requested = 0 THEN DefaultPageSize ELSE requested

(* Mutant: the token is taken from the row fetched to look ahead. *)
TokenOfLookahead(fetched, n) == Lowest(fetched)

(* encodePageToken of the last task listed; the token gives back the same  *)
(* timestamp and identifier when it is decoded.                            *)
Token(fetched, n) == Lowest(FirstOf(fetched, n))

(* shapeListedTask: the newest messages of the history, all of them if the *)
(* length asked for is negative, and artifacts only if they are asked for. *)
Shaped(t, d, f) ==
    LET n == IF f.length = NoLength THEN DefaultHistory ELSE f.length
        cut == IF n >= 0 /\ Len(d.history) > n THEN Len(d.history) - n ELSE 0
    IN  [task |-> t, history |-> SubSeq(d.history, cut + 1, Len(d.history)),
         artifacts |-> f.artifacts /\ d.artifacts]

(* A client starts to page, with the filter of its choice. *)
Open ==
    /\ phase \in {"idle", "done"}
    /\ phase' = "ready"
    /\ filter' \in Filters
    /\ cursor' = NoCursor /\ pages' = <<>> /\ touched' = {}
    /\ UNCHANGED <<table, reading>>

(* List: BEGIN, and the count takes the snapshot. *)
Count ==
    /\ phase = "ready"
    /\ phase' = "counted"
    /\ snapshot' = rows
    /\ \E n \in RequestedSizes : size' = PageSize(n)
    /\ total' = Cardinality(Matching(rows, filter))
    /\ touched' = IF pages = <<>> THEN {} ELSE touched
    /\ UNCHANGED <<table, filter, cursor, pages>>

(* COMMIT or ROLLBACK: the snapshot is gone. *)
EndRead == snapshot' = NoRows /\ total' = 0 /\ UNCHANGED size

(* The response made of the rows below the cursor: one row more than the  *)
(* page holds is fetched to see whether there is a next page.              *)
Respond(rest) ==
    LET fetched == FirstOf(rest, size + 1)
        more == Cardinality(fetched) > size
        listed == FirstOf(fetched, size)
    IN  /\ pages' = Append(pages, [tasks |-> listed,
                                   shown |-> {Shaped(e.task, Seen[e.task].doc, filter) : e \in listed},
                                   total |-> total, size |-> size, more |-> more])
        /\ cursor' = IF more THEN Token(fetched, size) ELSE NoCursor
        /\ phase' = IF more THEN "ready" ELSE "done"

(* Mutant: the token is refused unless its task still has that timestamp. *)
ReadPageOfUnmoved ==
    /\ phase = "counted"
    /\ cursor \in Matching(Seen, filter) \cup {NoCursor}
    /\ Respond({e \in Matching(Seen, filter) : AfterCursor(e, cursor)})
    /\ EndRead
    /\ UNCHANGED <<table, filter, touched>>

(* List: the page is read and returned. *)
ReadPage ==
    /\ phase = "counted"
    /\ Respond({e \in Matching(Seen, filter) : AfterCursor(e, cursor)})
    /\ EndRead
    /\ UNCHANGED <<table, filter, touched>>

(* List fails, and the client asks again with the token it has. *)
ListFails ==
    /\ phase = "counted"
    /\ phase' = "ready"
    /\ EndRead
    /\ UNCHANGED <<table, filter, cursor, pages, touched>>

Next ==
    \/ \E t \in Tasks : Write(t) \/ Land(t) \/ RollBack(t)
    \/ Tick
    \/ Open \/ Count \/ ReadPage \/ ListFails

Spec == Init /\ [][Next]_vars

(* A client that has begun goes on, and List does not fail forever.  The   *)
(* writers are not obliged to stop.                                        *)
FairSpec == Spec /\ WF_vars(Count) /\ SF_vars(ReadPage)

-----------------------------------------------------------------------------
(* The count and the page of a response come from one snapshot: the first  *)
(* response lists as many tasks as TotalSize says, up to the page size,    *)
(* and announces more exactly when TotalSize says so; a later one never    *)
(* shows more than it counts, whatever is committed in between             *)
(* (store.go 198-210, 243-257).                                            *)
PageMatchesCount ==
    \A i \in 1..Len(pages) :
       LET page == pages[i]
           shown == Cardinality(page.tasks)
       IN  /\ shown <= page.size /\ shown <= page.total
           /\ page.more => shown = page.size /\ page.size < page.total
           /\ i = 1 => (page.more <=> page.size < page.total)
           /\ i = 1 /\ ~page.more => shown = page.total

(* Across all pages of a session the tasks come strictly in the order of   *)
(* their last update, and, as long as nobody sets the clock back, no task  *)
(* comes twice, although it may be updated in the middle of the session or *)
(* be listed with a timestamp that was taken before the session began      *)
(* (store.go 115, 213-222, cursor.go).                                     *)
PagesDescend ==
    \A i, j \in 1..Len(pages) : i < j =>
       \A e \in pages[i].tasks, g \in pages[j].tasks : Below(g, e) /\ g.task # e.task

(* A listing may leave out messages, but only the oldest, and as many as   *)
(* were asked for, and it shows artifacts exactly if they were.            *)
ShownAsAsked(shown, d) ==
    LET kept == Len(shown.history)
        all == Len(d.history)
        asked == IF filter.length = NoLength THEN DefaultHistory ELSE filter.length
    IN  /\ \A i \in 1..kept : shown.history[i] = d.history[all - kept + i]
        /\ asked \in 0..(all - 1) => kept = asked
        /\ asked \notin 0..(all - 1) => kept = all
        /\ shown.artifacts <=> (filter.artifacts /\ d.artifacts)

(* A finished session has listed every task that matches and was not       *)
(* committed to since the session's first page was read, and of the        *)
(* untouched tasks only those, also if the clock is set back meanwhile,    *)
(* each with the history and the artifacts the client asked for (store.go  *)
(* 115, 205-257, 296-328).                                                 *)
UntouchedAreListed ==
    phase = "done" =>
       /\ {e \in UNION {pages[i].tasks : i \in 1..Len(pages)} : e.task \notin touched}
            = {e \in Matching(rows, filter) : e.task \notin touched}
       /\ \A i \in 1..Len(pages) : \A x \in pages[i].shown :
             x.task \notin touched => ShownAsAsked(x, rows[x.task].doc)

(* A session reaches its last page even if the writers never stop and the  *)
(* clock is set back, which moves a task that was listed before the cursor *)
(* behind it once more (store.go 115, 213-222, 254-256).                   *)
SessionEnds == phase = "ready" ~> phase = "done"

=============================================================================
