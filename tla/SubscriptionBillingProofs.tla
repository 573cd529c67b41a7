---------------------- MODULE SubscriptionBillingProofs ----------------------
(***************************************************************************)
(* What a business is entitled to, what it is billed for and how many      *)
(* provider subscriptions it has, for any catalogue of plans, any number   *)
(* of commands, subscriptions, cycles, events and faults.                  *)
(***************************************************************************)
EXTENDS SubscriptionBilling, TLAPS

\* First-order reasoning is left to Zenon; leaves with arithmetic name SMT.
USE Zenon

-----------------------------------------------------------------------------
(* The inductive invariant.  Its first part holds in every state.          *)

Plans == Paid \cup {NoPlan}
SubStatus == {"none", "created", "active", "pending", "halted", "cancelled", "completed"}
EventTypes == {"activated", "charged", "pending", "halted", "cancelled", "completed", "updated"}
Answering == {"calling", "accepted", "ended", "unknown", "refused"}

Tasks == [pc : Answering \cup {"none", "initializing", "completed", "rejected",
                               "reconciliation_required"},
          action : {"none", "start", "plan", "cancel"}, plan : Plans, prev : Rows,
          made : 0..MaxSubs]
ProviderRows == [status : SubStatus, charges : Seq(Paid), plan : Plans, sched : Plans,
                 cancelAtEnd : BOOLEAN]
EventRows == [sub : Subs, type : EventTypes, at : Nat, paid : 0..TotalCount, plan : Paid]
Fetches == [sub : Subs, status : SubStatus, paid : 0..TotalCount, plan : Paid,
            changes : BOOLEAN]

\* A row that names no provider subscription has nothing of one.
Shape(row) == row.prov = 0 => row.paid = 0 /\ row.end = 0 /\ row.plan = Free /\ row.lastAt = 0

\* A row names a subscription the provider has created.
Names(n) == n # 0 => provider[n].status # "none"

Types ==
  /\ sub \in Rows /\ Shape(sub)
  /\ call \in [Calls -> Tasks] /\ \A c \in Calls : Shape(call[c].prev)
  /\ provider \in [Subs -> ProviderRows]
  /\ events \in Seq(EventRows) /\ Len(events) <= MaxEvents
  /\ \A k \in 1..Len(events) : events[k].at <= k
  /\ seen \subseteq 1..Len(events)
  /\ fetched \in {NoFetch} \cup Fetches
  /\ records \subseteq Subs \X Cycles \X {"event", "reconciliation"}
  /\ faults \in 0..MaxFaults
  /\ late \subseteq {"restored", "ended"}

\* The provider's books: what is not created is blank, nothing is charged
\* before it is authorised, and the plan is the plan of the last charge.
Book(i) ==
  LET p == provider[i]
  IN  /\ p.status # "none" => p.plan \in Paid
      /\ p.status \in {"none", "created"} => p.charges = <<>>
      /\ Len(p.charges) <= TotalCount
      /\ p.charges # <<>> => p.plan = p.charges[Len(p.charges)]

\* What a command remembers, by what it asks for.
Task(c) ==
  LET t == call[c]
  IN  /\ Names(t.prev.prov) /\ Names(t.made)
      /\ t.pc \in Answering <=> t.action # "none"
      /\ t.action = "start" => t.plan \in Paid /\ t.pc # "ended"
      /\ t.action \in {"plan", "cancel"} =>
           t.prev.prov # 0 /\ t.prev.mode = "renewable" /\ t.prev.status = "active"
      /\ t.action = "plan" => t.plan \in Paid /\ t.pc # "ended"
      /\ t.pc = "accepted" => t.made # 0
      /\ t.pc = "ended" => t.made # 0 /\ provider[t.made].status = "cancelled"

\* What an event or a fetched subscription says was charged was charged.
Shown(p) ==
  LET charges == provider[p.sub].charges
  IN  p.paid <= Len(charges) /\ (p.paid > 0 => charges[p.paid] = p.plan)

Told(e) ==
  /\ provider[e.sub].status # "none" /\ Shown(e)
  /\ e.type = "cancelled" => provider[e.sub].status = "cancelled"
  /\ e.type = "completed" => provider[e.sub].status = "completed"

Observed(f) ==
  f # NoFetch => /\ Shown(f)
                 /\ f.status = "cancelled" => provider[f.sub].status = "cancelled"

Records == \A r \in records : r[2] <= Len(provider[r[1]].charges)

Books ==
  /\ Types
  /\ \A i \in Subs : Book(i)
  /\ Names(sub.prov) /\ \A c \in Calls : Task(c)
  /\ \A k \in 1..Len(events) : Told(events[k])
  /\ Observed(fetched)
  /\ Records

-----------------------------------------------------------------------------
(* The second part holds until a rejection puts an old row over newer      *)
(* changes.                                                                *)

Entitled(row) ==
  IF row.plan = Free THEN row.paid = 0
  ELSE /\ row.prov # 0 /\ row.paid \in 1..Len(provider[row.prov].charges)
       /\ provider[row.prov].charges[row.paid] = row.plan

Billed(row) ==
  row.paid > 0 => \E origin \in {"event", "reconciliation"} :
                    <<row.prov, row.paid, origin>> \in records

\* No record is ahead of the row.
Covers(row) == \A r \in records : r[1] = row.prov => r[2] <= row.paid

\* A renewable row without a subscription waits for its start: nothing but
\* the outcome of the start or doubt about it can be saved on it.
Waits(row) ==
  row.mode = "renewable" /\ row.prov = 0
    => row.status \in {"pending_payment", "reconciliation_required"}

\* The start under way: the row waits for it, and what it replaced was free
\* or ended.
Starting(c) ==
  LET t == call[c]
  IN  t.action = "start" =>
        /\ sub.mode = "renewable" /\ sub.prov = 0
        /\ t.prev.mode = "renewable" => t.prev.prov # 0 /\ t.prev.status \in Terminal
        /\ Covers(t.prev)
        /\ \A d \in Calls : call[d].action = "start" => d = c

\* A subscription the start has just created is known to that start alone,
\* so that nobody can authorise it yet.
Fresh(c) ==
  LET t == call[c]
  IN  t.action = "start" /\ t.pc = "accepted" =>
        /\ provider[t.made].status = "created"
        /\ \A d \in Calls \ {c} : call[d].made # t.made /\ call[d].prev.prov # t.made

SingleOrigin ==
  \A i \in Subs, n \in Cycles : ~ ({<<i, n, "event">>, <<i, n, "reconciliation">>} \subseteq records)

Account ==
  /\ Waits(sub) /\ Covers(sub) /\ SingleOrigin
  /\ Entitled(sub) /\ \A c \in Calls : Entitled(call[c].prev)
  /\ Billed(sub) /\ \A c \in Calls : Billed(call[c].prev)
  /\ \A c \in Calls : Starting(c) /\ Fresh(c)

-----------------------------------------------------------------------------
(* The third part holds until one of the two late commands.                *)

\* Whatever is live is what the row names, or what its start has created.
Alone ==
  /\ \A i, j \in Subs : Live(i) /\ Live(j) => i = j
  /\ sub.prov # 0 => \A i \in Subs : Live(i) => i = sub.prov
  /\ sub.mode = "free" \/ sub.status \in Terminal => \A i \in Subs : ~ Live(i)
  /\ \A c \in Calls : call[c].action = "start" =>
       /\ call[c].pc \in {"calling", "refused"} => \A i \in Subs : ~ Live(i)
       /\ call[c].pc = "accepted" => \A i \in Subs : Live(i) => i = call[c].made

SubscriptionInv ==
  /\ Books
  /\ "restored" \notin late => Account
  /\ late = {} => Alone

-----------------------------------------------------------------------------
(* Rows.                                                                   *)

\* The columns of a row.
LEMMA RowFields ==
  ASSUME NEW row \in Rows
  PROVE  /\ row.status \in Status /\ row.mode \in {"free", "renewable"}
         /\ row.prov \in 0..MaxSubs /\ row.plan \in Paid \cup {Free}
         /\ row.provPlan \in Plans /\ row.pend \in Plans
         /\ row.pendAt \in 0..TotalCount /\ row.paid \in 0..TotalCount
         /\ row.lastAt \in 0..MaxEvents /\ row.end \in 0..TotalCount
         /\ row.cancelAtEnd \in BOOLEAN /\ row.grace \in BOOLEAN
BY DEF Rows, Plans

\* The part of a row that says what it stands for.
Same(r, row) == r.mode = row.mode /\ r.prov = row.prov /\ r.plan = row.plan
                /\ r.paid = row.paid /\ r.end = row.end /\ r.lastAt = row.lastAt

\* A status is saved.
LEMMA StatusSaved ==
  ASSUME NEW row \in Rows, NEW s \in Status
  PROVE  LET r == [row EXCEPT !.status = s]
         IN  r \in Rows /\ r.status = s /\ Same(r, row)
BY DEF Rows, Same

\* A status is saved and the scheduled cancellation is dropped or set.
LEMMA EndSaved ==
  ASSUME NEW row \in Rows, NEW s \in Status, NEW b \in BOOLEAN
  PROVE  LET r == [row EXCEPT !.status = s, !.cancelAtEnd = b]
         IN  r \in Rows /\ r.status = s /\ Same(r, row)
BY DEF Rows, Same

\* A status is saved and the days of grace begin or end.
LEMMA GraceSaved ==
  ASSUME NEW row \in Rows, NEW s \in Status, NEW b \in BOOLEAN
  PROVE  LET r == [row EXCEPT !.status = s, !.grace = b]
         IN  r \in Rows /\ r.status = s /\ Same(r, row)
BY DEF Rows, Same

\* The row of a business that has never paid.
LEMMA FreeRowIsRow == FreeRow \in Rows /\ Shape(FreeRow)
<1>1. 0 \in 0..MaxSubs /\ 0 \in 0..TotalCount /\ 0 \in 0..MaxEvents
  BY SubscriptionBounds, SMT
<1> QED BY <1>1 DEF FreeRow, Rows, Shape, Status

\* The row a start saves before it calls the provider (StartRenewable).
LEMMA StartRowIsRow ==
  ASSUME NEW plan \in Paid, NEW row
  PROVE  LET r == StartRow(row, plan)
         IN  /\ r \in Rows /\ Shape(r) /\ r.status = "pending_payment"
             /\ r.mode = "renewable" /\ r.prov = 0 /\ r.paid = 0 /\ r.plan = Free
<1>1. FreeRow \in Rows
  BY FreeRowIsRow
<1>2. /\ FreeRow.prov = 0 /\ FreeRow.paid = 0 /\ FreeRow.plan = Free /\ FreeRow.end = 0
      /\ FreeRow.lastAt = 0
  BY DEF FreeRow
<1>3. "pending_payment" \in Status
  BY DEF Status
<1> QED BY <1>1, <1>2, <1>3 DEF StartRow, Rows, Shape

\* The row a change of plan saves before its call (SchedulePlanChange).
LEMMA PlanRowIsRow ==
  ASSUME NEW row \in Rows, NEW plan \in Paid
  PROVE  LET r == PlanRow(row, plan)
         IN  r \in Rows /\ r.status = "renewal_pending" /\ Same(r, row)
<1>1. "renewal_pending" \in Status
  BY DEF Status
<1> QED BY <1>1 DEF PlanRow, Rows, Same

\* The row a cancellation saves before its call (ScheduleCancellation).
LEMMA CancelRowIsRow ==
  ASSUME NEW row \in Rows
  PROVE  LET r == CancelRow(row)
         IN  r \in Rows /\ r.status = "cancellation_scheduled" /\ Same(r, row)
<1>1. "cancellation_scheduled" \in Status
  BY DEF Status
<1> QED BY <1>1, EndSaved DEF CancelRow

\* Rows that stand for the same have the same shape.
LEMMA SameShape == ASSUME NEW row, NEW r, Same(r, row), Shape(row) PROVE Shape(r)
BY DEF Same, Shape

\* What a paid period makes of the row, whoever found out about it.
LEMMA PaidRowIsRow ==
  ASSUME sub \in Rows, NEW p, p.plan \in Paid, p.paid \in 0..TotalCount
  PROVE  LET r == PaidRow(p)
         IN  /\ r \in Rows /\ r.status = "active" /\ r.mode = "renewable"
             /\ r.prov = sub.prov /\ r.plan = p.plan /\ r.paid = p.paid
<1>1. "active" \in Status
  BY DEF Status
<1>2. /\ (IF sub.pend = p.plan THEN NoPlan ELSE sub.pend) \in Paid \cup {NoPlan}
      /\ (IF sub.pend = p.plan THEN 0 ELSE sub.pendAt) \in 0..TotalCount
  <2>1. 0 \in 0..TotalCount
    BY SubscriptionBounds, SMT
  <2> QED BY <2>1 DEF Rows
<1> QED BY ZenonT(60), <1>1, <1>2 DEF PaidRow, Rows

\* What an applied event makes of the row.
LEMMA EventRowIsRow ==
  ASSUME sub \in Rows, NEW e \in EventRows, e.at \in 0..MaxEvents
  PROVE  LET r == EventRow(e)
         IN  /\ r \in Rows /\ r.prov = sub.prov
             /\ e.type = "charged" => /\ r.status = "active" /\ r.mode = "renewable"
                                      /\ r.plan = e.plan /\ r.paid = e.paid
             /\ e.type # "charged" => /\ r.mode = sub.mode
                                      /\ r.plan = sub.plan /\ r.paid = sub.paid
             /\ r.status \in Terminal => \/ sub.status \in Terminal
                                         \/ e.type \in {"cancelled", "completed"}
<1> DEFINE Done(r) == [r EXCEPT !.lastAt = e.at, !.end = IF e.paid > 0 THEN e.paid ELSE r.end]
<1>1. /\ {"renewal_pending", "past_due", "suspended", "cancelled", "expired"} \subseteq Status
      /\ {"renewal_pending", "past_due", "suspended", "active"} \cap Terminal = {}
  BY DEF Status, Terminal
<1>2. e.plan \in Paid /\ e.paid \in 0..TotalCount /\ e.type \in EventTypes
  BY DEF EventRows
<1>3. ASSUME NEW r \in Rows
      PROVE  /\ Done(r) \in Rows /\ Done(r).status = r.status /\ Done(r).prov = r.prov
             /\ Done(r).mode = r.mode /\ Done(r).plan = r.plan /\ Done(r).paid = r.paid
  <2>1. (IF e.paid > 0 THEN e.paid ELSE r.end) \in 0..TotalCount
    BY <1>2 DEF Rows
  <2> QED BY <2>1 DEF Rows
<1>4. CASE e.type = "charged"
  <2>1. EventRow(e) = Done(PaidRow(e))
    BY <1>4 DEF EventRow
  <2>2. /\ PaidRow(e) \in Rows /\ PaidRow(e).status = "active" /\ PaidRow(e).prov = sub.prov
        /\ PaidRow(e).mode = "renewable" /\ PaidRow(e).plan = e.plan /\ PaidRow(e).paid = e.paid
    BY <1>2, PaidRowIsRow
  <2> QED BY <1>1, <1>3, <1>4, <2>1, <2>2
<1>5. ASSUME NEW s \in Status, NEW r \in Rows, EventRow(e) = Done(r), Same(r, sub),
             r.status = s, e.type # "charged",
             s \in Terminal => sub.status \in Terminal \/ e.type \in {"cancelled", "completed"}
      PROVE  /\ EventRow(e) \in Rows /\ EventRow(e).prov = sub.prov
             /\ EventRow(e).mode = sub.mode /\ EventRow(e).plan = sub.plan
             /\ EventRow(e).paid = sub.paid
             /\ EventRow(e).status \in Terminal => \/ sub.status \in Terminal
                                                   \/ e.type \in {"cancelled", "completed"}
  BY ZenonT(60), <1>3, <1>5 DEF Same
<1>6. CASE e.type = "activated"
  <2>1. EventRow(e) = Done([sub EXCEPT !.status = "renewal_pending"])
    BY <1>6 DEF EventRow
  <2> QED BY ZenonT(60), <1>1, <1>5, <1>6, <2>1, StatusSaved
<1>7. CASE e.type = "pending"
  <2>1. EventRow(e) = Done([sub EXCEPT !.status = "past_due", !.grace = TRUE])
    BY <1>7 DEF EventRow
  <2>2. "past_due" \in Status /\ "past_due" \notin Terminal
    BY <1>1
  <2>3. LET r == [sub EXCEPT !.status = "past_due", !.grace = TRUE]
        IN  r \in Rows /\ r.status = "past_due" /\ Same(r, sub)
    BY <2>2, GraceSaved
  <2> QED BY <1>5, <1>7, <2>1, <2>2, <2>3
<1>8. CASE e.type = "halted"
  <2>1. EventRow(e) = Done([sub EXCEPT !.status = "suspended"])
    BY <1>8 DEF EventRow
  <2> QED BY ZenonT(60), <1>1, <1>5, <1>8, <2>1, StatusSaved
<1>9. CASE e.type = "cancelled"
  <2>1. EventRow(e) = Done([sub EXCEPT !.status = "cancelled", !.cancelAtEnd = FALSE])
    BY <1>9 DEF EventRow
  <2> QED BY ZenonT(60), <1>1, <1>5, <1>9, <2>1, EndSaved
<1>10. CASE e.type = "completed"
  <2>1. EventRow(e) = Done([sub EXCEPT !.status = "expired"])
    BY <1>10 DEF EventRow
  <2> QED BY <1>1, <1>5, <1>10, <2>1, StatusSaved
<1>11. CASE e.type = "updated"
  <2> DEFINE s == IF sub.pend = NoPlan THEN sub.status ELSE "renewal_pending"
  <2>1. EventRow(e) = Done([sub EXCEPT !.status = s])
    BY <1>11 DEF EventRow
  <2>2. s \in Status /\ (s \in Terminal => sub.status \in Terminal)
    BY <1>1, RowFields
  <2>3. LET r == [sub EXCEPT !.status = s]
        IN  r \in Rows /\ r.status = s /\ Same(r, sub)
    BY <2>2, StatusSaved
  <2> HIDE DEF s
  <2> QED BY <1>5, <1>11, <2>1, <2>2, <2>3
<1> QED BY <1>2, <1>4, <1>6, <1>7, <1>8, <1>9, <1>10, <1>11 DEF EventTypes

-----------------------------------------------------------------------------
(* What a step does to the provider's subscriptions and events.            *)

\* The fields and the books of one provider subscription.
LEMMA BookFacts ==
  ASSUME Books, NEW i \in Subs
  PROVE  /\ provider[i] \in ProviderRows /\ provider[i].status \in SubStatus
         /\ provider[i].charges \in Seq(Paid) /\ provider[i].plan \in Plans
         /\ provider[i].sched \in Plans /\ provider[i].cancelAtEnd \in BOOLEAN
         /\ Book(i)
<1>1. provider[i] \in ProviderRows /\ Book(i)
  BY DEF Books, Types
<1> QED BY <1>1 DEF ProviderRows

Prolongs(t, s) == Len(s) <= Len(t) /\ \A n \in 1..Len(s) : t[n] = s[n]

\* A list of charges goes on from itself.
LEMMA SelfProlongs == ASSUME NEW s \in Seq(Paid) PROVE Prolongs(s, s)
BY SMT DEF Prolongs

\* A list of charges with one more goes on from the list.
LEMMA AppendProlongs ==
  ASSUME NEW s \in Seq(Paid), NEW x \in Paid
  PROVE  LET t == Append(s, x)
         IN  /\ t \in Seq(Paid) /\ Prolongs(t, s) /\ Len(t) = Len(s) + 1 /\ t # <<>>
             /\ t[Len(t)] = x
BY SMTT(60) DEF Prolongs

\* What the provider's books say of a row of theirs.
Kept(p) ==
  /\ p \in ProviderRows /\ p.status \notin {"none", "created"} /\ p.plan \in Paid
  /\ Len(p.charges) <= TotalCount
  /\ p.charges # <<>> => p.plan = p.charges[Len(p.charges)]

\* A step of the provider keeps its books, on a subscription that is live and
\* that the customer knows.
Advance(i, type, now) ==
  /\ Kept(now) /\ Prolongs(now.charges, provider[i].charges) /\ Live(i)
  /\ type \in EventTypes
  /\ type = "cancelled" => now.status = "cancelled"
  /\ type = "completed" => now.status = "completed"
  /\ provider[i].status = "created"
       => \E c \in Calls : call[c].pc = "completed" /\ call[c].made = i

\* A new status of a created subscription leaves its books in order.
LEMMA StatusAdvances ==
  ASSUME Books, NEW i \in Subs, NEW s \in SubStatus \ {"none", "created"},
         provider[i].status # "none"
  PROVE  LET p == [provider[i] EXCEPT !.status = s]
         IN  /\ Kept(p) /\ p.status = s /\ p.charges = provider[i].charges
             /\ p.plan = provider[i].plan
<1>1. provider[i] \in ProviderRows /\ Book(i)
  BY BookFacts
<1>2. LET p == [provider[i] EXCEPT !.status = s]
      IN  /\ p \in ProviderRows /\ p.status = s /\ p.charges = provider[i].charges
          /\ p.plan = provider[i].plan
  BY <1>1 DEF ProviderRows
<1> QED BY <1>1, <1>2 DEF Kept, Book

\* A charge leaves the books in order, with the plan it charged for.
LEMMA ChargeAdvances ==
  ASSUME Books, NEW i \in Subs, Charge(i)
  PROVE  \E now : Becomes(i, "charged", now) /\ Advance(i, "charged", now)
<1> DEFINE p == provider[i]
           plan == IF p.sched # NoPlan /\ p.charges # <<>> THEN p.sched ELSE p.plan
           sched == IF plan = p.sched THEN NoPlan ELSE p.sched
           now == [p EXCEPT !.status = "active", !.charges = Append(p.charges, plan),
                            !.plan = plan, !.sched = sched]
<1>1. /\ p.status \in {"active", "pending"} /\ Len(p.charges) < TotalCount
      /\ Becomes(i, "charged", now)
  BY DEF Charge
<1>2. p \in ProviderRows /\ Book(i) /\ p.sched \in Plans /\ p.charges \in Seq(Paid)
  BY BookFacts
<1>3. p.plan \in Paid
  BY <1>1, <1>2 DEF Book
<1>4. plan \in Paid
  BY <1>2, <1>3 DEF Plans
<1>5. sched \in Plans
  BY <1>2 DEF Plans
<1> DEFINE t == Append(p.charges, plan)
<1> HIDE DEF plan, sched
<1>6. /\ t \in Seq(Paid) /\ Prolongs(t, p.charges) /\ Len(t) = Len(p.charges) + 1 /\ t # <<>>
      /\ t[Len(t)] = plan
  BY <1>2, <1>4, AppendProlongs
<1>7. Len(t) <= TotalCount
  <2>1. Len(p.charges) \in Nat
    BY <1>2, SMT
  <2> QED BY <1>1, <1>6, <2>1, SubscriptionBounds, SMT
<1> HIDE DEF t
<1>8. now = [p EXCEPT !.status = "active", !.charges = t, !.plan = plan, !.sched = sched]
  BY DEF t
<1>9. "active" \in SubStatus /\ plan \in Plans
  BY <1>4 DEF SubStatus, Plans
<1>10. /\ now \in ProviderRows /\ now.status = "active" /\ now.charges = t /\ now.plan = plan
  BY <1>2, <1>5, <1>6, <1>8, <1>9 DEF ProviderRows
<1>11. Kept(now)
  BY <1>4, <1>6, <1>7, <1>10 DEF Kept
<1>12. Live(i) /\ p.status # "created"
  BY <1>1 DEF Live
<1>13. Advance(i, "charged", now)
  BY <1>6, <1>10, <1>11, <1>12 DEF Advance, EventTypes
<1> QED BY <1>1, <1>13

\* Whatever the provider does of its own accord leaves the books in order.
LEMMA ProviderAdvances ==
  ASSUME Books, NEW i \in Subs,
         \/ Activate(i) \/ Charge(i) \/ ChargeFails(i) \/ Halt(i)
         \/ ProviderCancels(i) \/ AllCyclesPaid(i)
  PROVE  \E type, now : Becomes(i, type, now) /\ Advance(i, type, now)
<1> DEFINE Row(s) == [provider[i] EXCEPT !.status = s]
<1>1. ASSUME NEW s \in SubStatus \ {"none", "created"}, NEW type \in EventTypes,
             Becomes(i, type, Row(s)), Live(i),
             type \in {"cancelled", "completed"} => s = type,
             provider[i].status = "created"
               => \E c \in Calls : call[c].pc = "completed" /\ call[c].made = i
      PROVE  Becomes(i, type, Row(s)) /\ Advance(i, type, Row(s))
  <2>1. provider[i].status # "none"
    BY <1>1 DEF Live
  <2>2. Kept(Row(s)) /\ Row(s).status = s /\ Row(s).charges = provider[i].charges
    BY <2>1, StatusAdvances
  <2>3. Prolongs(Row(s).charges, provider[i].charges)
    BY <2>2, BookFacts, SelfProlongs
  <2> HIDE DEF Row
  <2> QED BY <1>1, <2>2, <2>3 DEF Advance
<1>2. {"active", "pending", "halted", "cancelled", "completed"} \subseteq SubStatus \ {"none", "created"}
  BY DEF SubStatus
<1>3. {"activated", "pending", "halted", "cancelled", "completed"} \subseteq EventTypes
  BY DEF EventTypes
<1>4. CASE Activate(i)
  <2>1. /\ Becomes(i, "activated", Row("active")) /\ Live(i)
        /\ \E c \in Calls : call[c].pc = "completed" /\ call[c].made = i
    BY <1>4 DEF Activate, Live
  <2> HIDE DEF Row
  <2> QED BY <1>1, <1>2, <1>3, <2>1
<1>5. CASE Charge(i)
  BY <1>5, ChargeAdvances
<1>6. CASE ChargeFails(i)
  <2>1. Becomes(i, "pending", Row("pending")) /\ Live(i) /\ provider[i].status # "created"
    BY <1>6 DEF ChargeFails, Live
  <2> HIDE DEF Row
  <2> QED BY <1>1, <1>2, <1>3, <2>1
<1>7. CASE Halt(i)
  <2>1. Becomes(i, "halted", Row("halted")) /\ Live(i) /\ provider[i].status # "created"
    BY <1>7 DEF Halt, Live
  <2> HIDE DEF Row
  <2> QED BY <1>1, <1>2, <1>3, <2>1
<1>8. CASE ProviderCancels(i)
  <2>1. Becomes(i, "cancelled", Row("cancelled")) /\ Live(i) /\ provider[i].status # "created"
    BY <1>8 DEF ProviderCancels, Live
  <2> HIDE DEF Row
  <2> QED BY <1>1, <1>2, <1>3, <2>1
<1>9. CASE AllCyclesPaid(i)
  <2>1. Becomes(i, "completed", Row("completed")) /\ Live(i) /\ provider[i].status # "created"
    BY <1>9 DEF AllCyclesPaid, Live
  <2> HIDE DEF Row
  <2> QED BY <1>1, <1>2, <1>3, <2>1
<1> QED BY <1>4, <1>5, <1>6, <1>7, <1>8, <1>9

\* An event carries what the subscription is at the moment it is sent.
LEMMA Emitted ==
  ASSUME Types, NEW i \in Subs, NEW type \in EventTypes, NEW now, Kept(now), Emit(i, type, now)
  PROVE  \E e \in EventRows :
           /\ events' = Append(events, e) /\ Len(events) < MaxEvents
           /\ e.at <= Len(events) + 1 /\ e.sub = i /\ e.type = type
           /\ e.paid = Len(now.charges) /\ e.plan = now.plan
<1> DEFINE last == IF events = <<>> THEN 0 ELSE events[Len(events)].at
           e(tick) == [sub |-> i, type |-> type, at |-> last + tick,
                       paid |-> Len(now.charges), plan |-> now.plan]
<1>1. PICK tick \in {0, 1} : events' = Append(events, e(tick))
  BY DEF Emit
<1>2. Len(events) < MaxEvents
  BY DEF Emit
<1>3. events \in Seq(EventRows) /\ \A k \in 1..Len(events) : events[k].at <= k
  BY DEF Types
<1>4. last \in Nat /\ last <= Len(events)
  <2>1. CASE events = <<>>
    BY <2>1, SMT
  <2>2. CASE events # <<>>
    <3>1. Len(events) \in 1..Len(events) /\ events[Len(events)] \in EventRows
      BY <1>3, <2>2, SMT
    <3>2. events[Len(events)].at \in Nat
      BY <3>1 DEF EventRows
    <3> QED BY <1>3, <2>2, <3>1, <3>2
  <2> QED BY <2>1, <2>2
<1> HIDE DEF last
<1>5. last + tick \in Nat /\ last + tick <= Len(events) + 1
  <2>1. Len(events) \in Nat
    BY <1>3, SMT
  <2> QED BY <1>4, <2>1, SMT
<1>6. Len(now.charges) \in 0..TotalCount /\ now.plan \in Paid
  <2>1. now.charges \in Seq(Paid) /\ Len(now.charges) <= TotalCount /\ now.plan \in Paid
    BY DEF Kept, ProviderRows
  <2> QED BY <2>1, SubscriptionBounds, SMT
<1>7. /\ e(tick) \in EventRows /\ e(tick).at = last + tick /\ e(tick).sub = i
      /\ e(tick).type = type /\ e(tick).paid = Len(now.charges) /\ e(tick).plan = now.plan
  BY <1>5, <1>6 DEF EventRows
<1> HIDE DEF e
<1> QED BY <1>1, <1>2, <1>5, <1>7

\* The fields of what a command remembers.
LEMMA TaskFacts ==
  ASSUME Books, NEW c \in Calls
  PROVE  /\ call[c] \in Tasks /\ call[c].prev \in Rows /\ Shape(call[c].prev) /\ Task(c)
         /\ call[c].plan \in Plans /\ call[c].made \in 0..MaxSubs
         /\ call[c].action \in {"none", "start", "plan", "cancel"}
         /\ call[c].action \in {"plan", "cancel"} => call[c].prev.prov \in Subs
         /\ call[c].made # 0 => call[c].made \in Subs
         /\ call[c].action \in {"start", "plan"} => call[c].plan \in Paid
<1>1. call[c] \in Tasks /\ Shape(call[c].prev) /\ Task(c)
  BY DEF Books, Types
<1>2. /\ call[c].prev \in Rows /\ call[c].plan \in Plans /\ call[c].made \in 0..MaxSubs
      /\ call[c].action \in {"none", "start", "plan", "cancel"}
  BY <1>1 DEF Tasks
<1>3. call[c].prev.prov \in 0..MaxSubs
  BY <1>2, RowFields
<1>4. \A n \in 0..MaxSubs : n # 0 => n \in Subs
  BY SubscriptionBounds, SMT DEF Subs
<1>5. call[c].action \in {"plan", "cancel"} => call[c].prev.prov # 0
  BY <1>1 DEF Task
<1>6. call[c].action \in {"start", "plan"} => call[c].plan \in Paid
  BY <1>1 DEF Task
<1> QED BY <1>1, <1>2, <1>3, <1>4, <1>5, <1>6

\* The steps that change the provider's subscriptions or send an event.
LEMMA ProviderSteps ==
  ASSUME Books, [Next]_vars
  PROVE  \/ \E i \in Subs : \E type, now : Becomes(i, type, now) /\ Advance(i, type, now)
         \/ \E c \in Calls : \/ CreateSubscription(c) \/ UpdateSubscription(c)
                             \/ CancelAtCycleEnd(c) \/ CancelNow(c)
         \/ UNCHANGED <<provider, events>>
<1>1. CASE Provider
  BY <1>1, ProviderAdvances DEF Provider
<1>2. CASE \E c \in Calls : Request(c)
  BY <1>2 DEF Request, StartRenewable, SchedulePlanChange, ScheduleCancellation, Begin
<1>3. CASE \E c \in Calls : CallsProvider(c)
  BY <1>3 DEF CallsProvider, ProviderRejects, NoAnswer
<1>4. CASE \E c \in Calls : Record(c)
  <2>1. PICK c \in Calls : Record(c)
    BY <1>4
  <2>2. \E status : Ends(c, status)
    BY <2>1 DEF Record, FinishStart, CompleteCommand, FinalizeImmediateCancellation,
                MarkCommandUnknown, RejectProviderMutation
  <2> QED BY <2>2 DEF Ends
<1>5. CASE \E c \in Calls : Crash(c)
  BY <1>5 DEF Crash
<1>6. CASE \E id \in 1..Len(events) : HandleWebhook(id)
  BY <1>6 DEF HandleWebhook, IgnoreEvent, DoubtEvent, ApplyEvent, Receive
<1>7. CASE RunMaintenance
  BY <1>7 DEF RunMaintenance, FetchSubscription, ReconcileCancelled, ReconcilePaid,
              ReconcileScheduled, StaysInDoubt, Reconcile
<1>8. CASE SuspendExpiredGrace
  BY <1>8 DEF SuspendExpiredGrace
<1>9. CASE UNCHANGED vars
  BY <1>9 DEF vars
<1> QED BY <1>1, <1>2, <1>3, <1>4, <1>5, <1>6, <1>7, <1>8, <1>9 DEF Next

\* What a command that changes an existing subscription does to it.
LEMMA ChangeAdvances ==
  ASSUME Books, NEW c \in Calls,
         UpdateSubscription(c) \/ CancelAtCycleEnd(c) \/ CancelNow(c)
  PROVE  LET i == call[c].prev.prov
         IN  /\ i \in Subs /\ Live(i) /\ provider[i].status = "active"
             /\ call[c].pc = "calling" /\ call[c].action \in {"plan", "cancel"}
             /\ \E now : /\ provider' = [provider EXCEPT ![i] = now] /\ Kept(now)
                         /\ now.charges = provider[i].charges /\ now.plan = provider[i].plan
                         /\ CancelNow(c) => now.status = "cancelled"
<1> DEFINE i == call[c].prev.prov
           p == provider[i]
<1>1. /\ call[c].pc = "calling" /\ call[c].action \in {"plan", "cancel"} /\ p.status = "active"
  BY DEF UpdateSubscription, CancelAtCycleEnd, CancelNow, Calling
<1>2. i \in Subs
  BY <1>1, TaskFacts
<1>3. p \in ProviderRows /\ Book(i)
  BY <1>2, BookFacts
<1>4. Live(i)
  BY <1>1 DEF Live
<1>5. Kept(p)
  BY <1>1, <1>3 DEF Book, Kept
<1>6. CASE UpdateSubscription(c)
  <2> DEFINE now == [p EXCEPT !.sched = call[c].plan]
  <2>1. provider' = [provider EXCEPT ![i] = now] /\ call[c].action = "plan"
    BY <1>6 DEF UpdateSubscription, Calling
  <2>2. call[c].plan \in Plans /\ ~ CancelNow(c)
    BY <2>1, TaskFacts DEF CancelNow, Calling
  <2>3. /\ now \in ProviderRows /\ now.charges = p.charges /\ now.plan = p.plan
        /\ now.status = p.status
    BY <1>3, <2>2 DEF ProviderRows
  <2>4. Kept(now)
    BY <1>5, <2>3 DEF Kept
  <2> HIDE DEF now
  <2> QED BY <1>1, <1>2, <1>4, <2>1, <2>2, <2>3, <2>4
<1>7. CASE CancelAtCycleEnd(c) /\ ~ CancelNow(c)
  <2> DEFINE now == [p EXCEPT !.cancelAtEnd = TRUE]
  <2>1. provider' = [provider EXCEPT ![i] = now]
    BY <1>7 DEF CancelAtCycleEnd
  <2>2. /\ now \in ProviderRows /\ now.charges = p.charges /\ now.plan = p.plan
        /\ now.status = p.status
    BY <1>3 DEF ProviderRows
  <2>3. Kept(now)
    BY <1>5, <2>2 DEF Kept
  <2> HIDE DEF now
  <2> QED BY <1>1, <1>2, <1>4, <1>7, <2>1, <2>2, <2>3
<1>8. CASE CancelNow(c)
  <2> DEFINE now == [p EXCEPT !.status = "cancelled"]
  <2>1. provider' = [provider EXCEPT ![i] = now]
    BY <1>8 DEF CancelNow
  <2>2. "cancelled" \in SubStatus \ {"none", "created"} /\ p.status # "none"
    BY <1>1 DEF SubStatus
  <2>3. Kept(now) /\ now.status = "cancelled" /\ now.charges = p.charges /\ now.plan = p.plan
    BY <1>2, <2>2, StatusAdvances
  <2> HIDE DEF now
  <2> QED BY <1>1, <1>2, <1>4, <2>1, <2>3
<1> QED BY <1>6, <1>7, <1>8

\* A subscription is created blank, for a start that is calling.
LEMMA CreatesBlank ==
  ASSUME Books, NEW c \in Calls, CreateSubscription(c)
  PROVE  \E i \in Subs :
           /\ provider[i].status = "none" /\ provider[i].charges = <<>>
           /\ call[c].pc = "calling" /\ call[c].action = "start"
           /\ \E now \in ProviderRows :
                /\ provider' = [provider EXCEPT ![i] = now]
                /\ now.status = "created" /\ now.charges = <<>> /\ now.plan \in Paid
           /\ Answer(c, "accepted", i) /\ UNCHANGED <<sub, events, records>>
<1>1. PICK i \in Subs :
        /\ Calling(c, "start") /\ provider[i].status = "none"
        /\ provider' = [provider EXCEPT ![i] = [NoSub EXCEPT !.status = "created",
                                                             !.plan = call[c].plan]]
        /\ Answer(c, "accepted", i) /\ UNCHANGED events
  BY DEF CreateSubscription
<1>2. call[c].pc = "calling" /\ call[c].action = "start" /\ UNCHANGED <<sub, records>>
  BY <1>1 DEF Calling
<1>3. call[c].plan \in Paid
  BY <1>2, TaskFacts
<1>4. provider[i].charges = <<>>
  BY <1>1, BookFacts DEF Book
<1> DEFINE now == [NoSub EXCEPT !.status = "created", !.plan = call[c].plan]
<1>5. <<>> \in Seq(Paid)
  BY SMT
<1>6. NoSub \in ProviderRows /\ NoSub.charges = <<>>
  BY <1>5 DEF NoSub, ProviderRows, SubStatus, Plans
<1>7. "created" \in SubStatus /\ call[c].plan \in Plans
  BY <1>3 DEF SubStatus, Plans
<1>8. now \in ProviderRows /\ now.status = "created" /\ now.charges = <<>> /\ now.plan \in Paid
  BY <1>3, <1>6, <1>7 DEF ProviderRows
<1> HIDE DEF now
<1>9. provider' = [provider EXCEPT ![i] = now]
  BY <1>1 DEF now
<1> QED BY <1>1, <1>2, <1>4, <1>8, <1>9

\* What a step may do to one subscription of the provider.
Onward(i) ==
  /\ provider'[i] \in ProviderRows /\ Book(i)'
  /\ Prolongs(provider'[i].charges, provider[i].charges)
  /\ provider[i].status # "none" => provider'[i].status # "none"
  /\ provider[i].status \in {"cancelled", "completed"} => provider'[i].status = provider[i].status
  /\ Live(i)' => Live(i) \/ \E c \in Calls : CreateSubscription(c) /\ provider[i].status = "none"
  /\ provider[i].status = "created" => \/ provider'[i].status = "created"
                                       \/ \E c \in Calls : call[c].pc = "completed" /\ call[c].made = i

\* Every step keeps each subscription or takes it onward.
LEMMA SubscriptionsGoOn ==
  ASSUME Books, [Next]_vars
  PROVE  provider' \in [Subs -> ProviderRows] /\ \A i \in Subs : Onward(i)
<1>1. provider \in [Subs -> ProviderRows]
  BY DEF Books, Types
<1>2. ASSUME NEW i \in Subs, provider'[i] = provider[i]
      PROVE  Onward(i)
  <2>1. /\ provider[i] \in ProviderRows /\ Book(i)
        /\ Prolongs(provider[i].charges, provider[i].charges)
    BY BookFacts, SelfProlongs
  <2>2. Book(i)'
    BY <1>2, <2>1 DEF Book
  <2>3. Live(i)' <=> Live(i)
    BY <1>2 DEF Live
  <2> QED BY <1>2, <2>1, <2>2, <2>3 DEF Onward
<1>3. ASSUME NEW i \in Subs, NEW now, provider' = [provider EXCEPT ![i] = now],
             Kept(now), Prolongs(now.charges, provider[i].charges), Live(i),
             provider[i].status = "created"
               => \E c \in Calls : call[c].pc = "completed" /\ call[c].made = i
      PROVE  /\ provider' \in [Subs -> ProviderRows] /\ \A j \in Subs : Onward(j)
  <2>1. now \in ProviderRows
    BY <1>3 DEF Kept
  <2>2. provider' \in [Subs -> ProviderRows] /\ provider'[i] = now
    BY <1>1, <1>3, <2>1
  <2>3. \A j \in Subs \ {i} : provider'[j] = provider[j]
    BY <1>1, <1>3
  <2>4. Book(i)'
    BY <1>3, <2>2 DEF Book, Kept
  <2>5. provider[i].status \notin {"cancelled", "completed"} /\ now.status # "none"
    BY <1>3 DEF Live, Kept
  <2>6. Onward(i)
    BY <1>3, <2>1, <2>2, <2>4, <2>5 DEF Onward
  <2> QED BY <1>2, <2>2, <2>3, <2>6
<1>4. CASE \E i \in Subs : \E type, now : Becomes(i, type, now) /\ Advance(i, type, now)
  BY <1>3, <1>4 DEF Becomes, Advance
<1>5. CASE \E c \in Calls : CreateSubscription(c)
  <2>1. PICK c \in Calls : CreateSubscription(c)
    BY <1>5
  <2>2. PICK i \in Subs, now \in ProviderRows :
          /\ provider[i].status = "none" /\ provider[i].charges = <<>>
          /\ provider' = [provider EXCEPT ![i] = now]
          /\ now.status = "created" /\ now.charges = <<>> /\ now.plan \in Paid
    BY <2>1, CreatesBlank
  <2>3. provider' \in [Subs -> ProviderRows] /\ provider'[i] = now
    BY <1>1, <2>2
  <2>4. \A j \in Subs \ {i} : provider'[j] = provider[j]
    BY <1>1, <2>2
  <2>5. Len(<<>>) <= TotalCount /\ Prolongs(<<>>, <<>>)
    BY SubscriptionBounds, SMT DEF Prolongs
  <2>6. Book(i)'
    BY <2>2, <2>3, <2>5 DEF Book
  <2>7. Onward(i)
    BY <2>1, <2>2, <2>3, <2>5, <2>6 DEF Onward
  <2> QED BY <1>2, <2>3, <2>4, <2>7
<1>6. CASE \E c \in Calls : UpdateSubscription(c) \/ CancelAtCycleEnd(c) \/ CancelNow(c)
  <2>1. PICK c \in Calls : UpdateSubscription(c) \/ CancelAtCycleEnd(c) \/ CancelNow(c)
    BY <1>6
  <2>2. PICK i \in Subs : \E now :
          /\ Live(i) /\ provider[i].status = "active"
          /\ provider' = [provider EXCEPT ![i] = now] /\ Kept(now)
          /\ now.charges = provider[i].charges
    BY <2>1, ChangeAdvances
  <2>3. Prolongs(provider[i].charges, provider[i].charges) /\ provider[i].status # "created"
    BY <2>2, BookFacts, SelfProlongs
  <2> QED BY <1>3, <2>2, <2>3
<1>7. CASE UNCHANGED <<provider, events>>
  BY <1>1, <1>2, <1>7
<1> QED BY <1>4, <1>5, <1>6, <1>7, ProviderSteps

\* What was charged once was charged, whatever happens later.
LEMMA ShownStays ==
  ASSUME NEW p, p.sub \in Subs, p.paid \in 0..TotalCount, Shown(p),
         provider[p.sub].charges \in Seq(Paid), provider'[p.sub].charges \in Seq(Paid),
         Prolongs(provider'[p.sub].charges, provider[p.sub].charges)
  PROVE  Shown(p)'
<1> DEFINE s == provider[p.sub].charges
           t == provider'[p.sub].charges
<1>1. /\ s \in Seq(Paid) /\ t \in Seq(Paid) /\ Prolongs(t, s)
      /\ p.paid <= Len(s) /\ (p.paid > 0 => s[p.paid] = p.plan)
  BY DEF Shown
<1> HIDE DEF s, t
<1>2. p.paid <= Len(t) /\ (p.paid > 0 => t[p.paid] = p.plan)
  BY <1>1, SubscriptionBounds, SMT DEF Prolongs
<1> QED BY <1>2 DEF Shown, t

\* A list that has charges is not empty.
LEMMA LastIsShown ==
  ASSUME NEW s \in Seq(Paid)
  PROVE  Len(s) \in Nat /\ (Len(s) > 0 => s # <<>>)
BY SMT

\* The same for one subscription, with what it says of the charges.
LEMMA OnwardFacts ==
  ASSUME Books, [Next]_vars, NEW i \in Subs
  PROVE  /\ Onward(i) /\ provider'[i] \in ProviderRows /\ provider'[i].charges \in Seq(Paid)
         /\ provider[i].charges \in Seq(Paid)
         /\ Prolongs(provider'[i].charges, provider[i].charges)
<1>1. Onward(i)
  BY SubscriptionsGoOn
<1>2. provider[i].charges \in Seq(Paid)
  BY BookFacts
<1> QED BY <1>1, <1>2 DEF Onward, ProviderRows

\* What an event told stays true, however late it is delivered.
LEMMA ToldStays ==
  ASSUME Books, [Next]_vars, NEW e \in EventRows, Told(e)
  PROVE  Told(e)'
<1>1. e.sub \in Subs /\ e.paid \in 0..TotalCount
  BY DEF EventRows
<1>2. Shown(e)'
  BY <1>1, OnwardFacts, ShownStays DEF Told
<1>3. Onward(e.sub)
  BY <1>1, OnwardFacts
<1> QED BY <1>2, <1>3 DEF Told, Onward

\* An event is only ever added, and tells what the provider's books say.
LEMMA EventIsTold ==
  ASSUME Books, [Next]_vars
  PROVE  \/ events' = events
         \/ \E e \in EventRows : /\ events' = Append(events, e) /\ Len(events) < MaxEvents
                                 /\ e.at <= Len(events) + 1 /\ Told(e)'
<1>1. Types
  BY DEF Books
<1>2. ASSUME NEW i \in Subs, NEW type \in EventTypes, NEW now, NEW shown, Kept(shown),
             provider'[i] = now, Emit(i, type, shown), now.status # "none",
             now.charges = shown.charges, now.plan = shown.plan,
             type = "cancelled" => now.status = "cancelled",
             type = "completed" => now.status = "completed"
      PROVE  \E e \in EventRows : /\ events' = Append(events, e) /\ Len(events) < MaxEvents
                                  /\ e.at <= Len(events) + 1 /\ Told(e)'
  <2>1. PICK e \in EventRows :
           /\ events' = Append(events, e) /\ Len(events) < MaxEvents
           /\ e.at <= Len(events) + 1 /\ e.sub = i /\ e.type = type
           /\ e.paid = Len(shown.charges) /\ e.plan = shown.plan
    <3>1. Kept(shown) /\ Emit(i, type, shown)
      BY <1>2
    <3> QED BY <1>1, <3>1, Emitted, SMT
  <2>2. shown.charges \in Seq(Paid) /\ (shown.charges # <<>> => shown.plan = shown.charges[Len(shown.charges)])
    BY <1>2 DEF Kept, ProviderRows
  <2>3. Len(shown.charges) <= Len(shown.charges) /\ (Len(shown.charges) > 0 => shown.charges # <<>>)
    <3>1. Len(shown.charges) \in Nat /\ (Len(shown.charges) > 0 => shown.charges # <<>>)
      BY <2>2, LastIsShown
    <3> QED BY <3>1, SMT
  <2>4. Shown(e)'
    <3>1. provider'[e.sub].charges = shown.charges
      BY <1>2, <2>1
    <3>2. e.paid > 0 => shown.charges[e.paid] = e.plan
      BY <2>1, <2>2, <2>3
    <3>3. e.paid <= Len(shown.charges)
      BY <2>1, <2>3
    <3> QED BY <3>1, <3>2, <3>3 DEF Shown
  <2>5. Told(e)'
    BY <1>2, <2>1, <2>4 DEF Told
  <2> QED BY <2>1, <2>5
<1>3. provider \in [Subs -> ProviderRows]
  BY <1>1 DEF Types
<1>4. CASE \E i \in Subs : \E type, now : Becomes(i, type, now) /\ Advance(i, type, now)
  <2>1. PICK i \in Subs : \E type, now : Becomes(i, type, now) /\ Advance(i, type, now)
    BY <1>4
  <2>2. PICK type, now : Becomes(i, type, now) /\ Advance(i, type, now)
    BY <2>1
  <2>3. /\ type \in EventTypes /\ Kept(now) /\ Emit(i, type, now) /\ now.status # "none"
        /\ type = "cancelled" => now.status = "cancelled"
        /\ type = "completed" => now.status = "completed"
    BY <2>2 DEF Becomes, Advance, Kept
  <2>4. provider'[i] = now
    BY <1>3, <2>2 DEF Becomes
  <2> QED BY <1>2, <2>3, <2>4
<1>5. CASE \E c \in Calls : CreateSubscription(c) \/ CancelAtCycleEnd(c)
  BY <1>5 DEF CreateSubscription, CancelAtCycleEnd
<1>6. CASE \E c \in Calls : UpdateSubscription(c) \/ CancelNow(c)
  <2>1. PICK c \in Calls : UpdateSubscription(c) \/ CancelNow(c)
    BY <1>6
  <2> DEFINE i == call[c].prev.prov
  <2>2. i \in Subs /\ provider[i].status = "active"
    BY <2>1, ChangeAdvances
  <2>3. PICK now : /\ provider' = [provider EXCEPT ![i] = now] /\ Kept(now)
                   /\ now.charges = provider[i].charges /\ now.plan = provider[i].plan
                   /\ CancelNow(c) => now.status = "cancelled"
    BY <2>1, ChangeAdvances
  <2>4. provider'[i] = now /\ now.status # "none"
    BY <1>3, <2>2, <2>3 DEF Kept
  <2>5. Kept(provider[i])
    BY <2>2, BookFacts DEF Kept, Book
  <2>6. {"updated", "cancelled"} \subseteq EventTypes
    BY DEF EventTypes
  <2>7. CASE UpdateSubscription(c)
    <3>1. Emit(i, "updated", provider[i])
      BY <2>7 DEF UpdateSubscription
    <3> HIDE DEF i
    <3> QED BY <1>2, <2>2, <2>3, <2>4, <2>5, <2>6, <3>1
  <2>8. CASE CancelNow(c)
    <3>1. Emit(i, "cancelled", provider[i])
      BY <2>8 DEF CancelNow
    <3> HIDE DEF i
    <3> QED BY <1>2, <2>2, <2>3, <2>4, <2>5, <2>6, <2>8, <3>1
  <2> QED BY <2>1, <2>7, <2>8
<1>7. CASE UNCHANGED <<provider, events>>
  BY <1>7
<1> QED BY <1>4, <1>5, <1>6, <1>7, ProviderSteps

\* Events are kept, and all of them tell what the books say.
LEMMA EventsGoOn ==
  ASSUME Books, [Next]_vars
  PROVE  /\ events' \in Seq(EventRows) /\ Len(events') <= MaxEvents
         /\ Len(events) <= Len(events')
         /\ \A k \in 1..Len(events') : events'[k].at <= k
         /\ \A k \in 1..Len(events') : Told(events[k])'
<1>1. /\ events \in Seq(EventRows) /\ Len(events) <= MaxEvents /\ Len(events) \in Nat
      /\ \A k \in 1..Len(events) : events[k].at <= k /\ Told(events[k])
  <2>1. /\ events \in Seq(EventRows) /\ Len(events) <= MaxEvents
        /\ \A k \in 1..Len(events) : events[k].at <= k /\ Told(events[k])
    BY DEF Books, Types
  <2> QED BY <2>1, SMT
<1>2. ASSUME NEW k \in 1..Len(events), events'[k] = events[k]
      PROVE  Told(events[k])'
  <2>1. events[k] \in EventRows
    BY <1>1, SMT
  <2>2. PICK e \in EventRows : e = events[k]
    BY <2>1
  <2>3. Told(e)
    BY <1>1, <2>2
  <2>4. Told(e)'
    BY <2>3, ToldStays
  <2> QED BY <1>2, <2>2, <2>4 DEF Told, Shown
<1>3. CASE events' = events
  <2>1. Len(events) <= Len(events)
    BY <1>1, SMT
  <2> QED BY <1>1, <1>2, <1>3, <2>1
<1>4. CASE \E e \in EventRows : /\ events' = Append(events, e) /\ Len(events) < MaxEvents
                                /\ e.at <= Len(events) + 1 /\ Told(e)'
  <2>1. PICK e \in EventRows : /\ events' = Append(events, e) /\ Len(events) < MaxEvents
                               /\ e.at <= Len(events) + 1 /\ Told(e)'
    BY <1>4
  <2>2. /\ events' \in Seq(EventRows) /\ Len(events') <= MaxEvents /\ Len(events') = Len(events) + 1
        /\ Len(events) <= Len(events') /\ events'[Len(events) + 1] = e
        /\ \A k \in 1..Len(events) : events'[k] = events[k]
    BY <1>1, <2>1, SubscriptionBounds, SMT
  <2>3. \A k \in 1..Len(events') : k \in 1..Len(events) \/ k = Len(events) + 1
    BY <1>1, <2>2, SMT
  <2>4. \A k \in 1..Len(events') : events'[k].at <= k
    BY <1>1, <2>1, <2>2, <2>3
  <2>5. ASSUME NEW k \in 1..Len(events') PROVE Told(events[k])'
    <3>1. CASE k \in 1..Len(events)
      BY <1>2, <2>2, <3>1
    <3>2. CASE k = Len(events) + 1
      <4>1. events'[k] = e
        BY <2>2, <3>2
      <4> QED BY <2>1, <4>1 DEF Told, Shown
    <3> QED BY <2>3, <3>1, <3>2
  <2> QED BY <2>2, <2>4, <2>5
<1> QED BY <1>3, <1>4, EventIsTold

-----------------------------------------------------------------------------
(* What a step does to a command.                                          *)

Continues(c) ==
  /\ call[c].pc \in Answering /\ call'[c] \in Tasks
  /\ call'[c].action = call[c].action /\ call'[c].plan = call[c].plan
  /\ call'[c].prev = call[c].prev

\* The command learns what became of its call.
Replies(c) ==
  /\ Continues(c) /\ sub' = sub /\ records' = records
  /\ \/ call'[c].pc = "unknown" /\ call'[c].made = call[c].made
     \/ call'[c].pc = "refused" /\ call'[c].made = call[c].made /\ call[c].pc = "calling"
     \/ /\ call'[c].pc = "accepted" /\ call[c].pc = "calling" /\ call[c].action = "start"
        /\ call'[c].made \in Subs /\ provider[call'[c].made].status = "none"
        /\ provider'[call'[c].made].status = "created"
     \/ /\ call'[c].pc = "accepted" /\ call[c].pc = "calling"
        /\ call[c].action \in {"plan", "cancel"} /\ call'[c].made = call[c].prev.prov
     \/ /\ call'[c].pc = "ended" /\ call[c].pc = "calling" /\ call[c].action = "cancel"
        /\ call'[c].made = call[c].prev.prov /\ provider'[call'[c].made].status = "cancelled"

\* The command is over.
Leaves(c) ==
  /\ call[c].pc \in Answering
  /\ \E q \in {"initializing", "completed", "rejected", "reconciliation_required"} :
       \E m \in {0, call[c].made} :
         call'[c] = [pc |-> q, action |-> "none", plan |-> NoPlan, prev |-> FreeRow, made |-> m]
  /\ provider' = provider

\* A command that has left remembers no row.
LEMMA LeftFacts ==
  ASSUME NEW c \in Calls, Leaves(c)
  PROVE  /\ call'[c].pc \notin Answering /\ call'[c].action = "none"
         /\ call'[c].prev = FreeRow /\ call'[c].made \in {0, call[c].made}
<1>1. PICK q \in {"initializing", "completed", "rejected", "reconciliation_required"},
           m \in {0, call[c].made} :
        call'[c] = [pc |-> q, action |-> "none", plan |-> NoPlan, prev |-> FreeRow, made |-> m]
  BY DEF Leaves
<1>2. call'[c].pc = q /\ call'[c].action = "none" /\ call'[c].prev = FreeRow /\ call'[c].made = m
  BY <1>1, SMT
<1>3. q \notin Answering
  BY DEF Answering
<1> QED BY <1>2, <1>3

\* A call that gets no answer, or a refusal, changes nothing else it remembers.
LEMMA PcChanges ==
  ASSUME Books, NEW c \in Calls, call[c].pc \in Answering,
         NEW q \in {"unknown", "refused"},
         call' = [call EXCEPT ![c] = [@ EXCEPT !.pc = q]]
  PROVE  /\ call' \in [Calls -> Tasks] /\ \A d \in Calls \ {c} : call'[d] = call[d]
         /\ Continues(c) /\ call'[c].pc = q /\ call'[c].made = call[c].made
<1>1. call \in [Calls -> Tasks] /\ call[c] \in Tasks
  BY DEF Books, Types
<1> DEFINE t == [call[c] EXCEPT !.pc = q]
<1>2. q \in Answering
  BY DEF Answering
<1>3. /\ t \in Tasks /\ t.pc = q /\ t.action = call[c].action /\ t.plan = call[c].plan
      /\ t.prev = call[c].prev /\ t.made = call[c].made
  BY <1>1, <1>2 DEF Tasks
<1>4. call' = [call EXCEPT ![c] = t]
  OBVIOUS
<1> HIDE DEF t
<1>5. call' \in [Calls -> Tasks] /\ call'[c] = t /\ \A d \in Calls \ {c} : call'[d] = call[d]
  BY <1>1, <1>3, <1>4
<1> QED BY <1>3, <1>5 DEF Continues

\* An answer arrives with the subscription it is about, or is lost.
LEMMA AnswerChanges ==
  ASSUME Books, NEW c \in Calls, call[c].pc \in Answering, NEW i \in Subs,
         NEW q \in {"accepted", "ended"}, Answer(c, q, i)
  PROVE  /\ call' \in [Calls -> Tasks] /\ \A d \in Calls \ {c} : call'[d] = call[d]
         /\ Continues(c)
         /\ \/ call'[c].pc = q /\ call'[c].made = i
            \/ call'[c].pc = "unknown" /\ call'[c].made = call[c].made
<1>1. call \in [Calls -> Tasks] /\ call[c] \in Tasks
  BY DEF Books, Types
<1>2. CASE call' = [call EXCEPT ![c] = [@ EXCEPT !.pc = "unknown"]]
  BY <1>2, PcChanges
<1>3. CASE call' = [call EXCEPT ![c] = [@ EXCEPT !.pc = q, !.made = i]]
  <2> DEFINE t == [call[c] EXCEPT !.pc = q, !.made = i]
  <2>1. q \in Answering /\ i \in 0..MaxSubs
    <3>1. i \in 0..MaxSubs
      BY SubscriptionBounds, SMT DEF Subs
    <3> QED BY <3>1 DEF Answering
  <2>2. /\ t \in Tasks /\ t.pc = q /\ t.action = call[c].action /\ t.plan = call[c].plan
        /\ t.prev = call[c].prev /\ t.made = i
    BY <1>1, <2>1 DEF Tasks
  <2>3. call' = [call EXCEPT ![c] = t]
    BY <1>3
  <2> HIDE DEF t
  <2>4. call' \in [Calls -> Tasks] /\ call'[c] = t /\ \A d \in Calls \ {c} : call'[d] = call[d]
    BY <1>1, <2>2, <2>3
  <2> QED BY <2>2, <2>4 DEF Continues
<1> QED BY <1>2, <1>3 DEF Answer

\* A provider call answers, or does not.
LEMMA CallReplies ==
  ASSUME Books, NEW c \in Calls, CallsProvider(c)
  PROVE  /\ call' \in [Calls -> Tasks] /\ \A d \in Calls \ {c} : call'[d] = call[d]
         /\ Replies(c)
<1>1. /\ sub' = sub /\ records' = records /\ call[c].pc \in Answering
  BY DEF CallsProvider, CreateSubscription, UpdateSubscription, CancelAtCycleEnd, CancelNow,
         ProviderRejects, NoAnswer, Calling, Answering
<1>2. provider \in [Subs -> ProviderRows]
  BY DEF Books, Types
<1>3. CASE CreateSubscription(c)
  <2>1. PICK i \in Subs :
           /\ provider[i].status = "none" /\ call[c].pc = "calling" /\ call[c].action = "start"
           /\ \E now \in ProviderRows : /\ provider' = [provider EXCEPT ![i] = now]
                                        /\ now.status = "created"
           /\ Answer(c, "accepted", i)
    BY <1>3, CreatesBlank
  <2>2. provider'[i].status = "created"
    BY <1>2, <2>1
  <2>3. /\ call' \in [Calls -> Tasks] /\ \A d \in Calls \ {c} : call'[d] = call[d]
        /\ Continues(c)
        /\ \/ call'[c].pc = "accepted" /\ call'[c].made = i
           \/ call'[c].pc = "unknown" /\ call'[c].made = call[c].made
    BY <1>1, <2>1, AnswerChanges
  <2> QED BY <1>1, <2>1, <2>2, <2>3 DEF Replies
<1>4. CASE UpdateSubscription(c) \/ CancelAtCycleEnd(c) \/ CancelNow(c)
  <2> DEFINE i == call[c].prev.prov
  <2>1. /\ i \in Subs /\ call[c].pc = "calling" /\ call[c].action \in {"plan", "cancel"}
        /\ \E now : /\ provider' = [provider EXCEPT ![i] = now]
                    /\ CancelNow(c) => now.status = "cancelled"
    BY <1>4, ChangeAdvances
  <2>2. CancelNow(c) => provider'[i].status = "cancelled" /\ call[c].action = "cancel"
    BY <1>2, <2>1 DEF CancelNow, Calling
  <2>3. PICK q \in {"accepted", "ended"} : Answer(c, q, i) /\ (q = "ended" => CancelNow(c))
    BY <1>4 DEF UpdateSubscription, CancelAtCycleEnd, CancelNow
  <2>4. /\ call' \in [Calls -> Tasks] /\ \A d \in Calls \ {c} : call'[d] = call[d]
        /\ Continues(c)
        /\ \/ call'[c].pc = q /\ call'[c].made = i
           \/ call'[c].pc = "unknown" /\ call'[c].made = call[c].made
    BY ZenonT(60), <1>1, <2>1, <2>3, AnswerChanges
  <2> QED BY <1>1, <2>1, <2>2, <2>3, <2>4 DEF Replies
<1>5. CASE ProviderRejects(c)
  <2>1. call[c].pc = "calling" /\ call' = [call EXCEPT ![c] = [@ EXCEPT !.pc = "refused"]]
    BY <1>5 DEF ProviderRejects
  <2>2. /\ call' \in [Calls -> Tasks] /\ \A d \in Calls \ {c} : call'[d] = call[d]
        /\ Continues(c) /\ call'[c].pc = "refused" /\ call'[c].made = call[c].made
    BY <1>1, <2>1, PcChanges
  <2> QED BY <1>1, <2>1, <2>2 DEF Replies
<1>6. CASE NoAnswer(c)
  <2>1. call' = [call EXCEPT ![c] = [@ EXCEPT !.pc = "unknown"]]
    BY <1>6 DEF NoAnswer
  <2>2. /\ call' \in [Calls -> Tasks] /\ \A d \in Calls \ {c} : call'[d] = call[d]
        /\ Continues(c) /\ call'[c].pc = "unknown" /\ call'[c].made = call[c].made
    BY <1>1, <2>1, PcChanges
  <2> QED BY <1>1, <2>2 DEF Replies
<1> QED BY <1>3, <1>4, <1>5, <1>6 DEF CallsProvider

\* A command that records its outcome or dies leaves.
LEMMA CallLeaves ==
  ASSUME Books, NEW c \in Calls, Record(c) \/ Crash(c)
  PROVE  /\ call' \in [Calls -> Tasks] /\ \A d \in Calls \ {c} : call'[d] = call[d]
         /\ Leaves(c)
<1> DEFINE Left(q, m) == [pc |-> q, action |-> "none", plan |-> NoPlan, prev |-> FreeRow, made |-> m]
           Over == {"initializing", "completed", "rejected", "reconciliation_required"}
<1>1. call \in [Calls -> Tasks] /\ call[c].made \in 0..MaxSubs
  BY TaskFacts DEF Books, Types
<1>2. ASSUME NEW q \in Over, NEW m \in {0, call[c].made}
      PROVE  Left(q, m) \in Tasks
  <2>1. m \in 0..MaxSubs
    BY <1>1, SubscriptionBounds, SMT
  <2> QED BY <2>1, FreeRowIsRow DEF Tasks, Plans
<1>3. \A q : [NoCall EXCEPT !.pc = q] = Left(q, 0)
  BY SMT DEF NoCall
<1>4. ASSUME NEW q, NEW m PROVE [NoCall EXCEPT !.pc = q, !.made = m] = Left(q, m)
  <2>1. [NoCall EXCEPT !.pc = q, !.made = m] = [[NoCall EXCEPT !.pc = q] EXCEPT !.made = m]
    OBVIOUS
  <2>2. [Left(q, 0) EXCEPT !.made = m] = Left(q, m)
    BY SMT
  <2> QED BY <1>3, <2>1, <2>2
<1>5. CASE Crash(c)
  <2>1. call[c].pc \in Answering /\ call' = [call EXCEPT ![c] = Left("initializing", 0)] /\ provider' = provider
    BY <1>3, <1>5 DEF Crash, Answering
  <2>2. Left("initializing", 0) \in Tasks
    BY <1>2
  <2>3. /\ call' \in [Calls -> Tasks] /\ \A d \in Calls \ {c} : call'[d] = call[d]
        /\ call'[c] = Left("initializing", 0)
    BY <1>1, <2>1, <2>2
  <2> QED BY <2>1, <2>3 DEF Leaves
<1>6. CASE Record(c)
  <2>1. call[c].pc \in Answering /\ \E q \in Over : Ends(c, q)
    BY <1>6 DEF Record, FinishStart, CompleteCommand, FinalizeImmediateCancellation,
                MarkCommandUnknown, RejectProviderMutation, Answering
  <2>2. PICK q \in Over : Ends(c, q)
    BY <2>1
  <2>3. call' = [call EXCEPT ![c] = Left(q, call[c].made)] /\ provider' = provider
    BY <1>4, <2>2 DEF Ends
  <2>4. Left(q, call[c].made) \in Tasks
    BY <1>2
  <2>5. /\ call' \in [Calls -> Tasks] /\ \A d \in Calls \ {c} : call'[d] = call[d]
        /\ call'[c] = Left(q, call[c].made)
    BY <1>1, <2>3, <2>4
  <2> QED BY <2>1, <2>3, <2>5 DEF Leaves
<1> QED BY <1>5, <1>6

\* The command begins, with the row it read and the row it saves.
Begins(c) ==
  /\ call[c].pc = "none" /\ call'[c] \in Tasks /\ call'[c].pc = "calling"
  /\ call'[c].prev = sub /\ call'[c].made = 0 /\ UNCHANGED <<provider, records, late>>
  /\ \/ /\ call'[c].action = "start" /\ call'[c].plan \in Paid
        /\ sub.mode = "renewable" => sub.status \in Terminal
        /\ sub' = StartRow(sub, call'[c].plan)
     \/ /\ call'[c].action \in {"plan", "cancel"}
        /\ call'[c].action = "plan" => call'[c].plan \in Paid
        /\ Changeable /\ sub' \in Rows /\ Same(sub', sub)
        /\ sub'.status \in {"renewal_pending", "cancellation_scheduled"}

\* A command that has saved its intention begins its call.
LEMMA CallBegins ==
  ASSUME Books, NEW c \in Calls, Request(c)
  PROVE  /\ call' \in [Calls -> Tasks] /\ \A d \in Calls \ {c} : call'[d] = call[d]
         /\ Begins(c)
<1>1. call \in [Calls -> Tasks] /\ sub \in Rows
  BY DEF Books, Types
<1>2. ASSUME NEW action \in {"start", "plan", "cancel"}, NEW plan \in Plans, NEW row,
             Begin(c, action, plan, row)
      PROVE  /\ call' \in [Calls -> Tasks] /\ \A d \in Calls \ {c} : call'[d] = call[d]
             /\ call[c].pc = "none" /\ call'[c] \in Tasks /\ call'[c].pc = "calling"
             /\ call'[c].action = action /\ call'[c].plan = plan
             /\ call'[c].prev = sub /\ call'[c].made = 0 /\ UNCHANGED <<provider, records, late>>
             /\ sub' = row
  <2> DEFINE t == [pc |-> "calling", action |-> action, plan |-> plan, prev |-> sub, made |-> 0]
  <2>1. call[c].pc = "none" /\ call' = [call EXCEPT ![c] = t] /\ sub' = row /\ UNCHANGED <<provider, records, late>>
    BY <1>2 DEF Begin
  <2>2. 0 \in 0..MaxSubs
    BY SubscriptionBounds, SMT
  <2>3. /\ t \in Tasks /\ t.pc = "calling" /\ t.action = action /\ t.plan = plan
        /\ t.prev = sub /\ t.made = 0
    BY <1>1, <2>2 DEF Tasks, Answering
  <2> HIDE DEF t
  <2>4. call' \in [Calls -> Tasks] /\ call'[c] = t /\ \A d \in Calls \ {c} : call'[d] = call[d]
    BY <1>1, <2>1, <2>3
  <2> QED BY <2>1, <2>3, <2>4
<1>3. NoPlan \in Plans /\ Paid \subseteq Plans
  BY DEF Plans
<1>4. CASE \E p \in Paid : StartRenewable(c, p)
  <2>1. PICK p \in Paid : StartRenewable(c, p)
    BY <1>4
  <2>2. Begin(c, "start", p, StartRow(sub, p)) /\ (sub.mode = "renewable" => sub.status \in Terminal)
    BY <2>1 DEF StartRenewable
  <2> QED BY <1>2, <1>3, <2>2 DEF Begins
<1>5. CASE \E p \in Paid : SchedulePlanChange(c, p)
  <2>1. PICK p \in Paid : SchedulePlanChange(c, p)
    BY <1>5
  <2>2. Begin(c, "plan", p, PlanRow(sub, p)) /\ Changeable
    BY <2>1 DEF SchedulePlanChange
  <2>3. LET r == PlanRow(sub, p)
        IN  r \in Rows /\ r.status = "renewal_pending" /\ Same(r, sub)
    BY <1>1, PlanRowIsRow
  <2> QED BY <1>2, <1>3, <2>2, <2>3 DEF Begins
<1>6. CASE ScheduleCancellation(c)
  <2>1. Begin(c, "cancel", NoPlan, CancelRow(sub)) /\ Changeable
    BY <1>6 DEF ScheduleCancellation
  <2>2. LET r == CancelRow(sub)
        IN  r \in Rows /\ r.status = "cancellation_scheduled" /\ Same(r, sub)
    BY <1>1, CancelRowIsRow
  <2> QED BY <1>2, <1>3, <2>1, <2>2 DEF Begins
<1> QED BY <1>4, <1>5, <1>6 DEF Request

\* At most one command takes part in a step.
LEMMA CallSteps ==
  ASSUME Books, [Next]_vars
  PROVE  /\ call' \in [Calls -> Tasks]
         /\ \/ call' = call
            \/ \E c \in Calls : /\ \A d \in Calls \ {c} : call'[d] = call[d]
                                /\ \/ Request(c) /\ Begins(c)
                                   \/ CallsProvider(c) /\ Replies(c)
                                   \/ (Record(c) \/ Crash(c)) /\ Leaves(c)
<1>1. call \in [Calls -> Tasks]
  BY DEF Books, Types
<1>2. CASE Provider
  BY <1>1, <1>2, ProviderAdvances DEF Provider, Becomes
<1>3. ASSUME NEW c \in Calls, Request(c) \/ CallsProvider(c) \/ Record(c) \/ Crash(c)
      PROVE  /\ call' \in [Calls -> Tasks]
             /\ \A d \in Calls \ {c} : call'[d] = call[d]
             /\ \/ Request(c) /\ Begins(c)
                \/ CallsProvider(c) /\ Replies(c)
                \/ (Record(c) \/ Crash(c)) /\ Leaves(c)
  BY <1>3, CallBegins, CallReplies, CallLeaves
<1>4. CASE \E id \in 1..Len(events) : HandleWebhook(id)
  BY <1>1, <1>4 DEF HandleWebhook, IgnoreEvent, DoubtEvent, ApplyEvent, Receive
<1>5. CASE RunMaintenance
  BY <1>1, <1>5 DEF RunMaintenance, FetchSubscription, ReconcileCancelled, ReconcilePaid,
              ReconcileScheduled, StaysInDoubt, Reconcile
<1>6. CASE SuspendExpiredGrace \/ UNCHANGED vars
  BY <1>1, <1>6 DEF SuspendExpiredGrace, vars
<1> QED BY <1>2, <1>3, <1>4, <1>5, <1>6 DEF Next

\* The same for one command.
LEMMA CallCases ==
  ASSUME Books, [Next]_vars, NEW c \in Calls
  PROVE  \/ call'[c] = call[c]
         \/ Begins(c) /\ \A d \in Calls \ {c} : call'[d] = call[d]
         \/ Replies(c) /\ CallsProvider(c) /\ \A d \in Calls \ {c} : call'[d] = call[d]
         \/ Leaves(c)
BY CallSteps

\* The row, and the subscription it names.
LEMMA RowFacts ==
  ASSUME Books
  PROVE  /\ sub \in Rows /\ Shape(sub) /\ sub.prov \in 0..MaxSubs
         /\ sub.prov # 0 => sub.prov \in Subs
<1>1. sub \in Rows /\ Shape(sub)
  BY DEF Books, Types
<1>2. sub.prov \in 0..MaxSubs
  BY <1>1, RowFields
<1>3. sub.prov # 0 => sub.prov \in Subs
  BY <1>2, SubscriptionBounds, SMT DEF Subs
<1> QED BY <1>1, <1>2, <1>3

\* A subscription once created stays created.
LEMMA NamesStay ==
  ASSUME Books, [Next]_vars, NEW n \in 0..MaxSubs, Names(n)
  PROVE  Names(n)'
<1>1. n # 0 => n \in Subs
  BY SubscriptionBounds, SMT DEF Subs
<1>2. CASE n # 0
  <2>1. Onward(n)
    BY <1>1, <1>2, SubscriptionsGoOn
  <2> QED BY <2>1 DEF Names, Onward
<1> QED BY <1>2 DEF Names

\* Every step keeps what the commands remember in order.
LEMMA TasksStand ==
  ASSUME Books, [Next]_vars
  PROVE  call' \in [Calls -> Tasks] /\ \A c \in Calls : Shape(call[c].prev)' /\ Task(c)'
<1>1. call' \in [Calls -> Tasks]
  BY CallSteps
<1>2. ASSUME NEW c \in Calls PROVE Shape(call[c].prev)' /\ Task(c)'
  <2> DEFINE t == call[c]
             u == call'[c]
  <2>1. /\ t \in Tasks /\ t.prev \in Rows /\ Shape(t.prev) /\ Task(c) /\ t.made \in 0..MaxSubs
        /\ t.prev.prov \in 0..MaxSubs /\ (t.made # 0 => t.made \in Subs)
    BY TaskFacts, RowFields
  <2>2. Names(t.prev.prov) /\ Names(t.made)
    BY <2>1 DEF Task
  <2>3. \A n \in 0..MaxSubs : Names(n) => Names(n)'
    BY NamesStay
  <2>4. CASE u = t
    <3>1. Names(call[c].prev.prov)' /\ Names(call[c].made)'
      BY <2>1, <2>2, <2>3, <2>4 DEF Names
    <3>2. t.pc = "ended" => provider'[t.made].status = "cancelled"
      <4>1. SUFFICES ASSUME t.pc = "ended" PROVE provider'[t.made].status = "cancelled"
        OBVIOUS
      <4>2. t.made \in Subs /\ provider[t.made].status = "cancelled"
        BY <2>1, <4>1 DEF Task
      <4>3. Onward(t.made)
        BY <4>2, SubscriptionsGoOn
      <4> QED BY <4>2, <4>3 DEF Onward
    <3> QED BY <2>1, <2>4, <3>1, <3>2 DEF Task, Shape
  <2>5. CASE Begins(c)
    <3>1. sub \in Rows /\ Shape(sub) /\ Names(sub.prov) /\ sub.prov \in 0..MaxSubs
      BY RowFacts DEF Books
    <3>2. u.prev = sub /\ u.made = 0 /\ provider' = provider /\ u.pc = "calling"
      BY <2>5 DEF Begins
    <3>3. Names(call[c].prev.prov)' /\ Names(call[c].made)' /\ Shape(call[c].prev)'
      BY <3>1, <3>2 DEF Names, Shape
    <3>4. /\ u.action = "start" => u.plan \in Paid
          /\ u.action # "none"
          /\ u.action \in {"plan", "cancel"} => Changeable
          /\ u.action = "plan" => u.plan \in Paid
      BY <2>5 DEF Begins
    <3> QED BY <3>2, <3>3, <3>4 DEF Task, Changeable, Answering
  <2>6. CASE Replies(c)
    <3>1. /\ u.action = t.action /\ u.plan = t.plan /\ u.prev = t.prev /\ t.pc \in Answering
          /\ u.pc \in {"unknown", "refused", "accepted", "ended"}
          /\ u.pc \in {"unknown", "refused"} => u.made = t.made
          /\ u.pc = "ended" => t.action = "cancel" /\ provider'[u.made].status = "cancelled"
          /\ u.pc \in {"accepted", "ended"} =>
                \/ t.action \in {"plan", "cancel"} /\ u.made = t.prev.prov
                \/ u.made \in Subs /\ provider'[u.made].status = "created"
      BY <2>6 DEF Replies, Continues
    <3>2. t.action \in {"plan", "cancel"} => t.prev.prov # 0
      BY <2>1 DEF Task
    <3>3. 0 \notin Subs
      BY SMT DEF Subs
    <3>4. u.pc \in {"accepted", "ended"} => u.made # 0
      BY <3>1, <3>2, <3>3
    <3>5. Names(call[c].prev.prov)' /\ Shape(call[c].prev)'
      BY <2>1, <2>2, <2>3, <3>1 DEF Names, Shape
    <3>6. Names(call[c].made)'
      <4>1. CASE u.made = t.made
        BY <2>1, <2>2, <2>3, <4>1 DEF Names
      <4>2. CASE u.made = t.prev.prov
        BY <2>1, <2>2, <2>3, <4>2 DEF Names
      <4>3. CASE provider'[u.made].status = "created"
        BY <4>3 DEF Names
      <4> QED BY <3>1, <4>1, <4>2, <4>3
    <3>7. u.pc \in Answering /\ (t.action # "none")
      BY <2>1, <3>1 DEF Task, Answering
    <3>8. u.pc = "ended" => provider'[u.made].status = "cancelled" /\ u.action = "cancel"
      BY <3>1
    <3> QED BY <2>1, <3>1, <3>4, <3>5, <3>6, <3>7, <3>8 DEF Task
  <2>7. CASE Leaves(c)
    <3>1. u.pc \notin Answering /\ u.action = "none" /\ u.prev = FreeRow /\ u.made \in {0, t.made}
      BY <2>7, LeftFacts
    <3>2. Shape(FreeRow) /\ FreeRow.prov = 0
      BY FreeRowIsRow DEF FreeRow
    <3>3. Names(call[c].prev.prov)' /\ Shape(call[c].prev)'
      BY <3>1, <3>2 DEF Names, Shape
    <3>4. Names(call[c].made)'
      BY <2>1, <2>2, <2>3, <3>1 DEF Names
    <3>5. u.pc # "accepted" /\ u.pc # "ended"
      BY <3>1 DEF Answering
    <3> QED BY <3>1, <3>3, <3>4, <3>5 DEF Task
  <2> QED BY <2>4, <2>5, <2>6, <2>7, CallCases
<1> QED BY <1>1, <1>2

-----------------------------------------------------------------------------
(* What a step does to the row.                                            *)

\* The row stands for the same charge as before.  It ends only when the
\* provider has ended the subscription or a late cancellation took it for
\* another one.
RowKept ==
  /\ sub' \in Rows /\ Shape(sub)' /\ records' = records
  /\ sub'.mode = sub.mode /\ sub'.prov = sub.prov
  /\ sub'.plan = sub.plan /\ sub'.paid = sub.paid
  /\ Waits(sub) => Waits(sub)'
  /\ sub'.status \in Terminal =>
       \/ sub.status \in Terminal \/ "ended" \in late'
       \/ sub.prov \in Subs /\ provider'[sub.prov].status \in {"cancelled", "completed"}

\* A charge is observed and billed.
RowPaid ==
  /\ UNCHANGED <<call, provider>> /\ sub' \in Rows /\ sub.prov \in Subs
  /\ sub'.prov = sub.prov /\ sub'.mode = "renewable" /\ sub'.status = "active"
  /\ \E p, origin :
       /\ Shown(p) /\ p.sub = sub.prov /\ p.plan \in Paid
       /\ p.paid \in 0..TotalCount /\ p.paid > sub.paid
       /\ sub'.plan = p.plan /\ sub'.paid = p.paid /\ origin \in {"event", "reconciliation"}
       /\ records' = records \cup {<<p.sub, p.paid, origin>>}

\* A save that changes only the status keeps what the row stands for.
LEMMA SavedKept ==
  ASSUME Books, sub' \in Rows, Same(sub', sub), records' = records,
         \/ sub'.status = "reconciliation_required" \/ sub.prov \in Subs \/ sub'.status = sub.status
         \/ sub.status \notin {"pending_payment", "reconciliation_required"},
         sub'.status \in Terminal =>
           \/ sub.status \in Terminal \/ "ended" \in late'
           \/ sub.prov \in Subs /\ provider'[sub.prov].status \in {"cancelled", "completed"}
  PROVE  RowKept
<1>1. Shape(sub)'
  BY RowFacts DEF Same, Shape
<1>2. Waits(sub) => Waits(sub)'
  <2>1. 0 \notin Subs
    BY SMT DEF Subs
  <2> QED BY <2>1 DEF Waits, Same
<1> QED BY <1>1, <1>2 DEF RowKept, Same

\* A step that leaves the row and the records alone keeps them.
LEMMA RowUnchanged == ASSUME Books, sub' = sub, records' = records PROVE RowKept
BY RowFacts, SavedKept DEF Same

\* The fields of an event, and what it tells.
LEMMA EventFacts ==
  ASSUME Books, NEW id \in 1..Len(events)
  PROVE  /\ events[id] \in EventRows /\ Told(events[id])
         /\ events[id].sub \in Subs /\ events[id].at \in 0..MaxEvents
         /\ events[id].plan \in Paid /\ events[id].paid \in 0..TotalCount
<1>1. /\ events \in Seq(EventRows) /\ Len(events) <= MaxEvents
      /\ events[id].at <= id /\ Told(events[id])
  BY DEF Books, Types
<1>2. events[id] \in EventRows
  BY <1>1, SMT
<1>3. /\ events[id].sub \in Subs /\ events[id].at \in Nat
      /\ events[id].plan \in Paid /\ events[id].paid \in 0..TotalCount
  BY <1>2 DEF EventRows
<1>4. events[id].at \in 0..MaxEvents
  BY <1>1, <1>3, SubscriptionBounds, SMT
<1> QED BY <1>1, <1>2, <1>3, <1>4

\* An event keeps the row, or pays it on (HandleWebhook).
LEMMA WebhookRow ==
  ASSUME Books, NEW id \in 1..Len(events), HandleWebhook(id)
  PROVE  RowKept \/ RowPaid
<1> DEFINE e == events[id]
<1>1. sub \in Rows /\ UNCHANGED <<call, provider>>
  BY RowFacts DEF HandleWebhook, IgnoreEvent, DoubtEvent, ApplyEvent, Receive
<1>2. CASE IgnoreEvent(id)
  BY <1>2, RowUnchanged DEF IgnoreEvent
<1>3. CASE DoubtEvent(id)
  <2>1. sub' = [sub EXCEPT !.status = "reconciliation_required"] /\ records' = records
    BY <1>3 DEF DoubtEvent
  <2>2. "reconciliation_required" \in Status \ Terminal
    BY DEF Status, Terminal
  <2>3. sub' \in Rows /\ sub'.status = "reconciliation_required" /\ Same(sub', sub)
    BY <1>1, <2>1, <2>2, StatusSaved
  <2> QED BY <2>1, <2>2, <2>3, SavedKept
<1>4. CASE ApplyEvent(id)
  <2>1. /\ e.sub = sub.prov /\ ~ TerminalIgnores(e) /\ (e.type = "charged" => Chargeable(e))
        /\ sub' = EventRow(e)
        /\ records' = IF e.type = "charged"
                        THEN records \cup {<<e.sub, e.paid, "event">>} ELSE records
    BY <1>4 DEF ApplyEvent
  <2>2. /\ e \in EventRows /\ Told(e) /\ e.sub \in Subs /\ e.at \in 0..MaxEvents
        /\ e.plan \in Paid /\ e.paid \in 0..TotalCount
    BY EventFacts
  <2>3. /\ sub' \in Rows /\ sub'.prov = sub.prov
        /\ e.type = "charged" => /\ sub'.status = "active" /\ sub'.mode = "renewable"
                                 /\ sub'.plan = e.plan /\ sub'.paid = e.paid
        /\ e.type # "charged" => /\ sub'.mode = sub.mode
                                 /\ sub'.plan = sub.plan /\ sub'.paid = sub.paid
        /\ sub'.status \in Terminal => \/ sub.status \in Terminal
                                       \/ e.type \in {"cancelled", "completed"}
    BY <1>1, <2>1, <2>2, EventRowIsRow
  <2>4. CASE e.type = "charged"
    <3>1. e.paid > sub.paid
      BY <2>1, <2>4 DEF Chargeable
    <3>2. Shown(e)
      BY <2>2 DEF Told
    <3> HIDE DEF e
    <3>3. records' = records \cup {<<e.sub, e.paid, "event">>}
      BY <2>1, <2>4
    <3> QED BY <1>1, <2>1, <2>2, <2>3, <2>4, <3>1, <3>2, <3>3 DEF RowPaid
  <2>5. CASE e.type # "charged"
    <3>1. records' = records
      BY <2>1, <2>5
    <3>2. 0 \notin Subs
      BY SMT DEF Subs
    <3>3. sub.prov \in Subs /\ sub'.prov # 0
      BY <2>1, <2>2, <2>3, <3>2
    <3>4. Shape(sub)' /\ Waits(sub)'
      BY <3>3 DEF Shape, Waits
    <3>5. e.type \in {"cancelled", "completed"} => provider'[sub.prov].status \in {"cancelled", "completed"}
      BY <1>1, <2>1, <2>2 DEF Told
    <3> QED BY <2>3, <2>5, <3>1, <3>3, <3>4, <3>5 DEF RowKept
  <2> QED BY <2>4, <2>5
<1> QED BY <1>2, <1>3, <1>4 DEF HandleWebhook

\* The fields of a fetched subscription, and what it shows.
LEMMA FetchFacts ==
  ASSUME Books, fetched # NoFetch
  PROVE  /\ fetched \in Fetches /\ fetched.sub \in Subs /\ fetched.plan \in Paid
         /\ fetched.paid \in 0..TotalCount /\ Shown(fetched)
         /\ fetched.status = "cancelled" => provider[fetched.sub].status = "cancelled"
<1>1. fetched \in Fetches /\ Observed(fetched)
  BY DEF Books, Types
<1> QED BY <1>1 DEF Fetches, Observed

\* The maintenance keeps the row, or pays it on (reconcileProviderState).
LEMMA MaintenanceRow ==
  ASSUME Books, RunMaintenance
  PROVE  RowKept \/ RowPaid
<1>1. sub \in Rows
  BY RowFacts
<1>2. UNCHANGED <<call, provider>>
  BY DEF RunMaintenance, FetchSubscription, ReconcileCancelled, ReconcilePaid,
         ReconcileScheduled, StaysInDoubt, Reconcile
<1>3. CASE FetchSubscription
  BY <1>3, RowUnchanged DEF FetchSubscription
<1>4. ASSUME NEW row, NEW billed, fetched # NoFetch, Verified, Reconcile(row, billed)
      PROVE  /\ sub' = row /\ records' = records \cup billed
             /\ sub.prov \in Subs /\ fetched.sub = sub.prov
  BY <1>4, FetchFacts DEF Verified, Reconcile
<1>5. records \cup {} = records
  OBVIOUS
<1>6. CASE ReconcileCancelled
  <2>1. /\ fetched # NoFetch /\ Observes("cancelled")
        /\ Reconcile([sub EXCEPT !.status = "cancelled", !.cancelAtEnd = FALSE], {})
    BY <1>6 DEF ReconcileCancelled
  <2>2. Verified /\ fetched.status = "cancelled"
    BY <2>1 DEF Observes
  <2>3. /\ sub' = [sub EXCEPT !.status = "cancelled", !.cancelAtEnd = FALSE]
        /\ records' = records /\ sub.prov \in Subs /\ fetched.sub = sub.prov
    BY <1>4, <1>5, <2>1, <2>2
  <2>4. "cancelled" \in Status
    BY DEF Status
  <2>5. sub' \in Rows /\ sub'.status = "cancelled" /\ Same(sub', sub)
    BY <1>1, <2>3, <2>4, EndSaved
  <2>6. provider'[sub.prov].status = "cancelled"
    BY <1>2, <2>1, <2>2, <2>3, FetchFacts
  <2> QED BY <2>3, <2>5, <2>6, SavedKept
<1>7. CASE ReconcilePaid
  <2>1. /\ fetched # NoFetch /\ Observes("paid")
        /\ Reconcile(PaidRow(fetched), {<<fetched.sub, fetched.paid, "reconciliation">>})
    BY <1>7 DEF ReconcilePaid
  <2>2. Verified /\ fetched.paid > sub.paid
    BY <2>1 DEF Observes
  <2>3. /\ sub' = PaidRow(fetched) /\ sub.prov \in Subs /\ fetched.sub = sub.prov
        /\ records' = records \cup {<<fetched.sub, fetched.paid, "reconciliation">>}
    BY <1>4, <2>1, <2>2
  <2>4. fetched.plan \in Paid /\ fetched.paid \in 0..TotalCount /\ Shown(fetched)
    BY <2>1, FetchFacts
  <2>5. /\ sub' \in Rows /\ sub'.status = "active" /\ sub'.mode = "renewable"
        /\ sub'.prov = sub.prov /\ sub'.plan = fetched.plan /\ sub'.paid = fetched.paid
    BY <1>1, <2>3, <2>4, PaidRowIsRow
  <2> QED BY <1>2, <2>2, <2>3, <2>4, <2>5 DEF RowPaid
<1>8. CASE ReconcileScheduled
  <2>1. PICK s \in {"renewal_pending", "cancellation_scheduled"} :
          fetched # NoFetch /\ Verified /\ Reconcile([sub EXCEPT !.status = s], {})
    BY <1>8 DEF ReconcileScheduled, Observes
  <2>2. sub' = [sub EXCEPT !.status = s] /\ records' = records /\ sub.prov \in Subs
    BY <1>4, <1>5, <2>1
  <2>3. s \in Status \ Terminal
    BY DEF Status, Terminal
  <2>4. sub' \in Rows /\ sub'.status = s /\ Same(sub', sub)
    BY <1>1, <2>2, <2>3, StatusSaved
  <2> QED BY <2>2, <2>3, <2>4, SavedKept
<1>9. CASE StaysInDoubt
  BY <1>5, <1>9, RowUnchanged DEF StaysInDoubt, Reconcile
<1> QED BY <1>3, <1>6, <1>7, <1>8, <1>9 DEF RunMaintenance

\* Of the outcomes of commands only two change what the row stands for.
LEMMA RecordRow ==
  ASSUME Books, NEW c \in Calls, Record(c)
  PROVE  RowKept \/ FinishStart(c) \/ RejectProviderMutation(c)
<1>1. sub \in Rows
  BY RowFacts
<1>2. records' = records /\ provider' = provider
  BY DEF Record, FinishStart, CompleteCommand, FinalizeImmediateCancellation,
         MarkCommandUnknown, RejectProviderMutation, Ends
<1>3. CASE CompleteCommand(c)
  BY <1>2, <1>3, RowUnchanged DEF CompleteCommand
<1>4. CASE FinalizeImmediateCancellation(c)
  <2>1. CASE sub.status # "cancellation_scheduled"
    BY <1>2, <1>4, <2>1, RowUnchanged DEF FinalizeImmediateCancellation
  <2>2. CASE sub.status = "cancellation_scheduled"
    <3>1. /\ sub' = [sub EXCEPT !.status = "cancelled", !.cancelAtEnd = FALSE]
          /\ late' = IF sub.prov = call[c].made THEN late ELSE late \cup {"ended"}
          /\ call[c].pc = "ended"
      BY <1>4, <2>2 DEF FinalizeImmediateCancellation
    <3>2. "cancelled" \in Status
      BY DEF Status
    <3>3. sub' \in Rows /\ sub'.status = "cancelled" /\ Same(sub', sub)
      BY <1>1, <3>1, <3>2, EndSaved
    <3>4. call[c].made \in Subs /\ provider[call[c].made].status = "cancelled"
      BY <3>1, TaskFacts DEF Task
    <3>5. \/ "ended" \in late'
          \/ sub.prov \in Subs /\ provider'[sub.prov].status = "cancelled"
      BY <1>2, <3>1, <3>4
    <3> QED BY <1>2, <2>2, <3>3, <3>5, SavedKept
  <2> QED BY <2>1, <2>2
<1>5. CASE MarkCommandUnknown(c)
  <2>1. sub' = [sub EXCEPT !.status = "reconciliation_required"]
    BY <1>5 DEF MarkCommandUnknown
  <2>2. "reconciliation_required" \in Status \ Terminal
    BY DEF Status, Terminal
  <2>3. sub' \in Rows /\ sub'.status = "reconciliation_required" /\ Same(sub', sub)
    BY <1>1, <2>1, <2>2, StatusSaved
  <2> QED BY <1>2, <2>2, <2>3, SavedKept
<1> QED BY <1>3, <1>4, <1>5 DEF Record

\* The five things a step can do to the row.
LEMMA RowSteps ==
  ASSUME Books, [Next]_vars
  PROVE  \/ RowKept \/ RowPaid
         \/ \E c \in Calls : \/ Begins(c) /\ call'[c].action = "start"
                             \/ FinishStart(c) \/ RejectProviderMutation(c)
<1>1. CASE Provider
  <2>1. sub' = sub /\ records' = records
    BY <1>1, ProviderAdvances DEF Provider, Becomes
  <2> QED BY <2>1, RowUnchanged
<1>2. ASSUME NEW c \in Calls, Request(c)
      PROVE  RowKept \/ (Begins(c) /\ call'[c].action = "start")
  <2>1. Begins(c)
    BY <1>2, CallBegins
  <2>2. CASE call'[c].action # "start"
    <3>1. /\ records' = records /\ Changeable /\ sub' \in Rows /\ Same(sub', sub)
          /\ sub'.status \in {"renewal_pending", "cancellation_scheduled"}
      BY <2>1, <2>2 DEF Begins
    <3>2. sub.prov \in Subs /\ sub'.status \notin Terminal
      BY <3>1, RowFacts DEF Changeable, Terminal
    <3> QED BY <3>1, <3>2, SavedKept
  <2> QED BY <2>1, <2>2
<1>3. ASSUME NEW c \in Calls, CallsProvider(c) PROVE RowKept
  BY <1>3, CallReplies, RowUnchanged DEF Replies
<1>4. ASSUME NEW c \in Calls, Crash(c) PROVE RowKept
  BY <1>4, RowUnchanged DEF Crash
<1>5. CASE SuspendExpiredGrace
  <2>1. /\ sub.status = "past_due" /\ sub' = [sub EXCEPT !.status = "suspended"]
        /\ records' = records
    BY <1>5 DEF SuspendExpiredGrace
  <2>2. "suspended" \in Status \ Terminal
    BY DEF Status, Terminal
  <2>3. sub' \in Rows /\ sub'.status = "suspended" /\ Same(sub', sub)
    BY <2>1, <2>2, StatusSaved, RowFacts
  <2> QED BY <2>1, <2>2, <2>3, SavedKept
<1>6. CASE UNCHANGED vars
  BY <1>6, RowUnchanged DEF vars
<1> QED BY ZenonT(60), <1>1, <1>2, <1>3, <1>4, <1>5, <1>6, RecordRow, WebhookRow, MaintenanceRow DEF Next

-----------------------------------------------------------------------------
(* The books stand.                                                        *)

\* What a step can do to the other variables.
LEMMA OtherSteps ==
  ASSUME Books, [Next]_vars
  PROVE  /\ seen' \subseteq seen \cup (1..Len(events))
         /\ faults' = faults \/ Fault
         /\ late \subseteq late' /\ late' \subseteq late \cup {"restored", "ended"}
         /\ fetched' = fetched \/ fetched' = NoFetch \/ FetchSubscription
<1>1. CASE Provider
  BY <1>1, ProviderAdvances DEF Provider, Becomes
<1>2. CASE \E c \in Calls : Request(c)
  BY <1>2 DEF Request, StartRenewable, SchedulePlanChange, ScheduleCancellation, Begin
<1>3. CASE \E c \in Calls : CallsProvider(c)
  <2>1. PICK c \in Calls : CallsProvider(c)
    BY <1>3
  <2>2. seen' = seen /\ late' = late /\ fetched' = fetched
    BY <2>1 DEF CallsProvider, CreateSubscription, UpdateSubscription, CancelAtCycleEnd,
                CancelNow, ProviderRejects, NoAnswer, Calling
  <2>3. faults' = faults \/ Fault
    BY <2>1 DEF CallsProvider, CreateSubscription, UpdateSubscription, CancelAtCycleEnd,
                CancelNow, ProviderRejects, NoAnswer, Answer
  <2> QED BY <2>2, <2>3
<1>4. CASE \E c \in Calls : Record(c)
  <2>1. PICK c \in Calls : Record(c)
    BY <1>4
  <2>2. seen' = seen /\ faults' = faults /\ fetched' = fetched
    BY <2>1 DEF Record, FinishStart, CompleteCommand, FinalizeImmediateCancellation,
                MarkCommandUnknown, RejectProviderMutation, Ends
  <2>3. late' = late \/ late' = late \cup {"restored"} \/ late' = late \cup {"ended"}
    BY <2>1 DEF Record, FinishStart, CompleteCommand, FinalizeImmediateCancellation,
                MarkCommandUnknown, RejectProviderMutation
  <2> QED BY <2>2, <2>3
<1>5. CASE \E c \in Calls : Crash(c)
  BY <1>5 DEF Crash
<1>6. CASE \E id \in 1..Len(events) : HandleWebhook(id)
  <2>1. PICK id \in 1..Len(events) : HandleWebhook(id)
    BY <1>6
  <2>2. Receive(id)
    BY <2>1 DEF HandleWebhook, IgnoreEvent, DoubtEvent, ApplyEvent
  <2> QED BY <2>2 DEF Receive
<1>7. CASE RunMaintenance
  BY <1>7 DEF RunMaintenance, FetchSubscription, ReconcileCancelled, ReconcilePaid,
              ReconcileScheduled, StaysInDoubt, Reconcile
<1>8. CASE SuspendExpiredGrace \/ UNCHANGED vars
  BY <1>8 DEF SuspendExpiredGrace, vars
<1> QED BY <1>1, <1>2, <1>3, <1>4, <1>5, <1>6, <1>7, <1>8 DEF Next

\* A start is finished on the row as it is now.
LEMMA FinishedRow ==
  ASSUME Books, NEW c \in Calls, FinishStart(c)
  PROVE  /\ sub' \in Rows /\ sub'.prov = call[c].made /\ sub'.status = "pending_payment"
         /\ sub'.mode = sub.mode /\ sub'.plan = sub.plan /\ sub'.paid = sub.paid
         /\ call[c].made \in Subs /\ Names(call[c].made)
         /\ call[c].pc = "accepted" /\ call[c].action = "start"
         /\ UNCHANGED <<provider, records, late>> /\ Leaves(c)
<1>1. /\ call[c].pc = "accepted" /\ call[c].action = "start"
      /\ sub' = [sub EXCEPT !.prov = call[c].made, !.provPlan = call[c].plan,
                            !.status = "pending_payment"]
      /\ UNCHANGED <<provider, records, late>>
  BY DEF FinishStart, Ends
<1>2. Leaves(c)
  BY CallLeaves DEF Record
<1>3. /\ call[c].made \in 0..MaxSubs /\ call[c].made \in Subs /\ Names(call[c].made)
      /\ call[c].plan \in Plans
  BY <1>1, TaskFacts DEF Task
<1>4. "pending_payment" \in Status /\ sub \in Rows
  BY RowFacts DEF Status
<1>5. /\ sub' \in Rows /\ sub'.prov = call[c].made /\ sub'.status = "pending_payment"
      /\ sub'.mode = sub.mode /\ sub'.plan = sub.plan /\ sub'.paid = sub.paid
  BY <1>1, <1>3, <1>4 DEF Rows, Plans
<1> QED BY <1>1, <1>2, <1>3, <1>5

\* A rejection puts back the row that was read before the call.
LEMMA RejectedRow ==
  ASSUME Books, NEW c \in Calls, RejectProviderMutation(c)
  PROVE  /\ sub' = call[c].prev /\ call[c].pc = "refused" /\ call[c].action # "none"
         /\ UNCHANGED <<provider, records>> /\ Leaves(c)
         /\ sub' \in Rows /\ Shape(call[c].prev) /\ Names(call[c].prev.prov)
         /\ "restored" \notin late' => sub = SavedBy(c)
         /\ \A d \in Calls \ {c} : call'[d] = call[d]
<1>1. /\ sub' = call[c].prev /\ call[c].pc = "refused"
      /\ UNCHANGED <<provider, records>>
      /\ late' = IF sub = SavedBy(c) THEN late ELSE late \cup {"restored"}
  BY DEF RejectProviderMutation, Ends
<1>2. Leaves(c) /\ \A d \in Calls \ {c} : call'[d] = call[d]
  BY CallLeaves DEF Record
<1>3. /\ call[c].prev \in Rows /\ Shape(call[c].prev) /\ Task(c)
  BY TaskFacts
<1>4. Names(call[c].prev.prov) /\ call[c].action # "none"
  BY <1>1, <1>3 DEF Task, Answering
<1> QED BY <1>1, <1>2, <1>3, <1>4

\* Every step leaves a row that names a created subscription.
LEMMA RowStands ==
  ASSUME Books, [Next]_vars
  PROVE  sub' \in Rows /\ Shape(sub)' /\ Names(sub.prov)'
<1>1. sub \in Rows /\ Names(sub.prov) /\ sub.prov \in 0..MaxSubs
  BY RowFacts DEF Books
<1>2. 0 \notin Subs
  BY SMT DEF Subs
<1>3. CASE RowKept
  BY <1>1, <1>3, NamesStay DEF RowKept, Names
<1>4. CASE RowPaid
  BY <1>1, <1>2, <1>4, NamesStay DEF RowPaid, Names, Shape
<1>5. ASSUME NEW c \in Calls, Begins(c), call'[c].action = "start"
      PROVE  sub' \in Rows /\ Shape(sub)' /\ Names(sub.prov)'
  <2>1. sub' = StartRow(sub, call'[c].plan) /\ call'[c].plan \in Paid
    BY <1>5 DEF Begins
  <2>2. PICK plan \in Paid : sub' = StartRow(sub, plan)
    BY <2>1
  <2>3. sub' \in Rows /\ Shape(StartRow(sub, plan)) /\ sub'.prov = 0
    BY <2>2, StartRowIsRow
  <2> QED BY <2>2, <2>3 DEF Names, Shape
<1>6. ASSUME NEW c \in Calls, FinishStart(c)
      PROVE  sub' \in Rows /\ Shape(sub)' /\ Names(sub.prov)'
  BY <1>2, <1>6, FinishedRow DEF Names, Shape
<1>7. ASSUME NEW c \in Calls, RejectProviderMutation(c)
      PROVE  sub' \in Rows /\ Shape(sub)' /\ Names(sub.prov)'
  BY <1>7, RejectedRow DEF Names, Shape
<1> QED BY <1>3, <1>4, <1>5, <1>6, <1>7, RowSteps

\* Every step leaves a fetched subscription that shows what was charged.
LEMMA FetchStands ==
  ASSUME Books, [Next]_vars
  PROVE  fetched' \in {NoFetch} \cup Fetches /\ Observed(fetched)'
<1>1. CASE fetched' = NoFetch
  BY <1>1 DEF Observed
<1>2. CASE fetched' = fetched /\ fetched # NoFetch
  <2>1. PICK f \in Fetches : f = fetched /\ f.sub \in Subs /\ f.paid \in 0..TotalCount
                             /\ Shown(f) /\ (f.status = "cancelled" => provider[f.sub].status = "cancelled")
    BY <1>2, FetchFacts
  <2>2. Shown(f)' /\ Onward(f.sub)
    BY <2>1, OnwardFacts, ShownStays
  <2>3. f.status = "cancelled" => provider'[f.sub].status = "cancelled"
    BY <2>1, <2>2 DEF Onward
  <2> QED BY <1>2, <2>1, <2>2, <2>3 DEF Observed, Shown
<1>3. CASE FetchSubscription
  <2> DEFINE i == sub.prov
             p == provider[i]
             f == [sub |-> i, status |-> p.status, paid |-> Len(p.charges), plan |-> p.plan,
                   changes |-> p.sched # NoPlan]
  <2>1. i # 0 /\ fetched' = f /\ provider' = provider
    BY <1>3 DEF FetchSubscription
  <2>2. i \in Subs /\ p.status # "none"
    BY <2>1, RowFacts DEF Books, Names
  <2>3. p.status \in SubStatus /\ p.charges \in Seq(Paid) /\ Book(i)
    BY <2>2, BookFacts
  <2>4. p.plan \in Paid /\ Len(p.charges) <= TotalCount
        /\ (p.charges # <<>> => p.plan = p.charges[Len(p.charges)])
    BY <2>2, <2>3 DEF Book
  <2>5. Len(p.charges) \in 0..TotalCount /\ Len(p.charges) <= Len(p.charges)
        /\ (Len(p.charges) > 0 => p.charges # <<>>)
    <3>1. Len(p.charges) \in Nat /\ (Len(p.charges) > 0 => p.charges # <<>>)
      BY <2>3, LastIsShown
    <3> QED BY <2>4, <3>1, SubscriptionBounds, SMT
  <2>6. /\ f \in Fetches /\ f.sub = i /\ f.status = p.status /\ f.paid = Len(p.charges)
        /\ f.plan = p.plan
    BY <2>2, <2>3, <2>4, <2>5 DEF Fetches
  <2> HIDE DEF f
  <2>7. provider'[fetched'.sub] = p /\ fetched'.paid = Len(p.charges) /\ fetched'.plan = p.plan
        /\ fetched'.status = p.status
    BY <2>1, <2>6
  <2>8. Observed(fetched)'
    BY <2>4, <2>5, <2>7 DEF Observed, Shown
  <2> QED BY <2>1, <2>6, <2>8
<1>4. fetched \in {NoFetch} \cup Fetches
  BY DEF Books, Types
<1> QED BY <1>1, <1>2, <1>3, <1>4, OtherSteps

\* Nothing is billed that was not charged.
LEMMA RecordsStand ==
  ASSUME Books, [Next]_vars
  PROVE  /\ records \subseteq records'
         /\ records' \subseteq Subs \X Cycles \X {"event", "reconciliation"}
         /\ Records'
<1>1. records \subseteq Subs \X Cycles \X {"event", "reconciliation"} /\ Records
  BY DEF Books, Types
<1>2. ASSUME NEW r \in records PROVE r[2] <= Len(provider'[r[1]].charges)
  <2>1. r[1] \in Subs /\ r[2] \in Cycles /\ r[2] <= Len(provider[r[1]].charges)
    BY <1>1 DEF Records
  <2>2. /\ provider'[r[1]].charges \in Seq(Paid) /\ provider[r[1]].charges \in Seq(Paid)
        /\ Len(provider[r[1]].charges) <= Len(provider'[r[1]].charges)
    BY <2>1, OnwardFacts DEF Prolongs
  <2> QED BY SMTT(60), <2>1, <2>2, SubscriptionBounds DEF Cycles
<1>3. CASE records' = records
  BY <1>1, <1>2, <1>3 DEF Records
<1>4. CASE RowPaid
  <2>1. PICK p, origin :
          /\ Shown(p) /\ p.sub \in Subs /\ p.paid \in 0..TotalCount /\ p.paid > sub.paid
          /\ origin \in {"event", "reconciliation"}
          /\ records' = records \cup {<<p.sub, p.paid, origin>>}
    BY <1>4 DEF RowPaid
  <2>2. sub.paid \in 0..TotalCount /\ provider' = provider
    BY <1>4, RowFacts, RowFields DEF RowPaid
  <2>3. p.paid \in Cycles
    BY <2>1, <2>2, SubscriptionBounds, SMT DEF Cycles
  <2>4. <<p.sub, p.paid, origin>> \in Subs \X Cycles \X {"event", "reconciliation"}
    BY <2>1, <2>3
  <2>5. p.paid <= Len(provider'[p.sub].charges)
    BY <2>1, <2>2 DEF Shown
  <2>6. Records'
    <3> DEFINE new == <<p.sub, p.paid, origin>>
    <3>1. new[1] = p.sub /\ new[2] = p.paid
      BY SMT
    <3>2. records' = records \cup {new}
      BY <2>1
    <3> HIDE DEF new
    <3> QED BY <1>2, <2>5, <3>1, <3>2 DEF Records
  <2> QED BY <1>1, <2>1, <2>4, <2>6
<1> QED BY <1>3, <1>4, RowSteps, FinishedRow, RejectedRow DEF RowKept, Begins

\* Every step keeps the first part of the invariant.
LEMMA BooksStand == ASSUME Books, [Next]_vars PROVE Books'
<1>1. sub' \in Rows /\ Shape(sub)' /\ Names(sub.prov)'
  BY RowStands
<1>2. call' \in [Calls -> Tasks] /\ \A c \in Calls : Shape(call[c].prev)' /\ Task(c)'
  BY TasksStand
<1>3. provider' \in [Subs -> ProviderRows] /\ \A i \in Subs : Book(i)'
  BY SubscriptionsGoOn DEF Onward
<1>4. /\ events' \in Seq(EventRows) /\ Len(events') <= MaxEvents
      /\ Len(events) <= Len(events')
      /\ \A k \in 1..Len(events') : events'[k].at <= k
      /\ \A k \in 1..Len(events') : Told(events[k])'
  BY EventsGoOn
<1>5. seen' \subseteq 1..Len(events')
  <2>1. seen \subseteq 1..Len(events) /\ events \in Seq(EventRows)
    BY DEF Books, Types
  <2>2. seen' \subseteq 1..Len(events)
    BY <2>1, OtherSteps
  <2>3. 1..Len(events) \subseteq 1..Len(events')
    BY <1>4, <2>1, SMT
  <2> QED BY <2>2, <2>3
<1>6. faults' \in 0..MaxFaults
  <2>1. faults \in 0..MaxFaults
    BY DEF Books, Types
  <2>2. faults' = faults \/ (faults < MaxFaults /\ faults' = faults + 1)
    BY OtherSteps DEF Fault
  <2> QED BY <2>1, <2>2, SubscriptionBounds, SMT
<1>7. late' \subseteq {"restored", "ended"}
  <2>1. late \subseteq {"restored", "ended"}
    BY DEF Books, Types
  <2> QED BY <2>1, OtherSteps
<1>8. fetched' \in {NoFetch} \cup Fetches /\ Observed(fetched)'
  BY FetchStands
<1>9. records' \subseteq Subs \X Cycles \X {"event", "reconciliation"} /\ Records'
  BY RecordsStand
<1>10. Types'
  BY <1>1, <1>2, <1>3, <1>4, <1>5, <1>6, <1>7, <1>8, <1>9 DEF Types
<1> QED BY <1>1, <1>2, <1>3, <1>4, <1>8, <1>9, <1>10 DEF Books

-----------------------------------------------------------------------------
(* The account stands until a rejection puts an old row over newer changes.*)

\* No subscription is numbered zero.
LEMMA SubsPositive == 0 \notin Subs
BY SMT DEF Subs

\* A row once entitled to its plan stays so: charges are not taken back.
LEMMA EntitledStays ==
  ASSUME Books, [Next]_vars, NEW row \in Rows, Entitled(row)
  PROVE  Entitled(row)'
<1>1. CASE row.plan = Free
  BY <1>1 DEF Entitled
<1>2. CASE row.plan # Free
  <2> DEFINE s == provider[row.prov].charges
             t == provider'[row.prov].charges
  <2>1. row.prov # 0 /\ row.paid \in 1..Len(s) /\ s[row.paid] = row.plan
    BY <1>2 DEF Entitled
  <2>2. row.prov \in Subs
    <3>1. row.prov \in 0..MaxSubs
      BY RowFields
    <3> QED BY <2>1, <3>1, SubscriptionBounds, SMT DEF Subs
  <2>3. s \in Seq(Paid) /\ t \in Seq(Paid) /\ Prolongs(t, s)
    BY <2>2, OnwardFacts
  <2> HIDE DEF s, t
  <2>4. row.paid \in 1..Len(t) /\ t[row.paid] = row.plan
    BY <2>1, <2>3, SMT DEF Prolongs
  <2> QED BY <1>2, <2>1, <2>4 DEF Entitled, t
<1> QED BY <1>1, <1>2

\* A row once billed stays billed: records are not taken back.
LEMMA BilledStays ==
  ASSUME Books, [Next]_vars, NEW row \in Rows, Billed(row)
  PROVE  Billed(row)'
BY RecordsStand DEF Billed

\* What a command saved, but for a start, stands for what it remembered.
LEMMA SavedFields ==
  ASSUME Books, NEW c \in Calls, call[c].action \in {"plan", "cancel"}
  PROVE  Same(SavedBy(c), call[c].prev) /\ call[c].prev.prov # 0
<1>1. /\ call[c].prev \in Rows /\ call[c].prev.prov # 0
      /\ call[c].action = "plan" => call[c].plan \in Paid
  BY TaskFacts DEF Task
<1>2. CASE call[c].action = "plan"
  <2>1. SavedBy(c) = PlanRow(call[c].prev, call[c].plan)
    BY <1>2 DEF SavedBy
  <2> QED BY <1>1, <1>2, <2>1, PlanRowIsRow
<1>3. CASE call[c].action = "cancel"
  <2>1. SavedBy(c) = CancelRow(call[c].prev)
    BY <1>3 DEF SavedBy
  <2> QED BY <1>1, <2>1, CancelRowIsRow
<1> QED BY <1>1, <1>2, <1>3

\* The row and the account before a step that is not such a rejection.
LEMMA Before ==
  ASSUME SubscriptionInv, [Next]_vars, "restored" \notin late'
  PROVE  Books /\ Account
<1>1. Books
  BY DEF SubscriptionInv
<1>2. "restored" \notin late
  BY <1>1, OtherSteps
<1> QED BY <1>1, <1>2 DEF SubscriptionInv

\* While a start is under way no other one begins and no other ends.
LEMMA StartExcludes ==
  ASSUME SubscriptionInv, [Next]_vars, "restored" \notin late',
         NEW c \in Calls, call[c].action = "start", call'[c].action = "start"
  PROVE  /\ RowKept /\ sub.mode = "renewable" /\ sub.prov = 0
         /\ \A d \in Calls : Begins(d) => call'[d].action # "start"
<1>1. Books /\ Account
  BY Before
<1>2. Starting(c) /\ Waits(sub)
  BY <1>1 DEF Account
<1>3. /\ sub.mode = "renewable" /\ sub.prov = 0
      /\ \A d \in Calls : call[d].action = "start" => d = c
  BY <1>2 DEF Starting
<1>4. sub.status \notin Terminal
  BY <1>2, <1>3 DEF Waits, Terminal
<1>5. ~ RowPaid
  BY <1>3, SubsPositive DEF RowPaid
<1>6. ASSUME NEW d \in Calls, Begins(d) PROVE call'[d].action # "start"
  BY <1>3, <1>4, <1>6 DEF Begins
<1>7. ASSUME NEW d \in Calls, Leaves(d) PROVE d # c
  BY <1>7, LeftFacts
<1>8. ASSUME NEW d \in Calls, FinishStart(d) PROVE FALSE
  BY <1>1, <1>3, <1>7, <1>8, FinishedRow
<1>9. ASSUME NEW d \in Calls, RejectProviderMutation(d) PROVE FALSE
  <2>1. call[d].action # "none" /\ Leaves(d) /\ sub = SavedBy(d)
    BY <1>1, <1>9, RejectedRow
  <2>2. call[d].action # "start"
    BY <1>3, <1>7, <2>1
  <2>3. call[d].action \in {"plan", "cancel"}
    BY <1>1, <2>1, <2>2, TaskFacts
  <2>4. sub.prov # 0
    BY <1>1, <2>1, <2>3, SavedFields DEF Same
  <2> QED BY <1>3, <2>4
<1> QED BY <1>1, <1>3, <1>5, <1>6, <1>8, <1>9, RowSteps

\* What the row is worth.
Worth(row) == Entitled(row) /\ Billed(row) /\ Covers(row)

\* The row stays entitled, billed and ahead of the records, and waits for its start.
LEMMA WorthStands ==
  ASSUME SubscriptionInv, [Next]_vars, "restored" \notin late'
  PROVE  Worth(sub)' /\ Waits(sub)'
<1>1. Books /\ Account
  BY Before
<1>2. /\ Worth(sub) /\ Waits(sub) /\ sub \in Rows /\ Shape(sub)
      /\ records \subseteq Subs \X Cycles \X {"event", "reconciliation"}
  BY <1>1 DEF Account, Worth, Books, Types
<1>3. \A r \in records : r[1] \in Subs /\ r[2] \in Cycles
  BY <1>2
<1>4. ASSUME NEW row \in Rows, Worth(row), records' = records,
             sub'.prov = row.prov, sub'.plan = row.plan, sub'.paid = row.paid
      PROVE  Worth(sub)'
  <2>1. Entitled(row)' /\ Billed(row)'
    BY <1>1, <1>4, EntitledStays, BilledStays DEF Worth
  <2>2. Covers(sub)'
    BY <1>4 DEF Worth, Covers
  <2>3. Entitled(sub)' /\ Billed(sub)'
    BY <1>4, <2>1 DEF Entitled, Billed
  <2> QED BY <2>2, <2>3 DEF Worth
<1>5. CASE RowKept
  <2>1. PICK row \in Rows : row = sub
    BY <1>2
  <2>2. Worth(row)
    BY <1>2, <2>1
  <2>3. /\ records' = records /\ sub'.prov = row.prov /\ sub'.plan = row.plan
        /\ sub'.paid = row.paid /\ Waits(sub)'
    BY <1>2, <1>5, <2>1 DEF RowKept
  <2> QED BY <1>4, <2>2, <2>3
<1>6. CASE RowPaid
  <2>1. PICK p, origin :
          /\ Shown(p) /\ p.sub = sub.prov /\ p.plan \in Paid
          /\ p.paid \in 0..TotalCount /\ p.paid > sub.paid
          /\ sub'.plan = p.plan /\ sub'.paid = p.paid /\ origin \in {"event", "reconciliation"}
          /\ records' = records \cup {<<p.sub, p.paid, origin>>}
    BY <1>6 DEF RowPaid
  <2>2. provider' = provider /\ sub.prov \in Subs /\ sub'.prov = sub.prov
    BY <1>6 DEF RowPaid
  <2>3. sub.paid \in 0..TotalCount /\ provider[sub.prov].charges \in Seq(Paid)
    BY <1>1, <1>2, <2>2, RowFields, BookFacts
  <2>4. p.paid \in Nat /\ p.paid > 0 /\ p.paid <= p.paid
    BY <2>1, <2>3, SubscriptionBounds, SMT
  <2>5. Entitled(sub)'
    <3>1. p.paid <= Len(provider[sub.prov].charges) /\ provider[sub.prov].charges[p.paid] = p.plan
      BY <2>1, <2>4 DEF Shown
    <3>2. p.paid \in 1..Len(provider[sub.prov].charges)
      BY <2>3, <2>4, <3>1, SMT
    <3>3. sub'.plan # Free /\ sub'.prov # 0
      BY <2>1, <2>2, PlansDiffer, SubsPositive
    <3> QED BY <2>1, <2>2, <3>1, <3>2, <3>3 DEF Entitled
  <2>6. Billed(sub)'
    BY <2>1, <2>2 DEF Billed
  <2>7. Covers(sub)'
    <3> DEFINE new == <<p.sub, p.paid, origin>>
    <3>1. new[1] = p.sub /\ new[2] = p.paid
      BY SMT
    <3>2. records' = records \cup {new}
      BY <2>1
    <3> HIDE DEF new
    <3>3. ASSUME NEW r \in records, r[1] = sub.prov PROVE r[2] <= p.paid
      <4>1. r[2] <= sub.paid /\ r[2] \in Cycles
        BY <1>2, <1>3, <3>3 DEF Worth, Covers
      <4> QED BY <2>1, <2>3, <4>1, SubscriptionBounds, SMT DEF Cycles
    <3> QED BY <2>1, <2>2, <2>4, <3>1, <3>2, <3>3 DEF Covers
  <2>8. Waits(sub)'
    BY <2>2, SubsPositive DEF Waits
  <2> QED BY <2>5, <2>6, <2>7, <2>8 DEF Worth
<1>7. ASSUME sub'.plan = Free, sub'.paid = 0, \A r \in records' : r[1] # sub'.prov
      PROVE  Worth(sub)'
  <2>1. ~ (0 > 0)
    BY SMT
  <2> QED BY <1>7, <2>1 DEF Worth, Entitled, Billed, Covers
<1>8. ASSUME NEW c \in Calls, Begins(c), call'[c].action = "start"
      PROVE  Worth(sub)' /\ Waits(sub)'
  <2>1. sub' = StartRow(sub, call'[c].plan) /\ call'[c].plan \in Paid /\ records' = records
    BY <1>8 DEF Begins
  <2>2. PICK plan \in Paid : sub' = StartRow(sub, plan)
    BY <2>1
  <2>3. sub'.status = "pending_payment" /\ sub'.prov = 0 /\ sub'.paid = 0 /\ sub'.plan = Free
    BY <2>2, StartRowIsRow
  <2> QED BY <1>3, <1>7, <2>1, <2>3, SubsPositive DEF Waits
<1>9. ASSUME NEW c \in Calls, FinishStart(c)
      PROVE  Worth(sub)' /\ Waits(sub)'
  <2>1. /\ sub'.prov = call[c].made /\ sub'.plan = sub.plan /\ sub'.paid = sub.paid
        /\ call[c].made \in Subs /\ records' = records
        /\ call[c].pc = "accepted" /\ call[c].action = "start"
    BY <1>1, <1>9, FinishedRow
  <2>2. sub.prov = 0 /\ provider[call[c].made].status = "created"
    BY <1>1, <2>1 DEF Account, Starting, Fresh
  <2>3. sub.plan = Free /\ sub.paid = 0
    BY <1>2, <2>2 DEF Shape
  <2>4. provider[call[c].made].charges = <<>>
    BY <1>1, <2>1, <2>2, BookFacts DEF Book
  <2>5. ASSUME NEW r \in records PROVE r[1] # call[c].made
    <3>1. SUFFICES ASSUME r[1] = call[c].made PROVE FALSE
      OBVIOUS
    <3>2. r[2] <= Len(<<>>) /\ r[2] \in Cycles
      BY <1>1, <1>3, <2>4, <3>1 DEF Books, Records
    <3> QED BY <3>2, SubscriptionBounds, SMT DEF Cycles
  <2>6. Waits(sub)'
    BY <2>1, SubsPositive DEF Waits
  <2> QED BY <1>7, <2>1, <2>3, <2>5, <2>6
<1>10. ASSUME NEW c \in Calls, RejectProviderMutation(c)
       PROVE  Worth(sub)' /\ Waits(sub)'
  <2>1. /\ sub' = call[c].prev /\ call[c].action # "none" /\ records' = records
        /\ sub = SavedBy(c) /\ call[c].prev \in Rows
    BY <1>1, <1>10, RejectedRow
  <2>2. call[c].action \in {"start", "plan", "cancel"}
    BY <1>1, <2>1, TaskFacts
  <2>3. Entitled(call[c].prev) /\ Billed(call[c].prev) /\ Starting(c)
    BY <1>1 DEF Account
  <2>4. Covers(call[c].prev) /\ (call[c].prev.mode = "renewable" => call[c].prev.prov # 0)
    <3>1. CASE call[c].action = "start"
      BY <2>3, <3>1 DEF Starting
    <3>2. CASE call[c].action \in {"plan", "cancel"}
      <4>1. Same(sub, call[c].prev) /\ call[c].prev.prov # 0
        BY <1>1, <2>1, <3>2, SavedFields
      <4> QED BY <1>2, <4>1 DEF Same, Worth, Covers
    <3> QED BY <2>2, <3>1, <3>2
  <2>5. PICK row \in Rows : row = call[c].prev
    BY <2>1
  <2>6. Worth(row) /\ sub' = row
    BY <2>1, <2>3, <2>4, <2>5 DEF Worth
  <2>7. Worth(sub)'
    BY <1>4, <2>1, <2>6
  <2>8. Waits(sub)'
    BY <2>1, <2>4 DEF Waits
  <2> QED BY <2>7, <2>8
<1> QED BY <1>1, <1>5, <1>6, <1>8, <1>9, <1>10, RowSteps

\* The rows the commands remember keep their worth.
LEMMA RememberedStands ==
  ASSUME SubscriptionInv, [Next]_vars, "restored" \notin late', NEW c \in Calls
  PROVE  Entitled(call[c].prev)' /\ Billed(call[c].prev)'
<1>1. Books /\ Account
  BY Before
<1>2. ASSUME NEW row \in Rows, Entitled(row), Billed(row), call'[c].prev = row
      PROVE  Entitled(call[c].prev)' /\ Billed(call[c].prev)'
  <2>1. Entitled(row)' /\ Billed(row)'
    BY <1>1, <1>2, EntitledStays, BilledStays
  <2> QED BY <1>2, <2>1 DEF Entitled, Billed
<1>3. CASE call'[c].prev = call[c].prev
  <2>1. PICK row \in Rows : row = call[c].prev
    BY <1>1, TaskFacts
  <2>2. Entitled(row) /\ Billed(row) /\ call'[c].prev = row
    BY <1>1, <1>3, <2>1 DEF Account
  <2> QED BY <1>2, <2>2
<1>4. CASE call'[c].prev = sub
  <2>1. PICK row \in Rows : row = sub
    BY <1>1, RowFacts
  <2>2. Entitled(row) /\ Billed(row) /\ call'[c].prev = row
    BY <1>1, <1>4, <2>1 DEF Account
  <2> QED BY <1>2, <2>2
<1>5. CASE call'[c].prev = FreeRow
  <2>1. FreeRow.plan = Free /\ FreeRow.paid = 0
    BY DEF FreeRow
  <2>2. ~ (0 > 0)
    BY SMT
  <2>3. Entitled(FreeRow) /\ Billed(FreeRow)
    BY <2>1, <2>2 DEF Entitled, Billed
  <2> QED BY <1>2, <1>5, <2>3, FreeRowIsRow
<1> QED BY <1>1, <1>3, <1>4, <1>5, CallCases, LeftFacts DEF Begins, Replies, Continues

\* A charge is billed from one origin: what is billed is ahead of the row, and
\* what was billed is not.
LEMMA OriginStands ==
  ASSUME SubscriptionInv, [Next]_vars, "restored" \notin late'
  PROVE  SingleOrigin'
<1>1. Books /\ Account
  BY Before
<1>2. SingleOrigin /\ Covers(sub)
  BY <1>1 DEF Account
<1>3. CASE records' = records
  BY <1>2, <1>3 DEF SingleOrigin
<1>4. CASE RowPaid
  <2>1. PICK p, origin :
          /\ p.sub = sub.prov /\ p.paid \in 0..TotalCount /\ p.paid > sub.paid
          /\ records' = records \cup {<<p.sub, p.paid, origin>>}
    BY <1>4 DEF RowPaid
  <2>2. sub.paid \in 0..TotalCount
    BY <1>1, RowFacts, RowFields
  <2>3. ASSUME NEW o PROVE <<p.sub, p.paid, o>> \notin records
    <3> DEFINE r == <<p.sub, p.paid, o>>
    <3>1. r[1] = p.sub /\ r[2] = p.paid
      BY SMT
    <3> HIDE DEF r
    <3>2. r \in records => p.paid <= sub.paid
      BY <1>2, <2>1, <3>1 DEF Covers
    <3>3. ~ (p.paid <= sub.paid)
      BY <2>1, <2>2, SubscriptionBounds, SMT
    <3>4. r \notin records
      BY <3>2, <3>3
    <3> QED BY <3>4 DEF r
  <2>4. ASSUME NEW i \in Subs, NEW n \in Cycles,
               <<i, n, "event">> \in records', <<i, n, "reconciliation">> \in records'
        PROVE  FALSE
    <3>1. ASSUME NEW o, <<i, n, o>> = <<p.sub, p.paid, origin>>
          PROVE  i = p.sub /\ n = p.paid /\ o = origin
      BY <3>1, SMT
    <3>2. CASE <<i, n, "event">> \in records /\ <<i, n, "reconciliation">> \in records
      BY <1>2, <3>2 DEF SingleOrigin
    <3>3. CASE <<i, n, "event">> = <<p.sub, p.paid, origin>>
      <4>1. i = p.sub /\ n = p.paid /\ origin = "event"
        BY <3>1, <3>3
      <4>2. <<i, n, "reconciliation">> \notin records
        BY <2>3, <4>1
      <4>3. <<i, n, "reconciliation">> = <<p.sub, p.paid, origin>>
        BY <2>1, <2>4, <4>2
      <4>4. origin = "reconciliation"
        BY <3>1, <4>3
      <4> QED BY <4>1, <4>4
    <3>4. CASE <<i, n, "reconciliation">> = <<p.sub, p.paid, origin>>
      <4>1. i = p.sub /\ n = p.paid /\ origin = "reconciliation"
        BY <3>1, <3>4
      <4>2. <<i, n, "event">> \notin records
        BY <2>3, <4>1
      <4>3. <<i, n, "event">> = <<p.sub, p.paid, origin>>
        BY <2>1, <2>4, <4>2
      <4>4. origin = "event"
        BY <3>1, <4>3
      <4> QED BY <4>1, <4>4
    <3> QED BY <2>1, <2>4, <3>2, <3>3, <3>4
  <2> QED BY <2>4 DEF SingleOrigin
<1> QED BY <1>1, <1>3, <1>4, RowSteps, FinishedRow, RejectedRow DEF RowKept, Begins

\* The row goes on waiting for the one start under way.
LEMMA StartStands ==
  ASSUME SubscriptionInv, [Next]_vars, "restored" \notin late', NEW c \in Calls
  PROVE  Starting(c)'
<1>1. Books /\ Account
  BY Before
<1>2. SUFFICES ASSUME call'[c].action = "start" PROVE Starting(c)'
  BY DEF Starting
<1>3. Waits(sub) /\ \A d \in Calls : Starting(d)
  BY <1>1 DEF Account
<1>4. CASE call[c].action = "start" /\ call'[c].prev = call[c].prev
  <2>1. /\ RowKept /\ sub.mode = "renewable" /\ sub.prov = 0
        /\ \A d \in Calls : Begins(d) => call'[d].action # "start"
    BY <1>2, <1>4, StartExcludes
  <2>2. sub'.mode = "renewable" /\ sub'.prov = 0 /\ records' = records
    BY <2>1 DEF RowKept
  <2>3. /\ call[c].prev.mode = "renewable" => call[c].prev.prov # 0 /\ call[c].prev.status \in Terminal
        /\ Covers(call[c].prev)
        /\ \A d \in Calls : call[d].action = "start" => d = c
    BY <1>3, <1>4 DEF Starting
  <2>4. Covers(call[c].prev)'
    BY <1>4, <2>2, <2>3 DEF Covers
  <2>5. ASSUME NEW d \in Calls, call'[d].action = "start" PROVE d = c
    <3>1. call[d].action = "start"
      BY <1>1, <2>1, <2>5, CallCases, LeftFacts DEF Replies, Continues
    <3> QED BY <2>3, <3>1
  <2> QED BY <1>4, <2>2, <2>3, <2>4, <2>5 DEF Starting
<1>5. CASE Begins(c) /\ \A d \in Calls \ {c} : call'[d] = call[d]
  <2>1. /\ sub.mode = "renewable" => sub.status \in Terminal
        /\ sub' = StartRow(sub, call'[c].plan) /\ call'[c].prev = sub /\ records' = records
    BY <1>2, <1>5 DEF Begins
  <2>2. call'[c].plan \in Paid
    BY <1>2, <1>5 DEF Begins
  <2>3. PICK plan \in Paid : sub' = StartRow(sub, plan)
    BY <2>1, <2>2
  <2>4. sub'.mode = "renewable" /\ sub'.prov = 0
    BY <2>3, StartRowIsRow
  <2>5. sub.mode = "renewable" => sub.status \in Terminal /\ sub.prov # 0
    BY <1>3, <2>1 DEF Waits, Terminal
  <2>6. Covers(call[c].prev)'
    BY <1>1, <2>1 DEF Account, Covers
  <2>7. ASSUME NEW d \in Calls, call'[d].action = "start" PROVE d = c
    BY <1>3, <1>5, <2>5, <2>7 DEF Starting
  <2> QED BY <2>1, <2>4, <2>5, <2>6, <2>7 DEF Starting
<1> QED BY <1>1, <1>2, <1>4, <1>5, CallCases, LeftFacts DEF Replies, Continues

\* A subscription just created stays known to its start alone.
LEMMA FreshStands ==
  ASSUME SubscriptionInv, [Next]_vars, "restored" \notin late', NEW c \in Calls
  PROVE  Fresh(c)'
<1>1. Books /\ Account
  BY Before
<1>2. SUFFICES ASSUME call'[c].action = "start", call'[c].pc = "accepted"
               PROVE  Fresh(c)'
  BY DEF Fresh
<1>3. CASE call'[c] = call[c]
  <2> DEFINE i == call[c].made
  <2>1. /\ call[c].action = "start" /\ call[c].pc = "accepted" /\ provider[i].status = "created"
        /\ \A d \in Calls \ {c} : call[d].made # i /\ call[d].prev.prov # i
        /\ sub.prov = 0
    BY <1>1, <1>2, <1>3 DEF Account, Fresh, Starting
  <2>2. i \in Subs /\ i # 0
    BY <1>1, <2>1, TaskFacts DEF Task
  <2>3. provider'[i].status = "created"
    <3>1. Onward(i)
      BY <1>1, <2>2, SubscriptionsGoOn
    <3>2. ASSUME NEW d \in Calls, call[d].pc = "completed", call[d].made = i PROVE FALSE
      BY <2>1, <3>2
    <3> QED BY <2>1, <3>1, <3>2 DEF Onward
  <2>4. ASSUME NEW d \in Calls \ {c} PROVE call'[d].made # i /\ call'[d].prev.prov # i
    <3>1. CASE call'[d] = call[d]
      BY <2>1, <3>1
    <3>2. CASE Begins(d)
      BY <2>1, <2>2, <3>2 DEF Begins
    <3>3. CASE Replies(d)
      <4>1. call'[d].prev = call[d].prev
        BY <3>3 DEF Replies, Continues
      <4>2. \/ call'[d].made = call[d].made \/ call'[d].made = call[d].prev.prov
            \/ provider[call'[d].made].status = "none"
        BY <3>3 DEF Replies
      <4> QED BY <2>1, <4>1, <4>2
    <3>4. CASE Leaves(d)
      <4>1. call'[d].prev = FreeRow /\ call'[d].made \in {0, call[d].made} /\ FreeRow.prov = 0
        BY <3>4, LeftFacts DEF FreeRow
      <4> QED BY <2>1, <2>2, <4>1
    <3> QED BY <1>1, <3>1, <3>2, <3>3, <3>4, CallCases
  <2> QED BY <1>3, <2>3, <2>4 DEF Fresh
<1>4. CASE Replies(c) /\ \A d \in Calls \ {c} : call'[d] = call[d]
  <2> DEFINE i == call'[c].made
  <2>1. \/ /\ call[c].action = "start" /\ call'[c].action = call[c].action
           /\ i \in Subs /\ provider[i].status = "none" /\ provider'[i].status = "created"
        \/ call[c].action \in {"plan", "cancel"} /\ call'[c].action = call[c].action
    BY <1>2, <1>4 DEF Replies, Continues
  <2>2. i \in Subs /\ provider[i].status = "none" /\ provider'[i].status = "created"
    BY <1>2, <2>1
  <2>3. ASSUME NEW d \in Calls \ {c} PROVE call'[d].made # i /\ call'[d].prev.prov # i
    <3>1. Names(call[d].made) /\ Names(call[d].prev.prov)
      BY <1>1, TaskFacts DEF Task
    <3>2. i # 0
      BY <2>2, SubsPositive
    <3> QED BY <1>4, <2>2, <3>1, <3>2 DEF Names
  <2> QED BY <2>2, <2>3 DEF Fresh
<1> QED BY <1>1, <1>2, <1>3, <1>4, CallCases, LeftFacts DEF Begins

\* Every step but a late rejection keeps the second part of the invariant.
LEMMA AccountStands ==
  ASSUME SubscriptionInv, [Next]_vars, "restored" \notin late'
  PROVE  Account'
BY WorthStands, RememberedStands, OriginStands, StartStands, FreshStands DEF Account, Worth

-----------------------------------------------------------------------------
(* One live subscription, until one of the two late commands.              *)

\* A start creates a subscription only where none is live.
LEMMA CreatesAlone ==
  ASSUME Books, Account, Alone, NEW c \in Calls, CreateSubscription(c)
  PROVE  Alone'
<1>1. PICK i \in Subs :
        /\ provider[i].status = "none" /\ call[c].pc = "calling" /\ call[c].action = "start"
        /\ \E now \in ProviderRows : provider' = [provider EXCEPT ![i] = now]
        /\ Answer(c, "accepted", i) /\ sub' = sub
  BY CreatesBlank
<1>2. provider \in [Subs -> ProviderRows]
  BY DEF Books, Types
<1>3. \A j \in Subs \ {i} : provider'[j] = provider[j]
  BY <1>1, <1>2
<1>4. \A j \in Subs : ~ Live(j)
  BY <1>1 DEF Alone
<1>5. \A j \in Subs : Live(j)' => j = i
  BY <1>3, <1>4 DEF Live
<1>6. /\ sub.mode = "renewable" /\ sub.prov = 0 /\ Waits(sub)
      /\ \A d \in Calls : call[d].action = "start" => d = c
  BY <1>1 DEF Account, Starting
<1>7. sub.status \notin Terminal
  BY <1>6 DEF Waits, Terminal
<1>8. /\ \A d \in Calls \ {c} : call'[d] = call[d]
      /\ \/ call'[c].pc = "accepted" /\ call'[c].made = i
         \/ call'[c].pc = "unknown"
  BY <1>1, AnswerChanges DEF Answering
<1>9. ASSUME NEW d \in Calls, call'[d].action = "start"
      PROVE  /\ call'[d].pc \in {"calling", "refused"} => \A j \in Subs : ~ Live(j)'
             /\ call'[d].pc = "accepted" => \A j \in Subs : Live(j)' => j = call'[d].made
  BY <1>5, <1>6, <1>8, <1>9
<1> QED BY <1>1, <1>5, <1>6, <1>7, <1>9 DEF Alone

\* Every step but the two late commands keeps the third part of the invariant.
LEMMA AloneStands ==
  ASSUME SubscriptionInv, [Next]_vars, late' = {}
  PROVE  Alone'
<1>1. Books /\ Account
  BY Before
<1>2. Alone
  <2>1. late = {}
    BY <1>1, OtherSteps
  <2> QED BY <2>1 DEF SubscriptionInv
<1>3. CASE \E c \in Calls : CreateSubscription(c)
  BY <1>1, <1>2, <1>3, CreatesAlone
<1>4. CASE ~ \E c \in Calls : CreateSubscription(c)
  <2>1. \A i \in Subs : Live(i)' => Live(i)
    BY <1>1, <1>4, SubscriptionsGoOn DEF Onward
  <2>2. ASSUME NEW c \in Calls, Begins(c), call'[c].action = "start", NEW i \in Subs
        PROVE  ~ Live(i)'
    <3>1. sub.mode = "renewable" => sub.status \in Terminal
      BY <2>2 DEF Begins
    <3>2. sub.mode \in {"free", "renewable"}
      BY <1>1, RowFacts, RowFields
    <3>3. ~ Live(i)
      BY <1>2, <3>1, <3>2 DEF Alone
    <3> QED BY <2>1, <3>3
  <2>3. /\ sub'.prov # 0 => \A i \in Subs : Live(i)' => i = sub'.prov
        /\ sub'.mode = "free" \/ sub'.status \in Terminal => \A i \in Subs : ~ Live(i)'
    <3>1. CASE RowKept
      <4>1. /\ sub'.prov = sub.prov /\ sub'.mode = sub.mode
            /\ sub'.status \in Terminal =>
                 \/ sub.status \in Terminal
                 \/ sub.prov \in Subs /\ provider'[sub.prov].status \in {"cancelled", "completed"}
        BY <3>1 DEF RowKept
      <4>2. ASSUME sub.prov \in Subs, provider'[sub.prov].status \in {"cancelled", "completed"},
                   NEW i \in Subs
            PROVE  ~ Live(i)'
        <5>1. Live(i) => i = sub.prov
          BY <1>2, <4>2, SubsPositive DEF Alone
        <5>2. i = sub.prov => ~ Live(i)'
          BY <4>2 DEF Live
        <5> QED BY <2>1, <5>1, <5>2
      <4> QED BY <1>2, <2>1, <4>1, <4>2 DEF Alone
    <3>2. CASE RowPaid
      <4>1. /\ sub'.prov = sub.prov /\ sub'.mode = "renewable" /\ sub'.status = "active"
        BY <3>2 DEF RowPaid
      <4> QED BY <1>2, <2>1, <4>1 DEF Alone, Terminal
    <3>3. ASSUME NEW c \in Calls, FinishStart(c)
          PROVE  /\ sub'.prov # 0 => \A i \in Subs : Live(i)' => i = sub'.prov
                 /\ sub'.mode = "free" \/ sub'.status \in Terminal => \A i \in Subs : ~ Live(i)'
      <4>1. /\ sub'.prov = call[c].made /\ sub'.status = "pending_payment" /\ sub'.mode = sub.mode
            /\ call[c].pc = "accepted" /\ call[c].action = "start"
        BY <1>1, <3>3, FinishedRow
      <4>2. sub.mode = "renewable"
        BY <1>1, <4>1 DEF Account, Starting
      <4>3. \A i \in Subs : Live(i) => i = call[c].made
        BY <1>2, <4>1 DEF Alone
      <4> QED BY <2>1, <4>1, <4>2, <4>3 DEF Terminal
    <3>4. ASSUME NEW c \in Calls, RejectProviderMutation(c)
          PROVE  /\ sub'.prov # 0 => \A i \in Subs : Live(i)' => i = sub'.prov
                 /\ sub'.mode = "free" \/ sub'.status \in Terminal => \A i \in Subs : ~ Live(i)'
      <4>1. /\ sub' = call[c].prev /\ call[c].pc = "refused" /\ call[c].action # "none"
            /\ sub = SavedBy(c)
        BY <1>1, <3>4, RejectedRow
      <4>2. CASE call[c].action = "start"
        <5>1. \A i \in Subs : ~ Live(i)
          BY <1>2, <4>1, <4>2 DEF Alone
        <5> QED BY <2>1, <5>1
      <4>3. CASE call[c].action \in {"plan", "cancel"}
        <5>1. sub'.prov = sub.prov /\ sub.prov # 0
          BY <1>1, <4>1, <4>3, SavedFields DEF Same
        <5>2. sub'.mode = "renewable" /\ sub'.status = "active"
          BY <1>1, <4>1, <4>3, TaskFacts DEF Task
        <5> QED BY <1>2, <2>1, <5>1, <5>2 DEF Alone, Terminal
      <4> QED BY <1>1, <4>1, <4>2, <4>3, TaskFacts
    <3> QED BY <1>1, <2>2, <3>1, <3>2, <3>3, <3>4, RowSteps
  <2>4. ASSUME NEW c \in Calls, call'[c].action = "start"
        PROVE  /\ call'[c].pc \in {"calling", "refused"} => \A i \in Subs : ~ Live(i)'
               /\ call'[c].pc = "accepted" => \A i \in Subs : Live(i)' => i = call'[c].made
    <3>1. CASE call'[c] = call[c]
      BY <1>2, <2>1, <2>4, <3>1 DEF Alone
    <3>2. CASE Begins(c)
      BY <2>2, <2>4, <3>2
    <3>3. CASE Replies(c)
      <4>1. call[c].action = "start"
        BY <2>4, <3>3 DEF Replies, Continues
      <4>2. call'[c].pc # "accepted"
        <5>1. SUFFICES ASSUME call'[c].pc = "accepted" PROVE FALSE
          OBVIOUS
        <5>2. /\ call'[c].made \in Subs /\ provider[call'[c].made].status = "none"
              /\ provider'[call'[c].made].status = "created"
          BY <3>3, <4>1, <5>1 DEF Replies
        <5>3. PICK i \in Subs : i = call'[c].made
          BY <5>2
        <5>4. Live(i)' /\ ~ Live(i)
          BY <5>2, <5>3 DEF Live
        <5> QED BY <2>1, <5>4
      <4>3. call'[c].pc \in {"calling", "refused"} => call[c].pc = "calling"
        BY <3>3 DEF Replies
      <4> QED BY <1>2, <2>1, <4>1, <4>2, <4>3 DEF Alone
    <3>4. CASE Leaves(c)
      BY <2>4, <3>4, LeftFacts
    <3> QED BY <1>1, <3>1, <3>2, <3>3, <3>4, CallCases
  <2>5. \A i, j \in Subs : Live(i)' /\ Live(j)' => i = j
    BY <1>2, <2>1 DEF Alone
  <2> QED BY <2>3, <2>4, <2>5 DEF Alone
<1> QED BY <1>3, <1>4

-----------------------------------------------------------------------------
(* The invariant, and what it says.                                        *)

\* A business starts free, with no command and no subscription.
LEMMA SubscriptionInit == Init => SubscriptionInv
<1> SUFFICES ASSUME Init PROVE SubscriptionInv
  OBVIOUS
<1> USE DEF Init
<1>1. /\ sub = FreeRow /\ sub \in Rows /\ Shape(sub) /\ sub.prov = 0 /\ sub.plan = Free
      /\ sub.paid = 0 /\ sub.mode = "free"
  BY FreeRowIsRow DEF FreeRow
<1>2. \A i \in Subs : provider[i] = NoSub
  OBVIOUS
<1>3. <<>> \in Seq(Paid) /\ <<>> \in Seq(EventRows) /\ Len(<<>>) = 0
  BY SMT
<1>4. 0 \in 0..MaxSubs /\ 0 <= TotalCount /\ 0 <= MaxEvents /\ 0 \in 0..MaxFaults /\ 1..0 = {}
      /\ ~ (0 > 0)
  BY SubscriptionBounds, SMT
<1>5. NoSub \in ProviderRows /\ NoSub.charges = <<>> /\ NoSub.status = "none"
  BY <1>3 DEF NoSub, ProviderRows, SubStatus, Plans
<1>6. \A i \in Subs : Book(i) /\ ~ Live(i)
  BY <1>2, <1>3, <1>4, <1>5 DEF Book, Live
<1>7. NoCall.pc = "none" /\ NoCall.action = "none" /\ NoCall.prev = FreeRow /\ NoCall.made = 0
  BY DEF NoCall
<1>8. NoCall \in Tasks
  BY <1>4, FreeRowIsRow DEF NoCall, Tasks, Plans
<1>9. \A c \in Calls : call[c] = NoCall
  OBVIOUS
<1>10. call \in [Calls -> Tasks]
  BY <1>8
<1>11. \A c \in Calls : Task(c) /\ Shape(call[c].prev) /\ call[c].prev = sub /\ call[c].action = "none"
  BY <1>1, <1>7, <1>9 DEF Task, Names, Answering, Shape
<1>12. Types
  BY <1>1, <1>3, <1>4, <1>5, <1>10, <1>11 DEF Types
<1>13. Books
  BY <1>1, <1>3, <1>4, <1>6, <1>11, <1>12 DEF Books, Names, Observed, Records
<1>14. Entitled(sub) /\ Billed(sub) /\ Covers(sub) /\ Waits(sub) /\ SingleOrigin
  BY <1>1, <1>4 DEF Entitled, Billed, Covers, Waits, SingleOrigin
<1>15. Account
  BY <1>11, <1>14 DEF Account, Starting, Fresh
<1>16. Alone
  BY <1>1, <1>6, <1>11 DEF Alone
<1> QED BY <1>13, <1>15, <1>16 DEF SubscriptionInv

\* Every step keeps the invariant.
LEMMA SubscriptionInductive == SubscriptionInv /\ [Next]_vars => SubscriptionInv'
<1> SUFFICES ASSUME SubscriptionInv, [Next]_vars PROVE SubscriptionInv'
  OBVIOUS
<1>1. Books'
  BY BooksStand DEF SubscriptionInv
<1>2. "restored" \notin late' => Account'
  BY AccountStands
<1>3. late' = {} => Alone'
  BY AloneStands
<1> QED BY <1>1, <1>2, <1>3 DEF SubscriptionInv

\* The invariant holds at all times.
LEMMA SubscriptionInvHolds == Spec => []SubscriptionInv
BY SubscriptionInit, SubscriptionInductive, PTL DEF Spec

\* The types hold, and so does the shape of a row that names no provider
\* subscription (resetSubscriptionForRenewableRestart).
THEOREM SubscriptionTypes == Spec => []TypeOK
<1>1. ASSUME SubscriptionInv PROVE TypeOK
  <2>1. Types /\ \A c \in Calls : call[c].prev \in Rows /\ call[c].made \in 0..MaxSubs
    BY <1>1, TaskFacts DEF SubscriptionInv, Books
  <2> QED BY <2>1 DEF Types, TypeOK, Shape
<1> QED BY <1>1, SubscriptionInvHolds, PTL

\* The plan a business has is the plan of a charge the provider made
\* (applySubscriptionEventTx, reconcileProviderState, StartRenewable), in
\* whatever order commands, events and maintenance come, until a rejected
\* command (rejectProviderMutation) puts an old row over newer changes.
THEOREM PlansArePaidFor == Spec => []EntitlementIsPaid
<1>1. ASSUME SubscriptionInv PROVE EntitlementIsPaid
  BY <1>1 DEF SubscriptionInv, Account, Entitled, EntitlementIsPaid
<1> QED BY <1>1, SubscriptionInvHolds, PTL

\* The charge a row stands on is billed, and from one origin: the event or
\* the maintenance (applySubscriptionEventTx, reconcileProviderState).
THEOREM ChargesAreBilledOnce == Spec => []ChargeBilledOnce
<1>1. ASSUME SubscriptionInv PROVE ChargeBilledOnce
  BY <1>1 DEF SubscriptionInv, Account, Billed, SingleOrigin, ChargeBilledOnce
<1> QED BY <1>1, SubscriptionInvHolds, PTL

\* A business has at most one provider subscription that can be charged
\* (StartRenewable), whatever answers are lost and wherever the service dies,
\* until one of two late commands has acted on a newer row.
THEOREM StartsAreNotRepeated == Spec => []OneLiveSubscription
<1>1. ASSUME SubscriptionInv PROVE OneLiveSubscription
  BY <1>1 DEF SubscriptionInv, Alone, OneLiveSubscription
<1> QED BY <1>1, SubscriptionInvHolds, PTL

=============================================================================
