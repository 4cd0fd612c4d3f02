---------------------------- MODULE BuildsProofs ----------------------------
(***************************************************************************)
(* What a row serves stays in the registry, and its bundle is of the       *)
(* generation on record, for any number of builds, source generations and  *)
(* base pins, with or without --prune-old.                                 *)
(***************************************************************************)
EXTENDS Builds, TLAPS

\* The leaves are Zenon's, but for arithmetic and the like.
USE Zenon

Fields == {"pc", "kind", "row", "meta", "ck", "prev", "displaced", "pushed", "todo", "doomed", "tag"}
RowFields == {"on", "built", "ck", "prev", "gen"}

Types ==
    /\ pins \in Pins
    /\ DOMAIN act = Actor /\ \A a \in Actor : DOMAIN act[a] = Fields
    /\ DOMAIN row = Row /\ \A r \in Row : DOMAIN row[r] = RowFields
    /\ DOMAIN archive = Row

\* Only a finished build has a rollback target.
Rows == \A r \in Row : (row[r].built => row[r].on) /\ (~row[r].built => row[r].prev = NoTag)

\* The rows an actor opens and removes.
Own(a) == IF a = "man" THEN Manual ELSE Managed

Opens == {"drift", "open"}
Building == {"resolve", "push", "promote", "stored", "finalize", "failed", "takeback"}
Removing == {"delete", "takeback"}

\* An actor a that is doing v is at one of its own rows, unless it rebuilds; a first build
\* has no rollback target; no tag to remove is the empty one.
Work(a, v) ==
    /\ v.pc \in Opens => v.kind = "new" /\ v.row \in Own(a)
    /\ v.pc = "remove" => v.row \in Own(a)
    /\ v.pc \in {"select", "next"} => v.kind # "new"
    /\ v.pc \in Building => v.row \in Row /\ (v.kind = "new" => v.row \in Own(a) /\ v.prev = NoTag)
    /\ v.pc \in Building /\ a = "man" => v.kind = "new"
    /\ v.pc = "stored" => v.kind # "new"
    /\ v.pc \in Building \ {"resolve"} => v.ck # NoTag
    /\ NoTag \notin v.doomed
    /\ v.pc \in Removing => v.tag # NoTag

Works == \A a \in Actor : Work(a, act[a])

\* A row that is about to be opened has not been built, and nobody else has it in hand.
Opening ==
    /\ act["op"].todo \subseteq Row
    /\ act["op"].pc \in Opens => ~row[act["op"].row].built
    /\ act["man"].pc \in Opens =>
          /\ ~row[act["man"].row].on /\ act["man"].row \notin act["op"].todo
          /\ act["op"].pc \in Building => act["op"].row # act["man"].row

\* Until a rebuild reads its row again, the row has the rollback target the rebuild knows,
\* or none.
Target ==
    act["op"].pc \in {"resolve", "push", "promote", "failed"} /\ act["op"].kind # "new"
        /\ row[act["op"].row].built
      => row[act["op"].row].prev \in {act["op"].prev, NoTag}

\* What a build is going to commit is in the registry, or a removal of it has set out.
Published ==
    \A a \in Actor :
        /\ act[a].pc = "push" /\ ~act[a].pushed => act[a].ck \in registry \/ <<a, act[a].ck>> \in raced
        /\ act[a].pc \in {"promote", "stored", "finalize"} =>
              act[a].ck \in registry \/ <<a, act[a].ck>> \in raced
        /\ act[a].pc = "finalize" /\ row[act[a].row].on =>
              act[a].prev \in registry \cup taken \cup {NoTag} \/ <<a, act[a].prev>> \in raced

\* The row a new build takes back with its push.
Excused(b, r) == act[b].pc = "takeback" /\ act[b].kind = "new" /\ r = act[b].row

\* A tag about to be deleted is nobody's that is not recorded: not of a build in flight,
\* not the rollback target of a rebuild about to commit, not of a finished row.
Spares(b) ==
    /\ \A a \in Actor : act[a].pc \in InFlight /\ act[a].ck = act[b].tag => <<a, act[b].tag>> \in raced
    /\ \A a \in Actor : act[a].pc = "finalize" /\ row[act[a].row].on /\ act[a].prev = act[b].tag
          => <<a, act[b].tag>> \in raced \/ act[b].tag \in taken \/ Excused(b, act[a].row)
    /\ \A r \in Row : row[r].built /\ act[b].tag \in {row[r].ck, row[r].prev}
          => act[b].tag \in taken \/ Excused(b, r)

Removals == \A b \in Actor : act[b].pc \in Removing => Spares(b)

\* a has promoted a bundle for r and not committed it.
Unc(a, r) == act[a].pc \in {"stored", "finalize"} /\ act[a].row = r

\* The bundle in place is of the one build that has promoted it, unless the row is torn.
Bundles ==
    \A r \in Row \ torn : row[r].on =>
        \A a \in Actor : Unc(a, r) => archive[r] = act[a].ck /\ \A b \in Actor : Unc(b, r) => b = a

\* ArchiveMatches, of the builds one by one.
Matches ==
    \A r \in Row \ torn : row[r].built /\ (\A a \in Actor : ~Unc(a, r)) => archive[r] = row[r].ck

Frame == Types /\ Rows /\ Works /\ Opening /\ Target
Core == RowsServedUnlessRaced /\ Published /\ Removals /\ Bundles /\ Matches
IInv == Frame /\ Core

-----------------------------------------------------------------------------
(* What a step of one actor leaves alone.                                  *)

\* The step is a's.
Others(a) ==
    /\ DOMAIN act' = Actor /\ DOMAIN act'[a] = Fields
    /\ \A b \in Actor : b # a => act'[b] = act[b]

\* No row changes, but for rows that go.
Shrunk == DOMAIN row' = Row /\ \A r \in Row : row'[r] = row[r] \/ row'[r] = NoRow

\* What raced another actor's build is still on record.
RacedKept(a) == \A b \in Actor, x \in raced : b # a /\ x[1] = b => x \in raced'

\* What an idle actor and a missing row look like.
LEMMA QuietFields ==
  /\ DOMAIN Quiet = Fields /\ Quiet.pc = "idle" /\ Quiet.todo = {} /\ Quiet.doomed = {}
  /\ DOMAIN NoRow = RowFields /\ ~NoRow.on /\ ~NoRow.built /\ NoRow.prev = NoTag
  BY DEF Quiet, Fields, NoRow, RowFields

\* A step that gives one actor a new thing to do.
LEMMA Acts ==
  ASSUME Types, NEW a \in Actor, NEW v, DOMAIN v = Fields, act' = [act EXCEPT ![a] = v]
  PROVE  Others(a) /\ act'[a] = v
  BY DEF Types, Others

\* A step that only moves one actor on.
LEMMA Goes ==
  ASSUME Types, NEW a \in Actor, NEW pc, Goto(a, pc)
  PROVE  /\ Others(a) /\ act'[a].pc = pc
         /\ \A f \in Fields \ {"pc"} : act'[a][f] = act[a][f]
  BY DEF Types, Others, Goto, Fields

\* Ends leaves the actor with nothing in hand.
LEMMA Ended ==
  ASSUME Types, NEW a \in Actor, Ends(a)
  PROVE  Others(a) /\ act'[a].pc = "idle" /\ act'[a].todo = {} /\ act'[a].doomed = {}
  BY Acts, QuietFields DEF Ends

\* Proceeds leaves the rebuild with what is still to do and what is doomed.
LEMMA Proceeded ==
  ASSUME Types, NEW a \in Actor, NEW doomed, Proceeds(a, doomed)
  PROVE  /\ Others(a) /\ act'[a].pc = "next" /\ act'[a].kind = "rebuild" /\ act'[a].todo = act[a].todo
         /\ act'[a].doomed = act[a].doomed \cup doomed
  <1> DEFINE v == [Quiet EXCEPT !.pc = "next", !.kind = "rebuild", !.meta = act[a].meta,
                     !.todo = act[a].todo, !.doomed = act[a].doomed \cup doomed]
  <1>1. /\ DOMAIN v = Fields /\ v.pc = "next" /\ v.kind = "rebuild" /\ v.todo = act[a].todo
        /\ v.doomed = act[a].doomed \cup doomed
    BY DEF Quiet, Fields
  <1>2. act' = [act EXCEPT ![a] = v]
    BY DEF Proceeds
  <1> HIDE DEF v
  <1> QED
    BY <1>1, <1>2, Acts

\* The rows of the two actors are apart: a schema's builds and manual ones.
LEMMA OwnRows ==
  /\ Own("man") = Manual /\ Own("op") = Managed /\ "man" \in Actor /\ "op" \in Actor
  /\ \A a \in Actor : Own(a) \subseteq Row
  /\ \A a, b \in Actor : \A r : r \in Own(a) /\ r \in Own(b) => a = b
  /\ \A a \in Actor : a = "man" \/ a = "op"
  BY BuildsAssumption DEF Own, Actor, Row

\* Rows that went have nothing built.
LEMMA ShrunkRows ==
  ASSUME Types, Rows, Shrunk
  PROVE  /\ DOMAIN row' = Row /\ \A r \in Row : DOMAIN row'[r] = RowFields
         /\ Rows'
         /\ \A r \in Row : row'[r].on => row'[r] = row[r]
         /\ \A r \in Row : row'[r].built => row'[r] = row[r] /\ row[r].built /\ row[r].on
  <1>1. ASSUME NEW r \in Row
        PROVE  /\ DOMAIN row'[r] = RowFields
               /\ (row'[r].built => row'[r].on) /\ (~row'[r].built => row'[r].prev = NoTag)
               /\ (row'[r].on => row'[r] = row[r])
    BY QuietFields DEF Types, Rows, Shrunk
  <1>2. Rows'
    BY <1>1 DEF Rows
  <1> QED
    BY <1>1, <1>2 DEF Shrunk, Rows

\* A step that leaves the builds table alone.
LEMMA SameRows ==
  ASSUME Types, UNCHANGED row
  PROVE  Shrunk
  BY DEF Types, Shrunk

\* An actor that goes on with what it has in hand, or drops it.
LEMMA FrameKept ==
  ASSUME Frame, NEW a \in Actor, Others(a), Work(a, act'[a]), pins' \in Pins, Shrunk,
         DOMAIN archive' = Row, act'[a].todo \subseteq act[a].todo,
         act'[a].pc \in Opens => act[a].pc \in Opens /\ act'[a].row = act[a].row,
         act'[a].pc \in Building => act[a].pc \in Building /\ act'[a].row = act[a].row,
         act'[a].pc \in {"resolve", "push", "promote", "failed"} =>
             /\ act[a].pc \in {"resolve", "push", "promote", "failed"}
             /\ act'[a].prev = act[a].prev /\ act'[a].kind = act[a].kind
  PROVE  Frame'
  <1>1. Types' /\ Rows'
    BY ShrunkRows DEF Frame, Types, Others
  <1>2. Works'
    BY DEF Frame, Works, Others
  <1>3. /\ act'["op"].todo \subseteq act["op"].todo
        /\ act'["op"].pc \in Opens => act["op"].pc \in Opens /\ act'["op"].row = act["op"].row
        /\ act'["op"].pc \in Building => act["op"].pc \in Building /\ act'["op"].row = act["op"].row
        /\ act'["man"].pc \in Opens => act["man"].pc \in Opens /\ act'["man"].row = act["man"].row
        /\ act'["op"].pc \in {"resolve", "push", "promote", "failed"} =>
             /\ act["op"].pc \in {"resolve", "push", "promote", "failed"}
             /\ act'["op"].prev = act["op"].prev /\ act'["op"].kind = act["op"].kind
    BY OwnRows DEF Others
  <1>4. ASSUME act'["op"].pc \in Opens
        PROVE  ~row'[act'["op"].row].built
    <2>1. ~row[act["op"].row].built /\ act["op"].row \in Row /\ act'["op"].row = act["op"].row
      BY <1>3, <1>4, OwnRows DEF Frame, Works, Work, Opening
    <2> QED
      BY <2>1, ShrunkRows DEF Frame
  <1>5. ASSUME act'["man"].pc \in Opens
        PROVE  /\ ~row'[act'["man"].row].on /\ act'["man"].row \notin act'["op"].todo
               /\ act'["op"].pc \in Building => act'["op"].row # act'["man"].row
    <2>1. /\ ~row[act["man"].row].on /\ act["man"].row \notin act["op"].todo
          /\ act["op"].pc \in Building => act["op"].row # act["man"].row
          /\ act["man"].row \in Row
      BY <1>3, <1>5, OwnRows DEF Frame, Works, Work, Opening
    <2>2. ~row'[act["man"].row].on
      BY <2>1, ShrunkRows DEF Frame
    <2> QED
      BY <1>3, <1>5, <2>1, <2>2
  <1>6. Opening'
    BY <1>3, <1>4, <1>5 DEF Frame, Opening
  <1>7. Target'
    <2> SUFFICES ASSUME act'["op"].pc \in {"resolve", "push", "promote", "failed"}, act'["op"].kind # "new",
                        row'[act'["op"].row].built
                 PROVE  row'[act'["op"].row].prev \in {act'["op"].prev, NoTag}
      BY DEF Target
    <2>1. act["op"].pc \in Building /\ act'["op"].pc \in Building
      BY <1>3 DEF Building
    <2>2. act["op"].row \in Row /\ act'["op"].row = act["op"].row
      BY <1>3, <2>1, OwnRows DEF Frame, Works, Work
    <2>3. row'[act["op"].row] = row[act["op"].row]
      BY <2>2, ShrunkRows DEF Frame
    <2> QED
      BY <1>3, <2>2, <2>3 DEF Frame, Target
  <1> QED
    BY <1>1, <1>2, <1>6, <1>7 DEF Frame

\* More in the registry, and no row more.
LEMMA ServedKept ==
  ASSUME IInv, Shrunk, registry \subseteq registry', taken \subseteq taken'
  PROVE  RowsServedUnlessRaced'
  <1> SUFFICES ASSUME NEW r \in Row, row'[r].built
               PROVE  {row'[r].ck, row'[r].prev} \subseteq registry' \cup taken' \cup {NoTag}
    BY DEF RowsServedUnlessRaced
  <1>1. row'[r] = row[r] /\ row[r].built
    BY ShrunkRows DEF IInv, Frame
  <1> QED
    BY <1>1 DEF IInv, Core, RowsServedUnlessRaced

\* Published, of what a is doing.
Pub(a) ==
    /\ act[a].pc = "push" /\ ~act[a].pushed => act[a].ck \in registry \/ <<a, act[a].ck>> \in raced
    /\ act[a].pc \in {"promote", "stored", "finalize"} =>
          act[a].ck \in registry \/ <<a, act[a].ck>> \in raced
    /\ act[a].pc = "finalize" /\ row[act[a].row].on =>
          act[a].prev \in registry \cup taken \cup {NoTag} \/ <<a, act[a].prev>> \in raced

\* The rollback target of a rebuild about to commit is served, or on record.
LEMMA PubTarget ==
  ASSUME NEW a, Pub(a), act[a].pc = "finalize", row[act[a].row].on
  PROVE  act[a].prev \in registry \cup taken \cup {NoTag} \/ <<a, act[a].prev>> \in raced
  BY DEF Pub

\* What a has in hand aside, a step that deletes no tag keeps what builds are to commit published.
LEMMA PublishedKept ==
  ASSUME IInv, NEW a \in Actor, Others(a), Shrunk, RacedKept(a),
         registry \subseteq registry', taken \subseteq taken', Pub(a)'
  PROVE  Published'
  <1> SUFFICES ASSUME NEW b \in Actor, b # a
               PROVE  Pub(b)'
    BY DEF Published, Pub
  <1>1. act'[b] = act[b] /\ Pub(b)
    BY DEF Others, IInv, Core, Published, Pub
  <1>2. \A t : <<b, t>> \in raced => <<b, t>> \in raced'
    BY DEF RacedKept
  <1>3. act[b].pc = "finalize" /\ row'[act[b].row].on => row[act[b].row].on
    <2>1. act[b].pc = "finalize" => act[b].row \in Row
      BY DEF IInv, Frame, Works, Work, Building
    <2> QED
      BY <2>1, ShrunkRows DEF IInv, Frame
  <1> QED
    BY <1>1, <1>2, <1>3 DEF Pub

\* A removal under way spares what it spared, whatever else another actor does.
LEMMA SparesKept ==
  ASSUME IInv, NEW a \in Actor, Others(a), Shrunk, RacedKept(a), taken \subseteq taken',
         NEW b \in Actor, b # a, act[b].pc \in Removing,
         act'[a].pc \in InFlight /\ act'[a].ck = act[b].tag => <<a, act[b].tag>> \in raced',
         act'[a].pc = "finalize" /\ row'[act'[a].row].on /\ act'[a].prev = act[b].tag
           => <<a, act[b].tag>> \in raced' \/ act[b].tag \in taken' \/ Excused(b, act'[a].row)
  PROVE  Spares(b)'
  <1>1. b # a /\ act'[b] = act[b] /\ act[b].pc \in Removing
    BY DEF Others
  <1>2. /\ \A c \in Actor : act[c].pc \in InFlight /\ act[c].ck = act[b].tag => <<c, act[b].tag>> \in raced
        /\ \A c \in Actor : act[c].pc = "finalize" /\ row[act[c].row].on /\ act[c].prev = act[b].tag
              => <<c, act[b].tag>> \in raced \/ act[b].tag \in taken \/ Excused(b, act[c].row)
        /\ \A r \in Row : row[r].built /\ act[b].tag \in {row[r].ck, row[r].prev}
              => act[b].tag \in taken \/ Excused(b, r)
    BY <1>1 DEF IInv, Core, Removals, Spares
  <1>3. ASSUME NEW c \in Actor, c # a
        PROVE  /\ act'[c] = act[c]
               /\ \A t : <<c, t>> \in raced => <<c, t>> \in raced'
               /\ act[c].pc = "finalize" /\ row'[act[c].row].on => row[act[c].row].on
    <2>1. act[c].pc = "finalize" => act[c].row \in Row
      BY DEF IInv, Frame, Works, Work, Building
    <2>2. act[c].pc = "finalize" /\ row'[act[c].row].on => row[act[c].row].on
      BY <2>1, ShrunkRows DEF IInv, Frame
    <2> QED
      BY <1>3, <2>2 DEF Others, RacedKept
  <1>4. ASSUME NEW c \in Actor, act'[c].pc \in InFlight, act'[c].ck = act[b].tag
        PROVE  <<c, act[b].tag>> \in raced'
    <2>1. CASE c = a
      BY <1>1, <1>4, <2>1
    <2>2. CASE c # a
      BY <1>2, <1>3, <1>4, <2>2
    <2> QED
      BY <2>1, <2>2
  <1>5. ASSUME NEW c \in Actor, act'[c].pc = "finalize", row'[act'[c].row].on, act'[c].prev = act[b].tag
        PROVE  <<c, act[b].tag>> \in raced' \/ act[b].tag \in taken' \/ Excused(b, act'[c].row)
    <2>1. CASE c = a
      BY <1>1, <1>5, <2>1
    <2>2. CASE c # a
      BY <1>2, <1>3, <1>5, <2>2
    <2> QED
      BY <2>1, <2>2
  <1>6. ASSUME NEW r \in Row, row'[r].built, act[b].tag \in {row'[r].ck, row'[r].prev}
        PROVE  act[b].tag \in taken' \/ Excused(b, r)
    <2>1. row'[r] = row[r] /\ row[r].built
      BY <1>6, ShrunkRows DEF IInv, Frame
    <2> QED
      BY <1>2, <1>6, <2>1
  <1>7. \A r : Excused(b, r) <=> act'[b].pc = "takeback" /\ act'[b].kind = "new" /\ r = act'[b].row
    BY <1>1 DEF Excused
  <1> QED
    BY <1>1, <1>4, <1>5, <1>6, <1>7, SMT DEF Spares, Excused

\* An actor that sets out on no removal keeps the removals under way harmless.
LEMMA RemovalsKept ==
  ASSUME IInv, NEW a \in Actor, Others(a), Shrunk, RacedKept(a), taken \subseteq taken',
         act'[a].pc \notin Removing,
         \A b \in Actor : act'[a].pc \in InFlight /\ b # a /\ act[b].pc \in Removing
             /\ act'[a].ck = act[b].tag => <<a, act[b].tag>> \in raced',
         \A b \in Actor : act'[a].pc = "finalize" /\ b # a /\ act[b].pc \in Removing
             /\ row'[act'[a].row].on /\ act'[a].prev = act[b].tag
           => <<a, act[b].tag>> \in raced' \/ act[b].tag \in taken' \/ Excused(b, act'[a].row)
  PROVE  Removals'
  <1> SUFFICES ASSUME NEW b \in Actor, act'[b].pc \in Removing
               PROVE  Spares(b)'
    BY DEF Removals
  <1>1. b # a /\ act[b].pc \in Removing
    BY DEF Others
  <1> QED
    BY <1>1, SparesKept

\* No bundle is promoted and none committed.
LEMMA BundlesKept ==
  ASSUME IInv, NEW a \in Actor, Others(a), Shrunk,
         \A r \in Row : row'[r].on /\ r \notin torn' =>
             /\ (Unc(a, r)' <=> Unc(a, r)) /\ (Unc(a, r) => act'[a].ck = act[a].ck)
             /\ r \notin torn /\ archive'[r] = archive[r]
  PROVE  Bundles' /\ Matches'
  <1>1. ASSUME NEW b \in Actor, NEW r \in Row, row'[r].on, r \notin torn'
        PROVE  (Unc(b, r)' <=> Unc(b, r)) /\ (Unc(b, r) => act'[b].ck = act[b].ck)
    <2>1. CASE b = a
      BY <1>1, <2>1
    <2>2. CASE b # a
      BY <2>2 DEF Others, Unc
    <2> QED
      BY <2>1, <2>2
  <1>2. Bundles'
    <2> SUFFICES ASSUME NEW r \in Row, r \notin torn', row'[r].on, NEW b \in Actor, Unc(b, r)'
                 PROVE  archive'[r] = act'[b].ck /\ \A c \in Actor : Unc(c, r)' => c = b
      BY DEF Bundles
    <2>1. row'[r] = row[r] /\ r \notin torn /\ archive'[r] = archive[r]
      BY ShrunkRows DEF IInv, Frame
    <2>2. Unc(b, r) /\ act'[b].ck = act[b].ck /\ row[r].on
      BY <1>1, <2>1
    <2>3. archive[r] = act[b].ck /\ \A c \in Actor : Unc(c, r) => c = b
      BY <2>1, <2>2 DEF IInv, Core, Bundles
    <2> QED
      BY <1>1, <2>1, <2>2, <2>3
  <1>3. Matches'
    <2> SUFFICES ASSUME NEW r \in Row, r \notin torn', row'[r].built, \A b \in Actor : ~Unc(b, r)'
                 PROVE  archive'[r] = row'[r].ck
      BY DEF Matches
    <2>1. row'[r] = row[r] /\ row'[r].on /\ row[r].built
      BY ShrunkRows DEF IInv, Frame
    <2> QED
      BY <1>1, <2>1 DEF IInv, Core, Matches
  <1> QED
    BY <1>2, <1>3

\* An actor that is not building, or stops, and removes nothing.
LEMMA CoreKept ==
  ASSUME IInv, NEW a \in Actor, Others(a), Shrunk, RacedKept(a), registry \subseteq registry', taken' = taken,
         act[a].pc \notin {"stored", "finalize"}, act'[a].pc \notin InFlight \cup Removing,
         \A r \in Row : row'[r].on => (r \in torn' <=> r \in torn) /\ archive'[r] = archive[r]
  PROVE  Core'
  <1>1. RowsServedUnlessRaced'
    BY ServedKept
  <1>2. Published'
    <2>1. Pub(a)'
      BY DEF Pub, InFlight
    <2> QED
      BY <2>1, PublishedKept
  <1>3. Removals'
    <2>1. act'[a].pc \notin InFlight /\ act'[a].pc # "finalize" /\ act'[a].pc \notin Removing
      BY DEF InFlight
    <2> QED
      BY <2>1, RemovalsKept
  <1>4. Bundles' /\ Matches'
    <2>1. \A r : ~Unc(a, r) /\ ~Unc(a, r)'
      BY DEF Unc, InFlight
    <2> QED
      BY <2>1, BundlesKept
  <1> QED
    BY <1>1, <1>2, <1>3, <1>4 DEF Core

-----------------------------------------------------------------------------
(* One lemma per action.                                                   *)

Busy == Opens \cup Building \cup Removing \cup {"remove"}

\* An actor with no row in hand and no tag to remove.
LEMMA FreeWorks ==
  ASSUME NEW a, NEW v, v.pc \notin Busy, NoTag \notin v.doomed,
         v.pc \in {"select", "next"} => v.kind # "new"
  PROVE  Work(a, v)
  BY DEF Work, Busy, Building

\* The actor is done with what it had in hand.
LEMMA FrameSettled ==
  ASSUME Frame, NEW a \in Actor, Others(a), act'[a].pc \in {"idle", "select", "next", "doom"}, pins' \in Pins, Shrunk,
         DOMAIN archive' = Row, act'[a].todo \subseteq act[a].todo, NoTag \notin act'[a].doomed,
         act'[a].pc \in {"select", "next"} => act'[a].kind # "new"
  PROVE  Frame'
  <1>1. act'[a].pc \notin Busy
    BY DEF Busy, Opens, Building, Removing
  <1>2. Work(a, act'[a])
    BY <1>1, FreeWorks
  <1>3. act'[a].pc \notin Opens /\ act'[a].pc \notin Building
    BY <1>1 DEF Busy
  <1>4. act'[a].pc \notin {"resolve", "push", "promote", "failed"}
    BY <1>3 DEF Building
  <1> QED
    BY <1>2, <1>3, <1>4, FrameKept

\* AfterFailure: the row of a new build goes, and nothing else does.
LEMMA Failed ==
  ASSUME Frame, NEW a \in Actor, act[a].pc \in Building, AfterFailure(a)
  PROVE  /\ Others(a) /\ act'[a].pc \in {"idle", "next"} /\ (act'[a].pc = "next" => act'[a].kind # "new")
         /\ act'[a].todo \subseteq act[a].todo
         /\ NoTag \notin act'[a].doomed /\ act'[a].pc \notin InFlight \cup Removing
         /\ Shrunk /\ RacedKept(a)
         /\ \A r \in Row : row'[r].on => (r \in torn' <=> r \in torn)
         /\ act[a].kind = "new" => ~row'[act[a].row].on
  <1>1. RacedKept(a)
    BY DEF AfterFailure, RacedByOthers, RacedKept
  <1>2. act[a].row \in Row /\ NoTag \notin act[a].doomed
    BY DEF Frame, Works, Work
  <1>3. /\ Others(a) /\ act'[a].pc \in {"idle", "next"} /\ (act'[a].pc = "next" => act'[a].kind # "new")
        /\ act'[a].todo \subseteq act[a].todo
        /\ NoTag \notin act'[a].doomed
    <2>1. CASE Ends(a)
      BY <2>1, Ended DEF Frame
    <2>2. CASE Proceeds(a, {})
      <3>1. /\ Others(a) /\ act'[a].pc = "next" /\ act'[a].kind = "rebuild" /\ act'[a].todo = act[a].todo
            /\ act'[a].doomed = act[a].doomed \cup {}
        BY <2>2, Proceeded DEF Frame
      <3> QED
        BY <1>2, <3>1
    <2> QED
      BY <2>1, <2>2 DEF AfterFailure
  <1>4. CASE act[a].kind = "new"
    <2>1. row' = [row EXCEPT ![act[a].row] = NoRow] /\ torn' = torn \ {act[a].row}
      BY <1>4 DEF AfterFailure, removeBuildMetadata
    <2>2. DOMAIN row' = Row /\ row'[act[a].row] = NoRow
          /\ \A r \in Row : r # act[a].row => row'[r] = row[r]
      BY <1>2, <2>1 DEF Frame, Types
    <2>3. Shrunk
      BY <2>2 DEF Shrunk
    <2>4. \A r \in Row : row'[r].on => (r \in torn' <=> r \in torn)
      BY <2>1, <2>2, QuietFields
    <2> QED
      BY <1>1, <1>3, <2>2, <2>3, <2>4, QuietFields DEF InFlight, Removing
  <1>5. CASE act[a].kind # "new"
    <2>1. UNCHANGED <<row, torn>>
      BY <1>5 DEF AfterFailure
    <2>2. Shrunk
      BY <2>1, SameRows DEF Frame
    <2> QED
      BY <1>1, <1>3, <1>5, <2>1, <2>2 DEF InFlight, Removing
  <1> QED
    BY <1>4, <1>5

\* The drift check.
LEMMA generateBuildsKeeps ==
  ASSUME IInv, NEW a \in Actor, generateBuilds(a)
  PROVE  IInv'
  <1>1. /\ act[a].pc = "drift" /\ Frame
        /\ UNCHANGED <<pins, row, archive, registry, raced, taken, torn>> /\ pins' \in Pins /\ DOMAIN archive' = Row
        /\ Types
    BY DEF IInv, generateBuilds, At, Frame, Types
  <1>2. Shrunk /\ RacedKept(a)
    BY <1>1, SameRows DEF RacedKept
  <1>3. CASE Goto(a, "open")
    <2>1. /\ Others(a) /\ act'[a].pc = "open"
          /\ \A f \in Fields \ {"pc"} : act'[a][f] = act[a][f]
      BY <1>1, <1>3, Goes
    <2>2. act'[a].row = act[a].row /\ act'[a].kind = act[a].kind /\ act'[a].todo = act[a].todo
          /\ act'[a].doomed = act[a].doomed
      BY <2>1 DEF Fields
    <2>3. Work(a, act'[a])
      BY <1>1, <2>1, <2>2 DEF Frame, Works, Work, Opens, Building, Removing
    <2>4. Frame'
      BY <1>1, <1>2, <2>1, <2>2, <2>3, FrameKept DEF Opens, Building
    <2>5. Core'
      BY <1>1, <1>2, <2>1, CoreKept DEF InFlight, Removing
    <2> QED
      BY <2>4, <2>5 DEF IInv
  <1>4. CASE Ends(a)
    <2>1. Others(a) /\ act'[a].pc = "idle" /\ act'[a].todo = {} /\ act'[a].doomed = {}
      BY <1>1, <1>4, Ended
    <2>2. Frame'
      BY <1>1, <1>2, <2>1, FrameSettled
    <2>3. Core'
      BY <1>1, <1>2, <2>1, CoreKept DEF InFlight, Removing
    <2> QED
      BY <2>2, <2>3 DEF IInv
  <1> QED
    BY <1>3, <1>4 DEF generateBuilds

\* A build that fails before anything was published.
LEMMA buildFailsKeeps ==
  ASSUME IInv, NEW a \in Actor, buildFails(a)
  PROVE  IInv'
  <1>1. /\ act[a].pc = "push" /\ Frame /\ AfterFailure(a)
        /\ UNCHANGED <<archive, registry, taken>> /\ pins' \in Pins /\ DOMAIN archive' = Row
    BY DEF IInv, buildFails, At, Frame, Types
  <1>2. act[a].pc \in Building /\ act[a].pc \notin {"stored", "finalize"}
    BY <1>1 DEF Building
  <1>3. Frame'
    BY <1>1, <1>2, Failed, FrameSettled
  <1>4. Core'
    BY <1>1, <1>2, Failed, CoreKept
  <1> QED
    BY <1>3, <1>4 DEF IInv

\* The identity is stamped; a removal of that tag under way is recorded as raced.
LEMMA executeBuildKeeps ==
  ASSUME IInv, NEW a \in Actor, executeBuild(a)
  PROVE  IInv'
  <1> DEFINE t == buildContentChecksum(act[a].meta)
  <1>1. /\ act[a].pc = "resolve" /\ Frame /\ Types
        /\ act' = [act EXCEPT ![a].pc = "push", ![a].ck = t, ![a].pushed = t \notin registry]
        /\ raced' = RacedByOthers(a) \cup (IF BeingRemoved(t) THEN {<<a, t>>} ELSE {})
        /\ UNCHANGED <<pins, row, archive, registry, taken, torn>> /\ pins' \in Pins /\ DOMAIN archive' = Row
    BY DEF IInv, executeBuild, At, Frame, Types
  <1>2. t # NoTag
    <2>1. pins # 0
      BY BuildsAssumption, SMT DEF IInv, Frame, Types
    <2> QED
      BY <2>1, SMT DEF NoTag, buildContentChecksum
  <1> HIDE DEF t
  <1>3. /\ Others(a) /\ act'[a].pc = "push" /\ act'[a].ck = t /\ (~act'[a].pushed => t \in registry)
        /\ act'[a].row = act[a].row /\ act'[a].kind = act[a].kind /\ act'[a].prev = act[a].prev
        /\ act'[a].todo = act[a].todo /\ act'[a].doomed = act[a].doomed
    <2>1. /\ Others(a) /\ act'[a].pc = "push" /\ act'[a].ck = t /\ (~act'[a].pushed => t \in registry)
      BY <1>1 DEF Types, Others, Fields
    <2>2. /\ act'[a].row = act[a].row /\ act'[a].kind = act[a].kind /\ act'[a].prev = act[a].prev
          /\ act'[a].todo = act[a].todo /\ act'[a].doomed = act[a].doomed
      BY <1>1 DEF Types, Fields
    <2> QED
      BY <2>1, <2>2
  <1>4. Shrunk /\ RacedKept(a)
    BY <1>1, SameRows DEF RacedKept, RacedByOthers
  <1>5. Work(a, act'[a])
    BY <1>1, <1>2, <1>3 DEF Frame, Works, Work, Opens, Building, Removing
  <1>6. Frame'
    BY <1>1, <1>3, <1>4, <1>5, FrameKept DEF Opens, Building
  <1>7. RowsServedUnlessRaced'
    BY <1>1, <1>4, ServedKept
  <1>8. Published'
    <2>1. ~act'[a].pushed => act'[a].ck \in registry'
      BY <1>1, <1>3, SMT
    <2>2. Pub(a)'
      BY <1>3, <2>1 DEF Pub
    <2> QED
      BY <1>1, <1>3, <1>4, <2>2, PublishedKept
  <1>9. Removals'
    <2>1. ASSUME NEW b \in Actor, act[b].pc \in Removing, act'[a].ck = act[b].tag
          PROVE  <<a, act[b].tag>> \in raced'
      BY <1>1, <1>3, <2>1 DEF BeingRemoved, Removing
    <2> QED
      BY <1>1, <1>3, <1>4, <2>1, RemovalsKept DEF Removing
  <1>10. Bundles' /\ Matches'
    BY <1>1, <1>3, <1>4, BundlesKept DEF Unc
  <1> QED
    BY <1>6, <1>7, <1>8, <1>9, <1>10 DEF IInv, Core

\* After the push, or without one when the registry served the tag, the tag is there.
LEMMA publishImagesKeeps ==
  ASSUME IInv, NEW a \in Actor, publishImages(a)
  PROVE  IInv'
  <1>1. /\ act[a].pc = "push" /\ Frame /\ Types
        /\ UNCHANGED <<pins, row, archive, raced, taken, torn>> /\ pins' \in Pins /\ DOMAIN archive' = Row
    BY DEF IInv, publishImages, At, Frame, Types
  <1>2. Shrunk /\ RacedKept(a) /\ taken \subseteq taken'
    BY <1>1, SameRows DEF RacedKept
  <1>3. Work(a, act[a]) /\ Pub(a)
    BY DEF IInv, Frame, Works, Core, Published, Pub
  <1>4. /\ Others(a) /\ act'[a].pc \in {"promote", "failed"} /\ registry \subseteq registry'
        /\ act'[a].ck = act[a].ck /\ act'[a].row = act[a].row /\ act'[a].kind = act[a].kind
        /\ act'[a].prev = act[a].prev /\ act'[a].todo = act[a].todo /\ act'[a].doomed = act[a].doomed
        /\ act'[a].pc = "promote" => act[a].ck \in registry' \/ <<a, act[a].ck>> \in raced'
    <2>1. CASE /\ registry' = IF act[a].pushed THEN registry \cup {act[a].ck} ELSE registry
               /\ Goto(a, "promote")
      <3>1. /\ Others(a) /\ act'[a].pc = "promote"
            /\ \A f \in Fields \ {"pc"} : act'[a][f] = act[a][f]
        BY <1>1, <2>1, Goes
      <3>2. registry \subseteq registry'
        BY <2>1
      <3>3. act[a].ck \in registry' \/ <<a, act[a].ck>> \in raced'
        <4>1. CASE act[a].pushed
          BY <2>1, <4>1
        <4>2. CASE ~act[a].pushed
          BY <1>1, <1>3, <3>2, <4>2 DEF Pub
        <4> QED
          BY <4>1, <4>2
      <3> QED
        BY <3>1, <3>2, <3>3 DEF Fields
    <2>2. CASE /\ act' = [act EXCEPT ![a].pc = "failed", ![a].pushed = FALSE]
               /\ registry' \in {registry, registry \cup {act[a].ck}}
      <3>1. registry \subseteq registry'
        BY <2>2
      <3>2. Others(a) /\ act'[a].pc = "failed"
        BY <1>1, <2>2 DEF Types, Others, Fields
      <3>3. /\ act'[a].ck = act[a].ck /\ act'[a].row = act[a].row /\ act'[a].kind = act[a].kind
            /\ act'[a].prev = act[a].prev /\ act'[a].todo = act[a].todo /\ act'[a].doomed = act[a].doomed
        BY <1>1, <2>2 DEF Types, Fields
      <3> QED
        BY <3>1, <3>2, <3>3
    <2> QED
      BY <2>1, <2>2 DEF publishImages
  <1>5. Work(a, act'[a])
    BY <1>1, <1>3, <1>4 DEF Work, Opens, Building, Removing
  <1>6. Frame'
    BY <1>1, <1>2, <1>4, <1>5, FrameKept DEF Opens, Building
  <1>7. RowsServedUnlessRaced'
    BY <1>2, <1>4, ServedKept
  <1>8. Published'
    <2>1. Pub(a)'
      BY <1>4 DEF Pub
    <2> QED
      BY <1>2, <1>4, <2>1, PublishedKept
  <1>9. Removals'
    <2>1. ASSUME NEW b \in Actor, act[b].pc \in Removing, act'[a].ck = act[b].tag
          PROVE  <<a, act[b].tag>> \in raced'
      BY <1>1, <1>4, <2>1 DEF IInv, Core, Removals, Spares, InFlight
    <2> QED
      BY <1>2, <1>4, <2>1, RemovalsKept DEF Removing
  <1>10. Bundles' /\ Matches'
    BY <1>1, <1>2, <1>4, BundlesKept DEF Unc
  <1> QED
    BY <1>6, <1>7, <1>8, <1>9, <1>10 DEF IInv, Core

\* The bundle in place is the one promoted, and of nobody else unless the row is torn.
LEMMA promoteBundles ==
  ASSUME IInv, NEW a \in Actor, Others(a), Shrunk, act[a].row \in Row, act[a].pc = "promote",
         act'[a].pc \in {"stored", "finalize"}, act'[a].row = act[a].row, act'[a].ck = act[a].ck,
         archive' = [archive EXCEPT ![act[a].row] = act[a].ck],
         torn' = IF Uncommitted(act[a].row) = {} THEN torn \ {act[a].row} ELSE torn \cup {act[a].row}
  PROVE  Bundles' /\ Matches'
  <1>1. \A r : Unc(a, r)' <=> r = act[a].row
    BY DEF Unc
  <1>2. \A b \in Actor : b # a => \A r : (Unc(b, r)' <=> Unc(b, r)) /\ act'[b] = act[b]
    BY DEF Others, Unc
  <1>3. archive'[act[a].row] = act[a].ck
    BY DEF IInv, Frame, Types
  <1>4. ASSUME NEW r \in Row, r # act[a].row, r \notin torn', row'[r].on
        PROVE  r \notin torn /\ row'[r] = row[r] /\ archive'[r] = archive[r]
    BY <1>4, ShrunkRows DEF IInv, Frame, Types
  <1>5. ASSUME act[a].row \notin torn'
        PROVE  \A b \in Actor : Unc(b, act[a].row)' => b = a
    <2>1. Uncommitted(act[a].row) = {}
      BY <1>5
    <2>2. \A b \in Actor : ~Unc(b, act[a].row)
      BY <2>1 DEF Uncommitted, Unc
    <2> QED
      BY <1>2, <2>2
  <1>6. Bundles'
    <2> SUFFICES ASSUME NEW r \in Row, r \notin torn', row'[r].on, NEW b \in Actor, Unc(b, r)'
                 PROVE  archive'[r] = act'[b].ck /\ \A c \in Actor : Unc(c, r)' => c = b
      BY DEF Bundles
    <2>1. CASE r = act[a].row
      BY <1>3, <1>5, <2>1
    <2>2. CASE r # act[a].row
      <3>1. b # a /\ Unc(b, r) /\ act'[b] = act[b] /\ r \notin torn /\ row[r].on /\ archive'[r] = archive[r]
        BY <1>1, <1>2, <1>4, <2>2
      <3>2. archive[r] = act[b].ck /\ \A c \in Actor : Unc(c, r) => c = b
        BY <3>1 DEF IInv, Core, Bundles
      <3>3. \A c \in Actor : Unc(c, r)' => Unc(c, r)
        BY <1>1, <1>2, <2>2
      <3> QED
        BY <3>1, <3>2, <3>3
    <2> QED
      BY <2>1, <2>2
  <1>7. Matches'
    <2> SUFFICES ASSUME NEW r \in Row, r \notin torn', row'[r].built, \A b \in Actor : ~Unc(b, r)'
                 PROVE  archive'[r] = row'[r].ck
      BY DEF Matches
    <2>1. r # act[a].row
      BY <1>1
    <2>2. row'[r].on /\ row'[r] = row[r]
      BY ShrunkRows DEF IInv, Frame
    <2>3. r \notin torn /\ archive'[r] = archive[r]
      BY <1>4, <2>1, <2>2
    <2>4. \A b \in Actor : ~Unc(b, r)
      <3>1. ~Unc(a, r)
        BY DEF Unc
      <3> QED
        BY <1>2, <3>1
    <2> QED
      BY <2>2, <2>3, <2>4 DEF IInv, Core, Matches
  <1> QED
    BY <1>6, <1>7

\* The bundle is renamed into place, or is not.
LEMMA promoteKeeps ==
  ASSUME IInv, NEW a \in Actor, promote(a)
  PROVE  IInv'
  <1>1. /\ act[a].pc = "promote" /\ Frame /\ Types
        /\ UNCHANGED <<pins, row, registry, raced, taken>> /\ pins' \in Pins
    BY DEF IInv, promote, At, Frame, Types
  <1>2. Shrunk /\ RacedKept(a) /\ taken \subseteq taken' /\ registry \subseteq registry'
    BY <1>1, SameRows DEF RacedKept
  <1>3. Work(a, act[a]) /\ Pub(a) /\ act[a].row \in Row /\ \A b \in Actor : act[b].pc \in Removing => act[b].tag # NoTag
    BY <1>1 DEF IInv, Frame, Works, Work, Core, Published, Pub, Building
  <1>4. ASSUME NEW b \in Actor, act[b].pc \in Removing, act[a].ck = act[b].tag
        PROVE  <<a, act[b].tag>> \in raced'
    BY <1>1, <1>4 DEF IInv, Core, Removals, Spares, InFlight
  <1>5. RowsServedUnlessRaced'
    BY <1>2, ServedKept
  <1>6. CASE /\ archive' = [archive EXCEPT ![act[a].row] = act[a].ck]
             /\ torn' = IF Uncommitted(act[a].row) = {} THEN torn \ {act[a].row} ELSE torn \cup {act[a].row}
             /\ act' = [act EXCEPT ![a].pc = IF act[a].kind = "new" THEN "finalize" ELSE "stored",
                                   ![a].pushed = FALSE]
    <2>1. /\ Others(a) /\ act'[a].pc \in {"stored", "finalize"} /\ act'[a].ck = act[a].ck
          /\ act'[a].pc = "finalize" <=> act[a].kind = "new"
      BY <1>1, <1>6 DEF Types, Others, Fields
    <2>2. /\ act'[a].row = act[a].row /\ act'[a].kind = act[a].kind
          /\ act'[a].prev = act[a].prev /\ act'[a].todo = act[a].todo /\ act'[a].doomed = act[a].doomed
      BY <1>1, <1>6 DEF Types, Fields
    <2>3. DOMAIN archive' = Row
      BY <1>1, <1>6 DEF Types
    <2>4. Work(a, act'[a])
      BY <1>1, <1>3, <2>1, <2>2 DEF Work, Opens, Building, Removing
    <2>5. Frame'
      BY <1>1, <1>2, <2>1, <2>2, <2>3, <2>4, FrameKept DEF Opens, Building
    <2>6. act'[a].pc = "finalize" => act'[a].prev = NoTag
      BY <1>1, <1>3, <2>1, <2>2 DEF Work, Building
    <2>7. Published'
      <3>1. act[a].ck \in registry' \/ <<a, act[a].ck>> \in raced'
        BY <1>1, <1>3 DEF Pub
      <3>2. Pub(a)'
        BY <2>1, <2>6, <3>1 DEF Pub
      <3> QED
        BY <1>2, <2>1, <3>2, PublishedKept
    <2>8. Removals'
      BY <1>2, <1>3, <1>4, <2>1, <2>6, RemovalsKept DEF Removing
    <2>9. Bundles' /\ Matches'
      BY <1>1, <1>2, <1>3, <1>6, <2>1, <2>2, promoteBundles
    <2> QED
      BY <1>5, <2>5, <2>7, <2>8, <2>9 DEF IInv, Core
  <1>7. CASE Goto(a, "failed") /\ UNCHANGED <<archive, torn>>
    <2>1. /\ Others(a) /\ act'[a].pc = "failed"
          /\ \A f \in Fields \ {"pc"} : act'[a][f] = act[a][f]
      BY <1>1, <1>7, Goes
    <2>2. /\ act'[a].row = act[a].row /\ act'[a].kind = act[a].kind /\ act'[a].ck = act[a].ck
          /\ act'[a].prev = act[a].prev /\ act'[a].todo = act[a].todo /\ act'[a].doomed = act[a].doomed
      BY <2>1 DEF Fields
    <2>3. DOMAIN archive' = Row
      BY <1>1, <1>7 DEF Types
    <2>4. Work(a, act'[a])
      BY <1>1, <1>3, <2>1, <2>2 DEF Work, Opens, Building, Removing
    <2>5. Frame'
      BY <1>1, <1>2, <2>1, <2>2, <2>3, <2>4, FrameKept DEF Opens, Building
    <2>6. Published'
      <3>1. Pub(a)'
        BY <2>1 DEF Pub
      <3> QED
        BY <1>2, <2>1, <3>1, PublishedKept
    <2>7. Removals'
      BY <1>2, <1>4, <2>1, <2>2, RemovalsKept DEF Removing
    <2>8. Bundles' /\ Matches'
      BY <1>1, <1>2, <1>7, <2>1, <2>2, BundlesKept DEF Unc
    <2> QED
      BY <1>5, <2>5, <2>6, <2>7, <2>8 DEF IInv, Core
  <1> QED
    BY <1>6, <1>7 DEF promote

\* The failed build's tag is nobody's: what resolves to it is on record, or goes with it.
LEMMA executeBuildFailedSpares ==
  ASSUME IInv, NEW a \in Actor, Others(a), act[a].pc = "failed", UNCHANGED row,
         act'[a].pc = "takeback", act'[a].tag = act[a].ck, act'[a].row = act[a].row, act'[a].kind = act[a].kind,
         act[a].prev # act[a].ck, ~contentReferenced(act[a].ck, {act[a].row}),
         raced' = raced \cup ((Racing(act[a].ck) \ {a}) \X {act[a].ck}),
         taken' = IF row[act[a].row].built /\ row[act[a].row].ck = act[a].ck
                  THEN taken \cup {act[a].ck} ELSE taken
  PROVE  Spares(a)'
  <1>1. ASSUME NEW c \in Actor, act'[c].pc \in InFlight, act'[c].ck = act[a].ck
        PROVE  <<c, act[a].ck>> \in raced'
    <2>1. c # a
      BY <1>1 DEF InFlight
    <2>2. act'[c] = act[c]
      BY <2>1 DEF Others
    <2>3. c \in Racing(act[a].ck) \ {a}
      BY <1>1, <2>1, <2>2 DEF Racing
    <2> QED
      BY <2>3
  <1>2. ASSUME NEW c \in Actor, act'[c].pc = "finalize", act'[c].prev = act[a].ck
        PROVE  <<c, act[a].ck>> \in raced'
    <2>1. c # a
      BY <1>2
    <2>2. act'[c] = act[c]
      BY <2>1 DEF Others
    <2>3. c \in Racing(act[a].ck) \ {a}
      BY <1>2, <2>1, <2>2 DEF Racing
    <2> QED
      BY <2>3
  <1>3. ASSUME NEW r \in Row, row[r].built, act[a].ck \in {row[r].ck, row[r].prev}
        PROVE  act[a].ck \in taken' \/ (act[a].kind = "new" /\ r = act[a].row)
    <2>1. row[r].on
      BY <1>3 DEF IInv, Frame, Rows
    <2>2. r = act[a].row
      BY <1>3, <2>1 DEF contentReferenced
    <2>3. CASE row[r].ck = act[a].ck
      BY <1>3, <2>2, <2>3
    <2>4. CASE row[r].prev = act[a].ck /\ act[a].kind # "new"
      <3>1. a = "op" /\ act[a].ck # NoTag
        BY <2>4, OwnRows DEF IInv, Frame, Works, Work, Building
      <3>2. row[r].prev \in {act[a].prev, NoTag}
        BY <1>3, <2>2, <2>4, <3>1 DEF IInv, Frame, Target
      <3> QED
        BY <2>4, <3>1, <3>2
    <2> QED
      BY <1>3, <2>2, <2>3, <2>4
  <1> QED
    BY <1>1, <1>2, <1>3, SMT DEF Spares, Excused

\* The failure path of executeBuild sets out to take its push back, or does not.
LEMMA executeBuildFailedKeeps ==
  ASSUME IInv, NEW a \in Actor, executeBuildFailed(a)
  PROVE  IInv'
  <1>1. /\ act[a].pc = "failed" /\ Frame /\ Types /\ pins' \in Pins /\ DOMAIN archive' = Row
        /\ UNCHANGED <<pins, registry, archive>>
    BY DEF IInv, executeBuildFailed, At, Frame, Types
  <1>2. CASE AfterFailure(a) /\ UNCHANGED taken
    <2>1. act[a].pc \in Building /\ act[a].pc \notin {"stored", "finalize"}
      BY <1>1 DEF Building
    <2>2. Frame'
      BY <1>1, <1>2, <2>1, Failed, FrameSettled
    <2>3. Core'
      BY <1>1, <1>2, <2>1, Failed, CoreKept
    <2> QED
      BY <2>2, <2>3 DEF IInv
  <1>3. CASE /\ act[a].prev # act[a].ck /\ ~contentReferenced(act[a].ck, {act[a].row})
             /\ act' = [act EXCEPT ![a].pc = "takeback", ![a].tag = act[a].ck]
             /\ raced' = raced \cup ((Racing(act[a].ck) \ {a}) \X {act[a].ck})
             /\ taken' = IF row[act[a].row].built /\ row[act[a].row].ck = act[a].ck
                         THEN taken \cup {act[a].ck} ELSE taken
             /\ UNCHANGED <<row, torn>>
    <2>1. Others(a) /\ act'[a].pc = "takeback" /\ act'[a].tag = act[a].ck /\ act'[a].ck = act[a].ck
      BY <1>1, <1>3 DEF Types, Others, Fields
    <2>2. /\ act'[a].row = act[a].row /\ act'[a].kind = act[a].kind
          /\ act'[a].prev = act[a].prev /\ act'[a].todo = act[a].todo /\ act'[a].doomed = act[a].doomed
      BY <1>1, <1>3 DEF Types, Fields
    <2>3. Shrunk /\ RacedKept(a) /\ taken \subseteq taken' /\ registry \subseteq registry'
      <3>1. taken \subseteq taken'
        BY <1>3
      <3> QED
        BY <1>1, <1>3, <3>1, SameRows DEF RacedKept
    <2>4. Work(a, act'[a])
      BY <1>1, <2>1, <2>2 DEF Frame, Works, Work, Opens, Building, Removing
    <2>5. Frame'
      BY <1>1, <2>1, <2>2, <2>3, <2>4, FrameKept DEF Opens, Building
    <2>6. RowsServedUnlessRaced'
      BY <2>3, ServedKept
    <2>7. Published'
      <3>1. Pub(a)'
        BY <2>1 DEF Pub
      <3> QED
        BY <2>1, <2>3, <3>1, PublishedKept
    <2>8. Removals'
      <3> SUFFICES ASSUME NEW b \in Actor, act'[b].pc \in Removing
                   PROVE  Spares(b)'
        BY DEF Removals
      <3>1. CASE b = a
        BY <1>1, <1>3, <2>1, <2>2, <3>1, executeBuildFailedSpares
      <3>2. CASE b # a
        <4>1. act[b].pc \in Removing /\ act'[a].pc \notin InFlight /\ act'[a].pc # "finalize"
          BY <2>1, <3>2 DEF Others, InFlight
        <4> QED
          BY <2>1, <2>3, <3>2, <4>1, SparesKept
      <3> QED
        BY <3>1, <3>2
    <2>9. Bundles' /\ Matches'
      BY <1>1, <1>3, <2>1, <2>3, BundlesKept DEF Unc
    <2> QED
      BY <2>5, <2>6, <2>7, <2>8, <2>9 DEF IInv, Core
  <1> QED
    BY <1>2, <1>3 DEF executeBuildFailed

\* A tag that goes from the registry was nobody's that is not on record.
LEMMA TagRemoved ==
  ASSUME IInv, NEW a \in Actor, act[a].pc \in Removing, Others(a), Shrunk, RacedKept(a), taken' = taken,
         registry \ {act[a].tag} \subseteq registry', act'[a].pc \notin InFlight \cup Removing,
         act[a].pc = "takeback" /\ act[a].kind = "new" => ~row'[act[a].row].on,
         \A r \in Row : row'[r].on => (r \in torn' <=> r \in torn) /\ archive'[r] = archive[r]
  PROVE  Core'
  <1>1. Spares(a)
    BY DEF IInv, Core, Removals
  <1>2. \A r \in Row : row'[r].on => ~Excused(a, r)
    BY DEF Excused
  <1>3. RowsServedUnlessRaced'
    <2> SUFFICES ASSUME NEW r \in Row, row'[r].built, NEW t \in {row'[r].ck, row'[r].prev}, t \notin taken, t # NoTag
                 PROVE  t \in registry'
      BY DEF RowsServedUnlessRaced
    <2>1. row'[r] = row[r] /\ row[r].built /\ row'[r].on
      BY ShrunkRows DEF IInv, Frame
    <2>2. {row[r].ck, row[r].prev} \subseteq registry \cup taken \cup {NoTag}
      BY <2>1 DEF IInv, Core, RowsServedUnlessRaced
    <2>3. t # act[a].tag
      BY <1>1, <1>2, <2>1 DEF Spares
    <2> QED
      BY <2>1, <2>2, <2>3, SMT
  <1>4. Published'
    <2> SUFFICES ASSUME NEW b \in Actor
                 PROVE  Pub(b)'
      BY DEF Published, Pub
    <2>1. CASE b = a
      BY <2>1 DEF Pub, InFlight
    <2>2. CASE b # a
      <3>1. act'[b] = act[b] /\ Pub(b)
        BY <2>2 DEF Others, IInv, Core, Published, Pub
      <3>2. ASSUME act[b].pc \in InFlight, act[b].ck \in registry \/ <<b, act[b].ck>> \in raced
            PROVE  act[b].ck \in registry' \/ <<b, act[b].ck>> \in raced'
        <4>1. CASE act[b].ck = act[a].tag
          <5>1. <<b, act[b].ck>> \in raced
            BY <1>1, <3>2, <4>1 DEF Spares
          <5> QED
            BY <2>2, <5>1 DEF RacedKept
        <4>2. CASE act[b].ck # act[a].tag
          BY <2>2, <3>2, <4>2 DEF RacedKept
        <4> QED
          BY <4>1, <4>2
      <3>3. ASSUME act[b].pc = "finalize", row'[act[b].row].on
            PROVE  act[b].prev \in registry' \cup taken' \cup {NoTag} \/ <<b, act[b].prev>> \in raced'
        <4>1. act[b].row \in Row
          BY <3>3 DEF IInv, Frame, Works, Work, Building
        <4>2. row[act[b].row].on /\ ~Excused(a, act[b].row)
          BY <1>2, <3>3, <4>1, ShrunkRows DEF IInv, Frame
        <4>3. act[b].prev \in registry \cup taken \cup {NoTag} \/ <<b, act[b].prev>> \in raced
          BY <3>1, <3>3, <4>2 DEF Pub
        <4>4. CASE act[b].prev = act[a].tag
          <5>1. <<b, act[b].prev>> \in raced \/ act[b].prev \in taken
            BY <1>1, <3>3, <4>2, <4>4 DEF Spares
          <5> QED
            BY <2>2, <5>1 DEF RacedKept
        <4>5. CASE act[b].prev # act[a].tag
          BY <2>2, <4>3, <4>5 DEF RacedKept
        <4> QED
          BY <4>4, <4>5
      <3> QED
        BY <3>1, <3>2, <3>3 DEF Pub, InFlight
    <2> QED
      BY <2>1, <2>2
  <1>5. Removals'
    <2>1. act'[a].pc \notin InFlight /\ act'[a].pc # "finalize" /\ act'[a].pc \notin Removing
      BY DEF InFlight
    <2> QED
      BY <2>1, RemovalsKept
  <1>6. Bundles' /\ Matches'
    <2>1. \A r : ~Unc(a, r) /\ ~Unc(a, r)'
      BY DEF Unc, InFlight, Removing
    <2> QED
      BY <2>1, BundlesKept
  <1> QED
    BY <1>3, <1>4, <1>5, <1>6 DEF Core

\* The push is taken back, and a new build's row with it.
LEMMA takeBackKeeps ==
  ASSUME IInv, NEW a \in Actor, takeBack(a)
  PROVE  IInv'
  <1>1. /\ act[a].pc = "takeback" /\ Frame /\ AfterFailure(a)
        /\ UNCHANGED <<archive, taken>> /\ pins' \in Pins /\ DOMAIN archive' = Row
        /\ registry \ {act[a].tag} \subseteq registry'
    BY DEF IInv, takeBack, At, Frame, Types
  <1>2. act[a].pc \in Building /\ act[a].pc \in Removing
    BY <1>1 DEF Building, Removing
  <1>3. Frame'
    BY <1>1, <1>2, Failed, FrameSettled
  <1>4. Core'
    BY <1>1, <1>2, Failed, TagRemoved
  <1> QED
    BY <1>3, <1>4 DEF IInv

\* A doomed tag is deleted, or the delete fails.
LEMMA retireRegistryTagKeeps ==
  ASSUME IInv, NEW a \in Actor, retireRegistryTag(a)
  PROVE  IInv'
  <1>1. /\ act[a].pc = "delete" /\ Frame /\ Types /\ act' = [act EXCEPT ![a].pc = "doom", ![a].tag = NoTag]
        /\ UNCHANGED <<row, archive, raced, taken, torn>> /\ pins' \in Pins /\ DOMAIN archive' = Row
        /\ registry \ {act[a].tag} \subseteq registry'
    BY DEF IInv, retireRegistryTag, At, Frame, Types
  <1>2. /\ Others(a) /\ act'[a].pc = "doom" /\ act'[a].todo = act[a].todo /\ act'[a].doomed = act[a].doomed
    BY <1>1 DEF Types, Others, Fields
  <1>3. Shrunk /\ RacedKept(a) /\ NoTag \notin act'[a].doomed
    BY <1>1, <1>2, SameRows DEF RacedKept, Frame, Works, Work
  <1>4. Frame'
    BY <1>1, <1>2, <1>3, FrameSettled
  <1>5. Core'
    BY <1>1, <1>2, <1>3, TagRemoved DEF InFlight, Removing
  <1> QED
    BY <1>4, <1>5 DEF IInv

\* The rollback target a rebuild reads is one its row resolves to now.
LEMMA reconcileBuildKeeps ==
  ASSUME IInv, NEW a \in Actor, reconcileBuild(a)
  PROVE  IInv'
  <1> DEFINE r == act[a].row
             old == IF row[r].built THEN row[r].ck ELSE NoTag
             was == IF row[r].built THEN row[r].prev ELSE NoTag
             prev == rotatedPrevChecksum(old, act[a].ck, was)
             displaced == IF PruneOldImages /\ displacedPruneCandidate(old, act[a].ck, was) THEN was ELSE NoTag
  <1>1. /\ act[a].pc = "stored" /\ Frame /\ Types
        /\ UNCHANGED <<row, registry, archive, raced, taken, torn>> /\ pins' \in Pins /\ DOMAIN archive' = Row
    BY DEF IInv, reconcileBuild, At, Frame, Types
  <1>2. Shrunk /\ RacedKept(a) /\ taken \subseteq taken' /\ registry \subseteq registry'
    BY <1>1, SameRows DEF RacedKept
  <1>3. /\ Work(a, act[a]) /\ Pub(a) /\ r \in Row /\ act[a].kind # "new"
        /\ \A b \in Actor : act[b].pc \in Removing => act[b].tag # NoTag
    BY <1>1 DEF IInv, Frame, Works, Work, Core, Published, Pub, Building
  <1>4. RowsServedUnlessRaced'
    BY <1>2, ServedKept
  <1>5. prev = NoTag \/ (row[r].built /\ prev \in {row[r].ck, row[r].prev})
    BY DEF rotatedPrevChecksum
  <1>6. CASE ~row[r].on /\ Proceeds(a, {})
    <2>1. /\ Others(a) /\ act'[a].pc = "next" /\ act'[a].kind = "rebuild" /\ act'[a].todo = act[a].todo
          /\ act'[a].doomed = act[a].doomed \cup {}
      BY <1>1, <1>6, Proceeded
    <2>2. NoTag \notin act'[a].doomed
      BY <1>3, <2>1 DEF Work
    <2>3. Frame'
      BY <1>1, <1>2, <2>1, <2>2, FrameSettled
    <2>4. Published'
      <3>1. Pub(a)'
        BY <2>1 DEF Pub
      <3> QED
        BY <1>2, <2>1, <3>1, PublishedKept
    <2>5. Removals'
      BY <1>2, <2>1, RemovalsKept DEF InFlight, Removing
    <2>6. Bundles' /\ Matches'
      <3>1. ASSUME NEW s \in Row, row'[s].on
            PROVE  ~Unc(a, s)' /\ ~Unc(a, s)
        BY <1>1, <1>6, <2>1, <3>1 DEF Unc
      <3> QED
        BY <1>1, <1>2, <2>1, <3>1, BundlesKept
    <2> QED
      BY <1>4, <2>3, <2>4, <2>5, <2>6 DEF IInv, Core
  <1>7. CASE act' = [act EXCEPT ![a].pc = "finalize", ![a].prev = prev, ![a].displaced = displaced]
    <2> HIDE DEF prev, displaced
    <2>1. Others(a) /\ act'[a].pc = "finalize" /\ act'[a].prev = prev /\ act'[a].ck = act[a].ck
      BY <1>1, <1>7 DEF Types, Others, Fields
    <2>2. /\ act'[a].row = r /\ act'[a].kind = act[a].kind
          /\ act'[a].todo = act[a].todo /\ act'[a].doomed = act[a].doomed
      BY <1>1, <1>7 DEF Types, Fields
    <2>3. Work(a, act'[a])
      BY <1>1, <1>3, <2>1, <2>2 DEF Work, Opens, Building, Removing
    <2>4. Frame'
      BY <1>1, <1>2, <2>1, <2>2, <2>3, FrameKept DEF Opens, Building
    <2>5. Published'
      <3>1. act[a].ck \in registry' \/ <<a, act[a].ck>> \in raced'
        BY <1>1, <1>3 DEF Pub
      <3>2. prev \in registry \cup taken \cup {NoTag}
        BY <1>3, <1>5 DEF IInv, Core, RowsServedUnlessRaced
      <3>3. Pub(a)'
        BY <1>1, <2>1, <3>1, <3>2 DEF Pub
      <3> QED
        BY <1>2, <2>1, <3>3, PublishedKept
    <2>6. Removals'
      <3>1. ASSUME NEW b \in Actor, act[b].pc \in Removing, act[a].ck = act[b].tag
            PROVE  <<a, act[b].tag>> \in raced'
        BY <1>1, <3>1 DEF IInv, Core, Removals, Spares, InFlight
      <3>2. ASSUME NEW b \in Actor, act[b].pc \in Removing, prev = act[b].tag
            PROVE  act[b].tag \in taken \/ Excused(b, r)
        <4>1. Spares(b) /\ row[r].built /\ act[b].tag \in {row[r].ck, row[r].prev}
          BY <1>3, <1>5, <3>2 DEF IInv, Core, Removals
        <4> QED
          BY <1>3, <4>1 DEF Spares
      <3> QED
        BY <1>2, <2>1, <2>2, <3>1, <3>2, RemovalsKept DEF Removing
    <2>7. Bundles' /\ Matches'
      <3>1. \A s \in Row : (Unc(a, s)' <=> Unc(a, s)) /\ act'[a].ck = act[a].ck
        BY <1>1, <2>1, <2>2 DEF Unc
      <3> QED
        BY <1>1, <1>2, <2>1, <3>1, BundlesKept
    <2> QED
      BY <1>4, <2>4, <2>5, <2>6, <2>7 DEF IInv, Core
  <1> QED
    BY <1>6, <1>7 DEF reconcileBuild

\* A committed row has the tag its build published and the rollback target it read.
LEMMA commitCore ==
  ASSUME IInv, NEW a \in Actor, act[a].pc = "finalize", Others(a), act'[a].pc \notin InFlight \cup Removing,
         row[act[a].row].on, UNCHANGED <<registry, archive>>, raced' = RacedByOthers(a),
         DOMAIN row' = Row, \A r \in Row : r # act[a].row => row'[r] = row[r],
         row'[act[a].row].ck = act[a].ck, row'[act[a].row].prev = act[a].prev,
         taken' = (taken \ {act[a].ck}) \cup {t \in {act[a].ck, act[a].prev} : <<a, t>> \in raced},
         torn' = IF Uncommitted(act[a].row) = {a} THEN torn ELSE torn \cup {act[a].row}
  PROVE  Core'
  <1> DEFINE r0 == act[a].row
             ck == act[a].ck
  <1>1. r0 \in Row /\ RacedKept(a)
    BY DEF IInv, Frame, Works, Work, Building, RacedKept, RacedByOthers
  <1>2. /\ ck \in registry \/ <<a, ck>> \in raced
        /\ act[a].prev \in registry \cup taken \cup {NoTag} \/ <<a, act[a].prev>> \in raced
    BY DEF IInv, Core, Published
  <1>3. ck \in registry' \cup taken' /\ \A t \in taken : t \in registry' \cup taken'
    BY <1>2
  <1>4. act[a].prev \in registry' \cup taken' \cup {NoTag}
    <2>1. CASE <<a, act[a].prev>> \in raced
      BY <2>1
    <2>2. CASE act[a].prev \in registry \cup taken \cup {NoTag}
      BY <1>3, <2>2
    <2> QED
      BY <1>2, <2>1, <2>2
  <1>5. RowsServedUnlessRaced'
    <2> SUFFICES ASSUME NEW r \in Row, row'[r].built
                 PROVE  {row'[r].ck, row'[r].prev} \subseteq registry' \cup taken' \cup {NoTag}
      BY DEF RowsServedUnlessRaced
    <2>1. CASE r = r0
      BY <1>3, <1>4, <2>1
    <2>2. CASE r # r0
      <3>1. row'[r] = row[r] /\ {row[r].ck, row[r].prev} \subseteq registry \cup taken \cup {NoTag}
        BY <2>2 DEF IInv, Core, RowsServedUnlessRaced
      <3> QED
        BY <1>3, <3>1, SMT
    <2> QED
      BY <2>1, <2>2
  <1>6. ASSUME NEW b \in Actor, b # a, act[b].pc \in Building, row'[act[b].row].on
        PROVE  row[act[b].row].on
    <2>1. act[b].row \in Row
      BY <1>6 DEF IInv, Frame, Works, Work
    <2> QED
      BY <1>6, <2>1
  <1>7. Published'
    <2> SUFFICES ASSUME NEW b \in Actor
                 PROVE  Pub(b)'
      BY DEF Published, Pub
    <2>1. CASE b = a
      BY <2>1 DEF Pub, InFlight
    <2>2. CASE b # a
      <3>1. act'[b] = act[b] /\ Pub(b) /\ \A t : <<b, t>> \in raced => <<b, t>> \in raced'
        BY <1>1, <2>2 DEF Others, IInv, Core, Published, Pub, RacedKept
      <3>2. act[b].pc = "finalize" /\ row'[act[b].row].on =>
              act[b].prev \in registry' \cup taken' \cup {NoTag} \/ <<b, act[b].prev>> \in raced'
        <4> SUFFICES ASSUME act[b].pc = "finalize", row'[act[b].row].on
                     PROVE  act[b].prev \in registry' \cup taken' \cup {NoTag} \/ <<b, act[b].prev>> \in raced'
          OBVIOUS
        <4>1. row[act[b].row].on
          BY <1>6, <2>2 DEF Building
        <4>2. act[b].prev \in registry \cup taken \cup {NoTag} \/ <<b, act[b].prev>> \in raced
          BY <3>1, <4>1, PubTarget
        <4> QED
          BY <1>3, <3>1, <4>2, SMT
      <3> QED
        BY <3>1, <3>2 DEF Pub
    <2> QED
      BY <2>1, <2>2
  <1>8. Removals'
    <2> SUFFICES ASSUME NEW b \in Actor, act'[b].pc \in Removing
                 PROVE  Spares(b)'
      BY DEF Removals
    <2>1. b # a
      OBVIOUS
    <2>2. act'[b] = act[b] /\ act[b].pc \in Removing /\ Spares(b)
      BY <2>1 DEF Others, IInv, Core, Removals
    <2>3. /\ act[b].tag = ck => act[b].tag \in taken'
          /\ act[b].tag \in taken => act[b].tag \in taken'
      <3>1. act[b].tag = ck => <<a, act[b].tag>> \in raced
        BY <2>2 DEF Spares, InFlight
      <3> QED
        BY <3>1
    <2>4. \A c \in Actor : act'[c].pc \in InFlight /\ act'[c].ck = act[b].tag => <<c, act[b].tag>> \in raced'
      <3> SUFFICES ASSUME NEW c \in Actor, act'[c].pc \in InFlight, act'[c].ck = act[b].tag
                   PROVE  <<c, act[b].tag>> \in raced'
        OBVIOUS
      <3>1. c # a
        OBVIOUS
      <3>2. act'[c] = act[c]
        BY <3>1 DEF Others
      <3> QED
        BY <1>1, <2>2, <3>1, <3>2 DEF Spares, RacedKept
    <2>5. ASSUME NEW c \in Actor, act'[c].pc = "finalize", row'[act'[c].row].on, act'[c].prev = act[b].tag
          PROVE  <<c, act[b].tag>> \in raced' \/ act[b].tag \in taken' \/ Excused(b, act'[c].row)
      <3>1. c # a
        BY <2>5 DEF InFlight
      <3>2. act'[c] = act[c] /\ \A t : <<c, t>> \in raced => <<c, t>> \in raced'
        BY <1>1, <3>1 DEF Others, RacedKept
      <3>3. row[act[c].row].on
        BY <1>6, <2>5, <3>1, <3>2 DEF Building
      <3>4. <<c, act[b].tag>> \in raced \/ act[b].tag \in taken \/ Excused(b, act[c].row)
        BY <2>2, <2>5, <3>2, <3>3 DEF Spares
      <3> QED
        BY <2>3, <3>2, <3>4
    <2>6. ASSUME NEW r \in Row, row'[r].built, act[b].tag \in {row'[r].ck, row'[r].prev}
          PROVE  act[b].tag \in taken' \/ Excused(b, r)
      <3>1. CASE r # r0
        BY <2>2, <2>3, <2>6, <3>1 DEF Spares
      <3>2. CASE r = r0 /\ act[b].tag = act[a].prev
        <4>1. <<a, act[b].tag>> \in raced \/ act[b].tag \in taken \/ Excused(b, r0)
          BY <2>2, <3>2 DEF Spares
        <4> QED
          BY <2>3, <3>2, <4>1
      <3> QED
        BY <2>3, <2>6, <3>1, <3>2
    <2>7. \A r : Excused(b, r) <=> act'[b].pc = "takeback" /\ act'[b].kind = "new" /\ r = act'[b].row
      BY <2>2 DEF Excused
    <2> QED
      BY <2>2, <2>4, <2>5, <2>6, <2>7, SMT DEF Spares, Excused
  <1>9. ASSUME NEW b \in Actor, NEW r
        PROVE  Unc(b, r)' <=> (Unc(b, r) /\ b # a)
    BY DEF Unc, Others, InFlight
  <1>10. ASSUME r0 \notin torn'
         PROVE  r0 \notin torn /\ \A b \in Actor, r \in Row : r = r0 => ~Unc(b, r)'
    <2>1. Uncommitted(r0) = {a} /\ r0 \notin torn
      BY <1>10
    <2>2. \A b \in Actor : Unc(b, r0) => b = a
      BY <2>1 DEF Uncommitted, Unc
    <2> QED
      BY <1>9, <2>1, <2>2
  <1>11. Bundles'
    <2> SUFFICES ASSUME NEW r \in Row, r \notin torn', row'[r].on, NEW b \in Actor, Unc(b, r)'
                 PROVE  archive'[r] = act'[b].ck /\ \A c \in Actor : Unc(c, r)' => c = b
      BY DEF Bundles
    <2>1. r # r0 /\ Unc(b, r) /\ b # a /\ act'[b] = act[b] /\ r \notin torn
      BY <1>9, <1>10 DEF Others
    <2>2. archive[r] = act[b].ck /\ \A c \in Actor : Unc(c, r) => c = b
      BY <2>1 DEF IInv, Core, Bundles
    <2> QED
      BY <1>9, <2>1, <2>2
  <1>12. Matches'
    <2> SUFFICES ASSUME NEW r \in Row, r \notin torn', row'[r].built, \A b \in Actor : ~Unc(b, r)'
                 PROVE  archive'[r] = row'[r].ck
      BY DEF Matches
    <2>1. CASE r = r0
      <3>1. r0 \notin torn /\ Unc(a, r0)
        BY <1>10, <2>1 DEF Unc
      <3> QED
        BY <1>1, <2>1, <3>1 DEF IInv, Core, Bundles
    <2>2. CASE r # r0
      <3>1. r \notin torn /\ row'[r] = row[r] /\ ~Unc(a, r)
        BY <2>2 DEF Unc
      <3>2. \A b \in Actor : ~Unc(b, r)
        BY <1>9, <3>1
      <3> QED
        BY <3>1, <3>2 DEF IInv, Core, Matches
    <2> QED
      BY <2>1, <2>2
  <1> QED
    BY <1>5, <1>7, <1>8, <1>11, <1>12 DEF Core

\* The build is committed or abandoned.
LEMMA finalizeBuildKeeps ==
  ASSUME IInv, NEW a \in Actor, finalizeBuild(a)
  PROVE  IInv'
  <1> DEFINE r0 == act[a].row
  <1>1. /\ act[a].pc = "finalize" /\ Frame /\ Types
        /\ UNCHANGED <<registry, archive>> /\ raced' = RacedByOthers(a) /\ pins' \in Pins /\ DOMAIN archive' = Row
    BY DEF IInv, finalizeBuild, At, Frame, Types
  <1>2. Work(a, act[a]) /\ r0 \in Row /\ NoTag \notin act[a].doomed
    BY <1>1 DEF Frame, Works, Work, Building
  <1>3. /\ Others(a) /\ act'[a].pc \in {"idle", "next"} /\ (act'[a].pc = "next" => act'[a].kind # "new")
        /\ act'[a].todo \subseteq act[a].todo /\ NoTag \notin act'[a].doomed
    <2>1. CASE Ends(a)
      BY <1>1, <2>1, Ended
    <2>2. CASE Proceeds(a, {act[a].displaced} \ {NoTag}) \/ Proceeds(a, {})
      <3>1. PICK D \in {{act[a].displaced} \ {NoTag}, {}} : Proceeds(a, D)
        BY <2>2
      <3>2. /\ Others(a) /\ act'[a].pc = "next" /\ act'[a].kind = "rebuild" /\ act'[a].todo = act[a].todo
            /\ act'[a].doomed = act[a].doomed \cup D
        BY <1>1, <3>1, Proceeded
      <3>3. NoTag \notin D
        OBVIOUS
      <3> QED
        BY <1>2, <3>2, <3>3
    <2> QED
      BY <2>1, <2>2 DEF finalizeBuild
  <1>4. act'[a].pc \notin InFlight \cup Removing
    BY <1>3 DEF InFlight, Removing
  <1>5. CASE /\ row[r0].on
             /\ row' = [row EXCEPT ![r0] = [on |-> TRUE, built |-> TRUE, ck |-> act[a].ck,
                                           prev |-> act[a].prev, gen |-> act[a].meta]]
             /\ taken' = (taken \ {act[a].ck}) \cup {t \in {act[a].ck, act[a].prev} : <<a, t>> \in raced}
             /\ torn' = IF Uncommitted(r0) = {a} THEN torn ELSE torn \cup {r0}
    <2>1. /\ DOMAIN row' = Row /\ DOMAIN row'[r0] = RowFields /\ row'[r0].on /\ row'[r0].built
          /\ row'[r0].ck = act[a].ck /\ row'[r0].prev = act[a].prev
          /\ \A r \in Row : r # r0 => row'[r] = row[r]
      BY <1>1, <1>2, <1>5 DEF Types, RowFields
    <2>2. Core'
      BY <1>1, <1>3, <1>4, <1>5, <2>1, commitCore
    <2>3. Types'
      BY <1>1, <1>3, <2>1 DEF Types, Others
    <2>4. Rows'
      BY <1>1, <2>1 DEF Frame, Rows
    <2>5. Works'
      <3>1. act'[a].pc \notin Busy
        BY <1>3 DEF Busy, Opens, Building, Removing
      <3>2. Work(a, act'[a])
        BY <1>3, <3>1, FreeWorks
      <3> QED
        BY <1>1, <1>3, <3>2 DEF Frame, Works, Others
    <2>6. CASE a = "man"
      <3>1. r0 \in Manual /\ act[a].prev = NoTag
        BY <1>1, <1>2, <2>6, OwnRows DEF Work, Building
      <3>2. act'["op"] = act["op"] /\ act'["man"].pc \notin Opens
        BY <1>3, <2>6, OwnRows DEF Others, Opens
      <3>3. Opening'
        <4>1. act["op"].pc \in Opens => act["op"].row \in Managed /\ act["op"].row \in Row /\ act["op"].row # r0
          BY <1>1, <3>1, OwnRows, BuildsAssumption DEF Frame, Works, Work
        <4> QED
          BY <1>1, <2>1, <3>2, <4>1 DEF Frame, Opening
      <3>4. Target'
        <4>1. act["op"].pc \in {"resolve", "push", "promote", "failed"} => act["op"].row \in Row
          BY <1>1, OwnRows DEF Frame, Works, Work, Building
        <4>2. CASE act["op"].row = r0
          BY <2>1, <3>1, <3>2, <4>2 DEF Target
        <4>3. CASE act["op"].row # r0
          BY <1>1, <2>1, <3>2, <4>1, <4>3 DEF Frame, Target
        <4> QED
          BY <4>2, <4>3
      <3> QED
        BY <2>2, <2>3, <2>4, <2>5, <3>3, <3>4 DEF IInv, Frame
    <2>7. CASE a = "op"
      <3>1. act'["man"] = act["man"] /\ act'["op"].pc \notin Opens \cup Building /\ act'["op"].todo \subseteq act["op"].todo
        BY <1>3, <2>7, OwnRows DEF Others, Opens, Building
      <3>2. act["man"].pc \in Opens => act["man"].row \in Row /\ act["man"].row # r0
        BY <1>1, <2>7, OwnRows DEF Frame, Works, Work, Opening, Building
      <3>3. Opening'
        BY <1>1, <2>1, <3>1, <3>2 DEF Frame, Opening
      <3>4. Target'
        BY <3>1 DEF Target, Building
      <3> QED
        BY <2>2, <2>3, <2>4, <2>5, <3>3, <3>4 DEF IInv, Frame
    <2> QED
      BY <2>6, <2>7, OwnRows
  <1>6. CASE torn' = (IF row[r0].on THEN torn \cup {r0} ELSE torn) /\ UNCHANGED <<row, taken>>
    <2>1. Shrunk /\ RacedKept(a) /\ taken \subseteq taken' /\ registry \subseteq registry'
      BY <1>1, <1>6, SameRows DEF RacedKept, RacedByOthers
    <2>2. Frame'
      BY <1>1, <1>3, <2>1, FrameSettled
    <2>3. RowsServedUnlessRaced'
      BY <2>1, ServedKept
    <2>4. Published'
      <3>1. Pub(a)'
        BY <1>3 DEF Pub
      <3> QED
        BY <1>3, <2>1, <3>1, PublishedKept
    <2>5. Removals'
      <3>1. act'[a].pc \notin InFlight /\ act'[a].pc # "finalize" /\ act'[a].pc \notin Removing
        BY <1>3 DEF InFlight, Removing
      <3> QED
        BY <1>3, <2>1, <3>1, RemovalsKept
    <2>6. Bundles' /\ Matches'
      <3>1. ASSUME NEW r \in Row, row'[r].on, r \notin torn'
            PROVE  ~Unc(a, r)' /\ ~Unc(a, r) /\ r \notin torn /\ archive'[r] = archive[r]
        BY <1>1, <1>3, <1>6, <3>1 DEF Unc
      <3> QED
        BY <1>3, <2>1, <3>1, BundlesKept
    <2> QED
      BY <2>2, <2>3, <2>4, <2>5, <2>6 DEF IInv, Core
  <1> QED
    BY <1>5, <1>6 DEF finalizeBuild

\* A row that is opened was nobody's: it is not built, and no other build is at it.
LEMMA openBuildCore ==
  ASSUME IInv, NEW a \in Actor, NEW r \in Row, ~row[r].built, openBuild(r), Others(a),
         act[a].pc \notin InFlight, act'[a].pc \notin InFlight \cup Removing,
         \A b \in Actor : b # a /\ act[b].pc \in Building => act[b].row # r,
         UNCHANGED <<registry, archive, raced, taken, torn>>
  PROVE  /\ Core' /\ Rows' /\ DOMAIN row' = Row /\ \A s \in Row : DOMAIN row'[s] = RowFields
         /\ \A s \in Row : s # r => row'[s] = row[s]
         /\ ~row'[r].built
  <1>1. /\ DOMAIN row' = Row /\ (\A s \in Row : DOMAIN row'[s] = RowFields)
        /\ (\A s \in Row : s # r => row'[s] = row[s])
        /\ ~row'[r].built /\ row'[r].prev = NoTag
    <2>1. CASE row[r].on
      <3>1. row' = row
        BY <2>1 DEF openBuild
      <3> QED
        BY <3>1 DEF IInv, Frame, Types, Rows
    <2>2. CASE ~row[r].on
      <3> DEFINE new == [NoRow EXCEPT !.on = TRUE, !.ck = buildContentChecksum(chal)]
      <3>1. DOMAIN new = RowFields /\ ~new.built /\ new.prev = NoTag
        BY DEF NoRow, RowFields
      <3>2. row' = [row EXCEPT ![r] = new]
        BY <2>2 DEF openBuild
      <3> HIDE DEF new
      <3> QED
        BY <3>1, <3>2 DEF IInv, Frame, Types
    <2> QED
      BY <2>1, <2>2
  <1>2. Rows'
    BY <1>1 DEF Rows, IInv, Frame
  <1>3. ASSUME NEW s \in Row, row'[s].built
        PROVE  row'[s] = row[s]
    BY <1>1, <1>3
  <1>4. ASSUME NEW b \in Actor, b # a
        PROVE  /\ act'[b] = act[b]
               /\ act[b].pc \in Building => act[b].row \in Row /\ row'[act[b].row] = row[act[b].row]
    <2>1. act[b].pc \in Building => act[b].row \in Row /\ act[b].row # r
      BY <1>4 DEF IInv, Frame, Works, Work
    <2> QED
      BY <1>1, <1>4, <2>1 DEF Others
  <1>5. RowsServedUnlessRaced'
    <2> SUFFICES ASSUME NEW s \in Row, row'[s].built
                 PROVE  {row'[s].ck, row'[s].prev} \subseteq registry' \cup taken' \cup {NoTag}
      BY DEF RowsServedUnlessRaced
    <2>1. row'[s] = row[s]
      BY <1>3
    <2>2. {row[s].ck, row[s].prev} \subseteq registry \cup taken \cup {NoTag}
      BY <2>1 DEF IInv, Core, RowsServedUnlessRaced
    <2> QED
      BY <2>1, <2>2
  <1>6. Published'
    <2> SUFFICES ASSUME NEW b \in Actor
                 PROVE  Pub(b)'
      BY DEF Published, Pub
    <2>1. CASE b = a
      BY <2>1 DEF Pub, InFlight
    <2>2. CASE b # a
      <3>1. act'[b] = act[b] /\ Pub(b)
        BY <1>4, <2>2 DEF IInv, Core, Published, Pub
      <3>2. act[b].pc = "finalize" => row'[act[b].row] = row[act[b].row]
        BY <1>4, <2>2 DEF Building
      <3> QED
        BY <3>1, <3>2 DEF Pub
    <2> QED
      BY <2>1, <2>2
  <1>7. Removals'
    <2> SUFFICES ASSUME NEW b \in Actor, act'[b].pc \in Removing
                 PROVE  Spares(b)'
      BY DEF Removals
    <2>1. b # a
      OBVIOUS
    <2>2. act'[b] = act[b] /\ Spares(b)
      BY <1>4, <2>1 DEF IInv, Core, Removals
    <2>3. ASSUME NEW c \in Actor, act'[c].pc \in InFlight
          PROVE  act'[c] = act[c] /\ (act[c].pc = "finalize" => row'[act[c].row] = row[act[c].row])
      <3>1. c # a
        BY <2>3
      <3> QED
        BY <1>4, <3>1 DEF Building
    <2>4. \A s : Excused(b, s) <=> act'[b].pc = "takeback" /\ act'[b].kind = "new" /\ s = act'[b].row
      BY <2>2 DEF Excused
    <2>5. \A c \in Actor : act'[c].pc \in InFlight /\ act'[c].ck = act[b].tag => <<c, act[b].tag>> \in raced'
      BY <2>2, <2>3 DEF Spares
    <2>6. \A c \in Actor : act'[c].pc = "finalize" /\ row'[act'[c].row].on /\ act'[c].prev = act[b].tag
              => <<c, act[b].tag>> \in raced' \/ act[b].tag \in taken' \/ Excused(b, act'[c].row)
      BY <2>2, <2>3 DEF Spares, InFlight
    <2>7. \A s \in Row : row'[s].built /\ act[b].tag \in {row'[s].ck, row'[s].prev}
              => act[b].tag \in taken' \/ Excused(b, s)
      BY <1>3, <2>2 DEF Spares
    <2> QED
      BY <2>2, <2>4, <2>5, <2>6, <2>7, SMT DEF Spares, Excused
  <1>8. ASSUME NEW b \in Actor, NEW s
        PROVE  (Unc(b, s)' <=> Unc(b, s)) /\ (Unc(b, s) => b # a /\ s # r)
    <2>1. CASE b = a
      BY <2>1 DEF Unc, InFlight
    <2>2. CASE b # a
      BY <1>4, <2>2 DEF Unc, Building
    <2> QED
      BY <2>1, <2>2
  <1>9. Bundles'
    <2> SUFFICES ASSUME NEW s \in Row, s \notin torn, row'[s].on, NEW b \in Actor, Unc(b, s)'
                 PROVE  archive[s] = act'[b].ck /\ \A c \in Actor : Unc(c, s)' => c = b
      BY DEF Bundles
    <2>1. Unc(b, s) /\ s # r /\ act'[b] = act[b]
      BY <1>4, <1>8
    <2>2. archive[s] = act[b].ck /\ \A c \in Actor : Unc(c, s) => c = b
      BY <1>1, <2>1 DEF IInv, Core, Bundles
    <2> QED
      BY <1>8, <2>1, <2>2
  <1>10. Matches'
    <2> SUFFICES ASSUME NEW s \in Row, s \notin torn, row'[s].built, \A b \in Actor : ~Unc(b, s)'
                 PROVE  archive[s] = row'[s].ck
      BY DEF Matches
    <2>1. row'[s] = row[s] /\ \A b \in Actor : ~Unc(b, s)
      BY <1>3, <1>8
    <2> QED
      BY <2>1 DEF IInv, Core, Matches
  <1> QED
    BY <1>1, <1>2, <1>5, <1>6, <1>7, <1>9, <1>10 DEF Core

\* What the two actors open is apart.
LEMMA ActorRows ==
  ASSUME Works
  PROVE  /\ act["man"].pc \in Opens \cup Building => act["man"].row \in Row /\ act["man"].row \notin Managed
         /\ act["op"].pc \in Opens => act["op"].row \in Row /\ act["op"].row \notin Manual
  <1>1. Work("man", act["man"]) /\ Work("op", act["op"])
    BY OwnRows DEF Works
  <1>2. act["man"].pc \in Opens \cup Building => act["man"].row \in Manual
    BY <1>1, OwnRows DEF Work
  <1>3. act["op"].pc \in Opens => act["op"].row \in Managed
    BY <1>1, OwnRows DEF Work
  <1> QED
    BY <1>2, <1>3, BuildsAssumption DEF Row

\* A schema's converge opens its row.
LEMMA convergeSchemaKeeps ==
  ASSUME IInv, NEW r \in Row, convergeSchema(r)
  PROVE  IInv'
  <1> DEFINE v == [Quiet EXCEPT !.pc = "drift", !.kind = "new", !.row = r, !.meta = chal]
  <1>1. /\ act["op"].pc = "idle" /\ r \in Managed /\ ~row[r].built /\ openBuild(r) /\ Frame /\ Types
        /\ UNCHANGED <<registry, archive, raced, taken, torn>> /\ pins' \in Pins /\ DOMAIN archive' = Row
        /\ act' = [act EXCEPT !["op"] = v]
    BY DEF IInv, convergeSchema, At, Frame, Types
  <1>2. DOMAIN v = Fields /\ v.pc = "drift" /\ v.kind = "new" /\ v.row = r /\ v.todo = {} /\ v.doomed = {}
    BY DEF Quiet, Fields
  <1> HIDE DEF v
  <1>3. Others("op") /\ act'["op"] = v
    BY <1>1, <1>2, Acts, OwnRows
  <1>4. \A b \in Actor : b # "op" /\ act[b].pc \in Building => act[b].row # r
    BY <1>1, ActorRows, OwnRows DEF Frame
  <1>5. act["op"].pc \notin InFlight /\ act'["op"].pc \notin InFlight \cup Removing
    BY <1>1, <1>2, <1>3 DEF InFlight, Removing
  <1>6. /\ Core' /\ Rows' /\ DOMAIN row' = Row /\ \A s \in Row : DOMAIN row'[s] = RowFields
        /\ \A s \in Row : s # r => row'[s] = row[s]
        /\ ~row'[r].built
    BY <1>1, <1>3, <1>4, <1>5, OwnRows, openBuildCore
  <1>7. Types'
    BY <1>1, <1>3, <1>6 DEF Types, Others
  <1>8. Works'
    <2>1. Work("op", v)
      BY <1>1, <1>2, OwnRows DEF Work, Opens, Building, Removing
    <2> QED
      BY <1>1, <1>3, <2>1 DEF Frame, Works, Others
  <1>9. Opening'
    <2>1. act'["man"] = act["man"]
      BY <1>3, OwnRows DEF Others
    <2>2. act["man"].pc \in Opens => act["man"].row \in Row /\ act["man"].row # r
      BY <1>1, ActorRows DEF Frame
    <2> QED
      BY <1>1, <1>2, <1>3, <1>6, <2>1, <2>2 DEF Frame, Opening, Building
  <1>10. Target'
    BY <1>2, <1>3 DEF Target
  <1> QED
    BY <1>6, <1>7, <1>8, <1>9, <1>10 DEF IInv, Frame

\* A first build opens its row, or finds it opened.
LEMMA generateOpensKeeps ==
  ASSUME IInv, NEW a \in Actor, generateOpens(a)
  PROVE  IInv'
  <1> DEFINE r == act[a].row
  <1>1. /\ act[a].pc = "open" /\ openBuild(r) /\ Frame /\ Types
        /\ UNCHANGED <<registry, archive, raced, taken, torn>> /\ pins' \in Pins /\ DOMAIN archive' = Row
        /\ act' = [act EXCEPT ![a].pc = "resolve", ![a].prev = row[r].prev]
    BY DEF IInv, generateOpens, At, Frame, Types
  <1>2. act[a].kind = "new" /\ r \in Own(a) /\ r \in Row /\ NoTag \notin act[a].doomed
    BY <1>1, OwnRows DEF Frame, Works, Work, Opens
  <1>3. ~row[r].built /\ row[r].prev = NoTag
    BY <1>1, <1>2, OwnRows DEF Frame, Opening, Rows, Opens
  <1>4. /\ Others(a) /\ act'[a].pc = "resolve" /\ act'[a].prev = NoTag /\ act'[a].row = r
        /\ act'[a].kind = "new" /\ act'[a].todo = act[a].todo /\ act'[a].doomed = act[a].doomed
    <2>1. Others(a) /\ act'[a].pc = "resolve" /\ act'[a].prev = NoTag /\ act'[a].row = r
      BY <1>1, <1>3 DEF Types, Others, Fields
    <2>2. act'[a].kind = "new" /\ act'[a].todo = act[a].todo /\ act'[a].doomed = act[a].doomed
      BY <1>1, <1>2 DEF Types, Fields
    <2> QED
      BY <2>1, <2>2
  <1>5. ASSUME NEW b \in Actor, b # a, act[b].pc \in Building
        PROVE  act[b].row # r
    <2>1. CASE a = "op"
      BY <1>1, <1>2, <1>5, <2>1, ActorRows, OwnRows DEF Frame
    <2>2. CASE a = "man"
      BY <1>1, <1>5, <2>2, OwnRows DEF Frame, Opening, Opens
    <2> QED
      BY <2>1, <2>2, OwnRows
  <1>6. act[a].pc \notin InFlight /\ act'[a].pc \notin InFlight \cup Removing
    BY <1>1, <1>4 DEF InFlight, Removing
  <1>7. /\ Core' /\ Rows' /\ DOMAIN row' = Row /\ \A s \in Row : DOMAIN row'[s] = RowFields
        /\ \A s \in Row : s # r => row'[s] = row[s]
        /\ ~row'[r].built
    BY <1>1, <1>2, <1>3, <1>4, <1>5, <1>6, openBuildCore
  <1>8. Types'
    BY <1>1, <1>4, <1>7 DEF Types, Others
  <1>9. Works'
    <2>1. Work(a, act'[a])
      BY <1>2, <1>4 DEF Work, Opens, Building, Removing
    <2> QED
      BY <1>1, <1>4, <2>1 DEF Frame, Works, Others
  <1>10. CASE a = "op"
    <2>1. act'["man"] = act["man"] /\ act'["op"].pc \notin Opens
      BY <1>4, <1>10, OwnRows DEF Others, Opens
    <2>2. act["man"].pc \in Opens => act["man"].row \in Row /\ act["man"].row # r
      BY <1>1, <1>2, <1>10, ActorRows, OwnRows DEF Frame
    <2>3. Opening'
      BY <1>1, <1>4, <1>7, <1>10, <2>1, <2>2 DEF Frame, Opening
    <2>4. Target'
      BY <1>4, <1>10 DEF Target
    <2> QED
      BY <1>7, <1>8, <1>9, <2>3, <2>4 DEF IInv, Frame
  <1>11. CASE a = "man"
    <2>1. act'["op"] = act["op"] /\ act'["man"].pc \notin Opens
      BY <1>4, <1>11, OwnRows DEF Others, Opens
    <2>2. act["op"].pc \in Opens => act["op"].row \in Row /\ act["op"].row # r
      BY <1>1, <1>2, <1>11, ActorRows, OwnRows DEF Frame
    <2>3. Opening'
      BY <1>1, <1>7, <2>1, <2>2 DEF Frame, Opening
    <2>4. act["op"].pc \in Building => act["op"].row \in Row /\ row'[act["op"].row] = row[act["op"].row]
      BY <1>1, <1>5, <1>7, <1>11, OwnRows DEF Frame, Works, Work
    <2>5. Target'
      BY <1>1, <2>1, <2>4 DEF Frame, Target, Building
    <2> QED
      BY <1>7, <1>8, <1>9, <2>3, <2>5 DEF IInv, Frame
  <1> QED
    BY <1>10, <1>11, OwnRows

\* Nothing is done to builds: the challenge tree or the pins change, or nothing does.
LEMMA IdleKeeps ==
  ASSUME IInv, UNCHANGED <<row, registry, archive, act, raced, taken, torn>>, pins' \in Pins
  PROVE  IInv'
  <1>1. Frame'
    BY DEF IInv, Frame, Types, Rows, Works, Opening, Target
  <1>2. RowsServedUnlessRaced' /\ Published'
    BY DEF IInv, Core, RowsServedUnlessRaced, Published
  <1>3. Removals'
    BY DEF IInv, Core, Removals, Spares, Excused
  <1>4. \A b \in Actor : \A r : Unc(b, r)' <=> Unc(b, r)
    BY DEF Unc
  <1>5. Bundles' /\ Matches'
    <2>1. Bundles'
      BY <1>4 DEF IInv, Core, Bundles
    <2>2. Matches'
      BY <1>4 DEF IInv, Core, Matches
    <2> QED
      BY <2>1, <2>2
  <1> QED
    BY <1>1, <1>2, <1>3, <1>5 DEF IInv, Core

\* An update sets out.
LEMMA UpdateWithOptionsKeeps ==
  ASSUME IInv, UpdateWithOptions
  PROVE  IInv'
  <1> DEFINE v == [Quiet EXCEPT !.pc = "select", !.kind = "rebuild", !.meta = src]
  <1>1. /\ act["op"].pc = "idle" /\ Frame /\ Types
        /\ UNCHANGED <<row, registry, archive, raced, taken, torn>> /\ pins' \in Pins /\ DOMAIN archive' = Row
        /\ act' = [act EXCEPT !["op"] = v]
    BY DEF IInv, UpdateWithOptions, At, Frame, Types
  <1>2. DOMAIN v = Fields /\ v.pc = "select" /\ v.kind = "rebuild" /\ v.todo = {} /\ v.doomed = {}
    BY DEF Quiet, Fields
  <1> HIDE DEF v
  <1>3. Others("op") /\ act'["op"] = v
    BY <1>1, <1>2, Acts, OwnRows
  <1>4. Shrunk /\ RacedKept("op")
    BY <1>1, SameRows DEF RacedKept
  <1>5. Frame'
    BY <1>1, <1>2, <1>3, <1>4, OwnRows, FrameSettled
  <1>6. Core'
    BY <1>1, <1>2, <1>3, <1>4, OwnRows, CoreKept DEF InFlight, Removing
  <1> QED
    BY <1>5, <1>6 DEF IInv

\* The builds to rebuild are rows that stand.
LEMMA updateChallengesKeeps ==
  ASSUME IInv, updateChallenges
  PROVE  IInv'
  <1> DEFINE T == IF chal # act["op"].meta THEN allBuildIds ELSE staleBuildIds(act["op"].meta)
  <1>1. /\ act["op"].pc = "select" /\ Frame /\ Types
        /\ UNCHANGED <<row, registry, archive, raced, taken, torn>> /\ pins' \in Pins /\ DOMAIN archive' = Row
        /\ act' = [act EXCEPT !["op"].pc = "next", !["op"].todo = T]
    BY DEF IInv, updateChallenges, At, Frame, Types
  <1>2. \A r \in T : r \in Row /\ row[r].on
    BY DEF allBuildIds, staleBuildIds
  <1> HIDE DEF T
  <1>3. /\ Others("op") /\ act'["op"].pc = "next" /\ act'["op"].kind = act["op"].kind /\ act'["op"].todo = T
        /\ act'["op"].doomed = act["op"].doomed
    <2>1. "op" \in Actor /\ DOMAIN act = Actor /\ DOMAIN act["op"] = Fields
      BY <1>1, OwnRows DEF Types
    <2> QED
      BY <1>1, <2>1, SMT DEF Others, Fields
  <1>4. Shrunk /\ RacedKept("op")
    BY <1>1, SameRows DEF RacedKept
  <1>5. Types' /\ Rows'
    BY <1>1, <1>3 DEF Frame, Types, Rows, Others
  <1>6. Works'
    <2>1. act["op"].kind # "new" /\ NoTag \notin act["op"].doomed
      BY <1>1, OwnRows DEF Frame, Works, Work
    <2>2. Work("op", act'["op"])
      BY <1>3, <2>1 DEF Work, Opens, Building, Removing
    <2> QED
      BY <1>1, <1>3, <2>2 DEF Frame, Works, Others
  <1>7. Opening'
    <2>1. act'["man"] = act["man"]
      BY <1>3, OwnRows DEF Others
    <2>2. act["man"].pc \in Opens => ~row[act["man"].row].on /\ act["man"].row \notin T
      BY <1>1, <1>2 DEF Frame, Opening
    <2>3. T \subseteq Row
      BY <1>2
    <2> QED
      BY <1>1, <1>3, <2>1, <2>2, <2>3 DEF Opening, Opens, Building
  <1>8. Target'
    BY <1>3 DEF Target
  <1>9. Core'
    BY <1>1, <1>3, <1>4, OwnRows, CoreKept DEF InFlight, Removing
  <1> QED
    BY <1>5, <1>6, <1>7, <1>8, <1>9 DEF IInv, Frame

\* A rebuild takes its next row, and knows the rollback target it has.
LEMMA rebuildBuildsKeeps ==
  ASSUME IInv, rebuildBuilds
  PROVE  IInv'
  <1>1. /\ act["op"].pc = "next" /\ Frame /\ Types
        /\ UNCHANGED <<row, registry, archive, raced, taken, torn>> /\ pins' \in Pins /\ DOMAIN archive' = Row
    BY DEF IInv, rebuildBuilds, At, Frame, Types
  <1>2. Shrunk /\ RacedKept("op")
    BY <1>1, SameRows DEF RacedKept
  <1>3. act["op"].kind # "new" /\ NoTag \notin act["op"].doomed /\ act["op"].todo \subseteq Row
    BY <1>1, OwnRows DEF Frame, Works, Work, Opening
  <1>4. CASE Goto("op", "doom")
    <2>1. /\ Others("op") /\ act'["op"].pc = "doom"
          /\ \A f \in Fields \ {"pc"} : act'["op"][f] = act["op"][f]
      BY <1>1, <1>4, OwnRows, Goes
    <2>2. act'["op"].todo = act["op"].todo /\ act'["op"].doomed = act["op"].doomed
      BY <2>1 DEF Fields
    <2>3. Frame'
      BY <1>1, <1>2, <1>3, <2>1, <2>2, OwnRows, FrameSettled
    <2>4. Core'
      BY <1>1, <1>2, <2>1, OwnRows, CoreKept DEF InFlight, Removing
    <2> QED
      BY <2>3, <2>4 DEF IInv
  <1>5. CASE act["op"].todo # {}
    <2> DEFINE r == CHOOSE r \in act["op"].todo : r \in Managed \/ act["op"].todo \cap Managed = {}
               pc == IF row[r].on THEN "resolve" ELSE "next"
    <2>1. r \in act["op"].todo
      <3>1. \E s \in act["op"].todo : s \in Managed \/ act["op"].todo \cap Managed = {}
        BY <1>5
      <3> QED
        BY <3>1, SMT
    <2>2. act' = [act EXCEPT !["op"].todo = @ \ {r}, !["op"].row = r, !["op"].prev = row[r].prev, !["op"].pc = pc]
      BY <1>5 DEF rebuildBuilds
    <2>3. pc \in {"resolve", "next"}
      OBVIOUS
    <2> HIDE DEF r, pc
    <2>4. /\ Others("op") /\ act'["op"].pc = pc /\ act'["op"].todo = act["op"].todo \ {r}
          /\ act'["op"].row = r /\ act'["op"].prev = row[r].prev
          /\ act'["op"].kind = act["op"].kind /\ act'["op"].doomed = act["op"].doomed
      <3>0. "op" \in Actor /\ DOMAIN act = Actor /\ DOMAIN act["op"] = Fields
        BY <1>1, OwnRows DEF Types
      <3>1. Others("op") /\ act'["op"].pc = pc /\ act'["op"].todo = act["op"].todo \ {r} /\ act'["op"].row = r
        BY <2>2, <3>0, SMT DEF Others, Fields
      <3>2. act'["op"].prev = row[r].prev /\ act'["op"].kind = act["op"].kind /\ act'["op"].doomed = act["op"].doomed
        BY <2>2, <3>0, SMT DEF Fields
      <3> QED
        BY <3>1, <3>2
    <2>5. Types' /\ Rows'
      BY <1>1, <2>4 DEF Frame, Types, Rows, Others
    <2>6. Works'
      <3>1. Work("op", act'["op"])
        BY <1>3, <2>1, <2>3, <2>4 DEF Work, Opens, Building, Removing
      <3> QED
        BY <1>1, <2>4, <3>1 DEF Frame, Works, Others
    <2>7. Opening'
      <3>1. act'["man"] = act["man"] /\ act'["op"].pc \notin Opens
        BY <2>3, <2>4, OwnRows DEF Others, Opens
      <3>2. act["man"].pc \in Opens => ~row[act["man"].row].on /\ act["man"].row \notin act["op"].todo
        BY <1>1 DEF Frame, Opening
      <3> QED
        BY <1>1, <1>3, <2>1, <2>4, <3>1, <3>2 DEF Opening
    <2>8. Target'
      BY <1>1, <2>4 DEF Target
    <2>9. Core'
      BY <1>1, <1>2, <2>3, <2>4, OwnRows, CoreKept DEF InFlight, Removing
    <2> QED
      BY <2>5, <2>6, <2>7, <2>8, <2>9 DEF IInv, Frame
  <1> QED
    BY <1>4, <1>5 DEF rebuildBuilds

\* A manual build takes a row nobody has in hand.
LEMMA BuildKeeps ==
  ASSUME IInv, NEW r \in Row, Build(r)
  PROVE  IInv'
  <1> DEFINE v == [Quiet EXCEPT !.pc = "drift", !.kind = "new", !.row = r, !.meta = chal]
  <1>1. /\ act["man"].pc = "idle" /\ r \in Manual /\ ~row[r].on /\ act["op"].row # r /\ r \notin act["op"].todo
        /\ Frame /\ Types
        /\ UNCHANGED <<row, registry, archive, raced, taken, torn>> /\ pins' \in Pins /\ DOMAIN archive' = Row
        /\ act' = [act EXCEPT !["man"] = v]
    BY DEF IInv, Build, At, Frame, Types
  <1>2. DOMAIN v = Fields /\ v.pc = "drift" /\ v.kind = "new" /\ v.row = r /\ v.todo = {} /\ v.doomed = {}
    BY DEF Quiet, Fields
  <1> HIDE DEF v
  <1>3. Others("man") /\ act'["man"] = v /\ act'["op"] = act["op"]
    BY <1>1, <1>2, Acts, OwnRows DEF Others
  <1>4. Shrunk /\ RacedKept("man")
    BY <1>1, SameRows DEF RacedKept
  <1>5. Types' /\ Rows'
    BY <1>1, <1>3 DEF Frame, Types, Rows, Others
  <1>6. Works'
    <2>1. Work("man", v)
      BY <1>1, <1>2, OwnRows DEF Work, Opens, Building, Removing
    <2> QED
      BY <1>1, <1>3, <2>1 DEF Frame, Works, Others
  <1>7. Opening' /\ Target'
    BY <1>1, <1>2, <1>3 DEF Frame, Opening, Target
  <1>8. Core'
    BY <1>1, <1>2, <1>3, <1>4, OwnRows, CoreKept DEF InFlight, Removing
  <1> QED
    BY <1>5, <1>6, <1>7, <1>8 DEF IInv, Frame

\* A removal reads the row it is going to remove.
LEMMA destroysKeeps ==
  ASSUME IInv, NEW a \in Actor, NEW r \in Own(a), destroys(a, r)
  PROVE  IInv'
  <1> DEFINE D == IF row[r].built THEN {row[r].ck, row[r].prev} \ {NoTag} ELSE {}
             v == [Quiet EXCEPT !.pc = "remove", !.row = r, !.pushed = row[r].built, !.doomed = D]
  <1>1. /\ act[a].pc = "idle" /\ Frame /\ Types
        /\ UNCHANGED <<row, registry, archive, raced, taken, torn>> /\ pins' \in Pins /\ DOMAIN archive' = Row
        /\ act' = [act EXCEPT ![a] = v]
    BY DEF IInv, destroys, At, Frame, Types
  <1>2. NoTag \notin D
    OBVIOUS
  <1>3. DOMAIN v = Fields /\ v.pc = "remove" /\ v.row = r /\ v.todo = {} /\ v.doomed = D
    BY DEF Quiet, Fields
  <1> HIDE DEF v, D
  <1>4. Others(a) /\ act'[a] = v
    BY <1>1, <1>3, Acts
  <1>5. Shrunk /\ RacedKept(a)
    BY <1>1, SameRows DEF RacedKept
  <1>6. Work(a, act'[a])
    BY <1>2, <1>3, <1>4 DEF Work, Opens, Building, Removing
  <1>7. Frame'
    BY <1>1, <1>3, <1>4, <1>5, <1>6, FrameKept DEF Opens, Building
  <1>8. Core'
    BY <1>1, <1>3, <1>4, <1>5, CoreKept DEF InFlight, Removing
  <1> QED
    BY <1>7, <1>8 DEF IInv

\* The row goes, with its bundle.
LEMMA destroyImagesKeeps ==
  ASSUME IInv, NEW a \in Actor, destroyImages(a)
  PROVE  IInv'
  <1> DEFINE r0 == act[a].row
  <1>1. /\ act[a].pc = "remove" /\ Frame /\ Types
        /\ UNCHANGED <<registry, raced, taken>> /\ pins' \in Pins
        /\ row' = [row EXCEPT ![r0] = NoRow] /\ torn' = torn \ {r0}
    BY DEF IInv, destroyImages, removeBuildMetadata, At, Frame, Types
  <1>2. r0 \in Row /\ NoTag \notin act[a].doomed
    BY <1>1, OwnRows DEF Frame, Works, Work
  <1>3. DOMAIN archive' = Row /\ \A r \in Row : r # r0 => archive'[r] = archive[r]
    <2>1. archive' = archive \/ archive' = [archive EXCEPT ![r0] = NoTag]
      BY DEF destroyImages
    <2> QED
      BY <1>1, <2>1 DEF Types
  <1>4. DOMAIN row' = Row /\ row'[r0] = NoRow /\ \A r \in Row : r # r0 => row'[r] = row[r]
    BY <1>1, <1>2 DEF Types
  <1>5. Shrunk /\ RacedKept(a)
    BY <1>1, <1>4 DEF Shrunk, RacedKept
  <1>6. \A r \in Row : row'[r].on => (r \in torn' <=> r \in torn) /\ archive'[r] = archive[r]
    BY <1>1, <1>3, <1>4, QuietFields
  <1>7. /\ Others(a) /\ act'[a].pc \in {"idle", "doom"} /\ act'[a].todo \subseteq act[a].todo
        /\ NoTag \notin act'[a].doomed
    <2>1. CASE Goto(a, "doom")
      <3>1. /\ Others(a) /\ act'[a].pc = "doom"
            /\ \A f \in Fields \ {"pc"} : act'[a][f] = act[a][f]
        BY <1>1, <2>1, Goes
      <3>2. act'[a].todo = act[a].todo /\ act'[a].doomed = act[a].doomed
        BY <3>1 DEF Fields
      <3> QED
        BY <1>2, <3>1, <3>2
    <2>2. CASE Ends(a)
      BY <1>1, <2>2, Ended
    <2> QED
      BY <2>1, <2>2 DEF destroyImages
  <1>8. Frame'
    BY <1>1, <1>3, <1>5, <1>7, FrameSettled
  <1>9. Core'
    BY <1>1, <1>5, <1>6, <1>7, CoreKept DEF InFlight, Removing
  <1> QED
    BY <1>8, <1>9 DEF IInv

\* A doomed tag is kept when a row resolves to it; otherwise its removal sets out.
LEMMA pruneReplacedImagesKeeps ==
  ASSUME IInv, NEW a \in Actor, pruneReplacedImages(a)
  PROVE  IInv'
  <1>1. /\ act[a].pc = "doom" /\ Frame /\ Types
        /\ UNCHANGED <<row, registry, archive, taken, torn>> /\ pins' \in Pins /\ DOMAIN archive' = Row
    BY DEF IInv, pruneReplacedImages, At, Frame, Types
  <1>2. Shrunk /\ taken \subseteq taken' /\ registry \subseteq registry' /\ NoTag \notin act[a].doomed
    BY <1>1, SameRows DEF Frame, Works, Work
  <1>3. CASE Ends(a) /\ UNCHANGED raced
    <2>1. Others(a) /\ act'[a].pc = "idle" /\ act'[a].todo = {} /\ act'[a].doomed = {} /\ RacedKept(a)
      BY <1>1, <1>3, Ended DEF RacedKept
    <2>2. Frame'
      BY <1>1, <1>2, <2>1, FrameSettled
    <2>3. Core'
      BY <1>1, <1>2, <2>1, CoreKept DEF InFlight, Removing
    <2> QED
      BY <2>2, <2>3 DEF IInv
  <1>4. CASE act[a].doomed # {}
    <2> DEFINE t == CHOOSE t \in act[a].doomed : TRUE
               kept == contentReferenced(t, {})
               pc == IF kept THEN "doom" ELSE "delete"
               tag == IF kept THEN NoTag ELSE t
    <2>1. t \in act[a].doomed
      BY <1>4, SMT
    <2>2. /\ act' = [act EXCEPT ![a].doomed = @ \ {t}, ![a].pc = pc, ![a].tag = tag]
          /\ raced' = IF kept THEN raced ELSE raced \cup (Racing(t) \X {t})
      BY <1>4 DEF pruneReplacedImages
    <2>3. (kept => pc = "doom") /\ (~kept => pc = "delete" /\ tag = t)
      OBVIOUS
    <2> HIDE DEF t, pc, tag
    <2>4. /\ Others(a) /\ act'[a].pc = pc /\ act'[a].tag = tag /\ act'[a].todo = act[a].todo
          /\ act'[a].doomed = act[a].doomed \ {t}
      <3>1. Others(a) /\ act'[a].pc = pc /\ act'[a].tag = tag
        BY <1>1, <2>2 DEF Types, Others, Fields
      <3>2. act'[a].todo = act[a].todo /\ act'[a].doomed = act[a].doomed \ {t}
        BY <1>1, <2>2 DEF Types, Fields
      <3> QED
        BY <3>1, <3>2
    <2>5. RacedKept(a) /\ NoTag \notin act'[a].doomed /\ act'[a].todo \subseteq act[a].todo
      BY <1>2, <2>2, <2>4 DEF RacedKept
    <2>6. CASE kept
      <3>1. Frame'
        BY <1>1, <1>2, <2>3, <2>4, <2>5, <2>6, FrameSettled
      <3>2. Core'
        BY <1>1, <1>2, <2>3, <2>4, <2>5, <2>6, CoreKept DEF InFlight, Removing
      <3> QED
        BY <3>1, <3>2 DEF IInv
    <2>7. CASE ~kept
      <3>1. act'[a].pc = "delete" /\ act'[a].tag = t /\ t # NoTag /\ raced' = raced \cup (Racing(t) \X {t})
        BY <1>2, <2>1, <2>2, <2>3, <2>4, <2>7
      <3>2. Work(a, act'[a])
        BY <2>5, <3>1 DEF Work, Opens, Building, Removing
      <3>3. Frame'
        BY <1>1, <1>2, <2>4, <2>5, <3>1, <3>2, FrameKept DEF Opens, Building
      <3>4. RowsServedUnlessRaced'
        BY <1>2, ServedKept
      <3>5. Published'
        <4>1. Pub(a)'
          BY <3>1 DEF Pub
        <4> QED
          BY <1>2, <2>4, <2>5, <4>1, PublishedKept
      <3>6. Spares(a)'
        <4>1. ASSUME NEW c \in Actor, \/ act'[c].pc \in InFlight /\ act'[c].ck = t
                                      \/ act'[c].pc = "finalize" /\ act'[c].prev = t
              PROVE  <<c, t>> \in raced'
          <5>1. c # a
            BY <3>1, <4>1 DEF InFlight
          <5>2. act'[c] = act[c]
            BY <2>4, <5>1 DEF Others
          <5>3. c \in Racing(t)
            BY <4>1, <5>2 DEF Racing
          <5> QED
            BY <3>1, <5>3
        <4>2. ASSUME NEW r \in Row, row'[r].built
              PROVE  t \notin {row'[r].ck, row'[r].prev}
          <5>1. row[r].on /\ row'[r] = row[r]
            BY <1>1, <4>2 DEF Frame, Rows
          <5> QED
            BY <2>7, <5>1 DEF contentReferenced
        <4> QED
          BY <3>1, <4>1, <4>2 DEF Spares
      <3>7. Removals'
        <4> SUFFICES ASSUME NEW b \in Actor, act'[b].pc \in Removing
                     PROVE  Spares(b)'
          BY DEF Removals
        <4>1. CASE b = a
          BY <3>6, <4>1
        <4>2. CASE b # a
          <5>1. act[b].pc \in Removing /\ act'[a].pc \notin InFlight /\ act'[a].pc # "finalize"
            BY <2>4, <3>1, <4>2 DEF Others, InFlight
          <5> QED
            BY <1>2, <2>4, <2>5, <4>2, <5>1, SparesKept
        <4> QED
          BY <4>1, <4>2
      <3>8. Bundles' /\ Matches'
        BY <1>1, <1>2, <2>4, <3>1, BundlesKept DEF Unc
      <3> QED
        BY <3>3, <3>4, <3>5, <3>7, <3>8 DEF IInv, Core
    <2> QED
      BY <2>6, <2>7
  <1> QED
    BY <1>3, <1>4 DEF pruneReplacedImages

\* The process dies: what was in flight is gone, and rows with an uncommitted bundle are torn.
LEMMA CrashKeeps ==
  ASSUME IInv, Crash
  PROVE  IInv'
  <1>1. /\ act' = [a \in Actor |-> Quiet] /\ UNCHANGED <<pins, row, registry, archive, taken>>
        /\ torn' = torn \cup {r \in Row : row[r].on /\ Uncommitted(r) # {}}
    BY DEF Crash
  <1>2. DOMAIN act' = Actor /\ \A a \in Actor : act'[a] = Quiet
    BY <1>1
  <1>3. Types' /\ Rows'
    BY <1>1, <1>2, QuietFields DEF IInv, Frame, Types, Rows
  <1>4. Works'
    BY <1>2, QuietFields DEF Works, Work, Opens, Building, Removing
  <1>5. Opening' /\ Target'
    BY <1>2, QuietFields, OwnRows DEF Opening, Target, Opens
  <1>6. Published' /\ Removals'
    BY <1>2, QuietFields DEF Published, Removals, Removing
  <1>7. RowsServedUnlessRaced'
    BY <1>1 DEF IInv, Core, RowsServedUnlessRaced
  <1>8. Bundles'
    BY <1>2, QuietFields DEF Bundles, Unc
  <1>9. Matches'
    <2> SUFFICES ASSUME NEW r \in Row, r \notin torn', row[r].built
                 PROVE  archive[r] = row[r].ck
      BY <1>1 DEF Matches
    <2>1. Uncommitted(r) = {} /\ r \notin torn
      BY <1>1 DEF IInv, Frame, Rows
    <2>2. \A a \in Actor : ~Unc(a, r)
      BY <2>1 DEF Uncommitted, Unc
    <2> QED
      BY <2>1, <2>2 DEF IInv, Core, Matches
  <1> QED
    BY <1>3, <1>4, <1>5, <1>6, <1>7, <1>8, <1>9 DEF IInv, Frame, Core

\* The states the daemon may start from.
LEMMA InitIInv == Init => IInv
  <1> SUFFICES ASSUME Init
               PROVE  IInv
    OBVIOUS
  <1>1. PICK prev \in (Sources \X {1} \ {<<1, 1>>}) \cup {NoTag}, standing \in SUBSET Managed :
          /\ row = [r \in Row |-> IF r \notin standing THEN NoRow
                                  ELSE [on |-> TRUE, built |-> TRUE, ck |-> <<1, 1>>, prev |-> prev, gen |-> 1]]
          /\ registry = (UNION {{row[r].ck, row[r].prev} : r \in standing}) \ {NoTag}
          /\ archive = [r \in Row |-> row[r].ck]
    BY DEF Init
  <1>2. pins \in Pins /\ DOMAIN act = Actor /\ \A a \in Actor : act[a] = Quiet
    BY BuildsAssumption DEF Init
  <1>3. ASSUME NEW r \in Row
        PROVE  /\ DOMAIN row[r] = RowFields /\ archive[r] = row[r].ck
               /\ (row[r].built => row[r].on /\ r \in standing) /\ (~row[r].built => row[r].prev = NoTag)
    <2>1. archive[r] = row[r].ck
      BY <1>1
    <2>2. CASE r \in standing
      BY <1>1, <2>1, <2>2 DEF RowFields
    <2>3. CASE r \notin standing
      BY <1>1, <2>1, <2>3, QuietFields
    <2> QED
      BY <2>2, <2>3
  <1>4. Types /\ Rows
    <2>1. DOMAIN row = Row /\ DOMAIN archive = Row
      BY <1>1
    <2> QED
      BY <1>2, <1>3, <2>1, QuietFields DEF Types, Rows
  <1>5. Works
    BY <1>2, QuietFields DEF Works, Work, Opens, Building, Removing
  <1>6. Opening /\ Target
    BY <1>2, QuietFields, OwnRows DEF Opening, Target, Opens
  <1>7. Published /\ Removals
    BY <1>2, QuietFields DEF Published, Removals, Removing
  <1>8. RowsServedUnlessRaced
    <2> SUFFICES ASSUME NEW r \in Row, row[r].built
                 PROVE  {row[r].ck, row[r].prev} \subseteq registry \cup {NoTag}
      BY DEF RowsServedUnlessRaced
    <2>1. r \in standing
      BY <1>3
    <2> DEFINE all == UNION {{row[s].ck, row[s].prev} : s \in standing}
    <2>2. {row[r].ck, row[r].prev} \subseteq all
      BY <2>1
    <2>3. registry = all \ {NoTag}
      BY <1>1
    <2> HIDE DEF all
    <2> QED
      BY <2>2, <2>3
  <1>9. Bundles /\ Matches
    BY <1>2, <1>3, QuietFields DEF Bundles, Matches, Unc
  <1> QED
    BY <1>4, <1>5, <1>6, <1>7, <1>8, <1>9 DEF IInv, Frame, Core

\* Every step keeps the invariant.
LEMMA NextKeeps == IInv /\ [Next]_vars => IInv'
  <1> SUFFICES ASSUME IInv, [Next]_vars
               PROVE  IInv'
    OBVIOUS
  <1>1. CASE Update
    BY <1>1, UpdateWithOptionsKeeps, updateChallengesKeeps, rebuildBuildsKeeps DEF Update
  <1>2. ASSUME NEW r \in Row, convergeSchema(r) \/ DeleteSchema(r) \/ Build(r) \/ Destroy(r)
        PROVE  IInv'
    <2>1. CASE convergeSchema(r)
      BY <2>1, convergeSchemaKeeps
    <2>2. CASE DeleteSchema(r)
      BY <2>2, destroysKeeps, OwnRows DEF DeleteSchema
    <2>3. CASE Build(r)
      BY <2>3, BuildKeeps
    <2>4. CASE Destroy(r)
      BY <2>4, destroysKeeps, OwnRows DEF Destroy
    <2> QED
      BY <1>2, <2>1, <2>2, <2>3, <2>4
  <1>3. ASSUME NEW a \in Actor, step(a)
        PROVE  IInv'
    BY <1>3, generateBuildsKeeps, generateOpensKeeps, executeBuildKeeps, buildFailsKeeps, publishImagesKeeps,
       promoteKeeps, executeBuildFailedKeeps, takeBackKeeps, reconcileBuildKeeps, finalizeBuildKeeps,
       destroyImagesKeeps, pruneReplacedImagesKeeps, retireRegistryTagKeeps DEF step
  <1>4. CASE EditTree \/ RefreshBasePins \/ UNCHANGED vars
    <2>1. UNCHANGED <<row, registry, archive, act, raced, taken, torn>> /\ pins' \in Pins
      BY <1>4 DEF EditTree, RefreshBasePins, vars, IInv, Frame, Types
    <2> QED
      BY <2>1, IdleKeeps
  <1>5. CASE Crash
    BY <1>5, CrashKeeps
  <1> QED
    BY <1>1, <1>2, <1>3, <1>4, <1>5 DEF Next

-----------------------------------------------------------------------------
\* Every step of updates, schema operations, manual builds and their removals keeps what
\* a build is about to commit published or on record as raced, what a remover is about to
\* delete nobody's, and the bundle in place of the one build that promoted it.
THEOREM BuildsInductive == Spec => []IInv
  <1> QED
    BY InitIInv, NextKeeps, PTL DEF Spec

\* A row's tag and its rollback target are in the registry unless a removal of that tag
\* overlapped the build that committed it: publishImages pushes before finalizeBuild
\* commits, and contentReferenced keeps every remover from what a row resolves to.
THEOREM RowsStayServed == Spec => []RowsServedUnlessRaced
  <1>1. IInv => RowsServedUnlessRaced
    BY DEF IInv, Core
  <1> QED
    BY <1>1, BuildsInductive, PTL

\* A finished build whose row no build has in hand serves the bundle of the generation on
\* record: promote and finalizeBuild go in that order, whatever fails or dies between them.
THEOREM BundlesMatchRows == Spec => []ArchiveMatches
  <1>1. IInv => ArchiveMatches
    BY DEF IInv, Core, Matches, ArchiveMatches, Uncommitted, Unc
  <1> QED
    BY <1>1, BuildsInductive, PTL
=============================================================================
