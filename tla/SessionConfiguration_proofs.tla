---------------------- MODULE SessionConfiguration_proofs ----------------------
(***************************************************************************)
(* A configuration operation has one decision: the disk, the Agent and the *)
(* answers given to callers agree on it, for any numbers of Sessions and   *)
(* operations, any size of the ledger, refused writes and restarts.        *)
(*                                                                         *)
(* What is said of an operation, and what the Agent has of it, follows     *)
(* what is decided.  A finalization that is pending is the one its ledger  *)
(* entry asks for.  One that is still queued may have been overtaken by    *)
(* another of the same operation; then the Agent has answered the call it  *)
(* would make, so that making it again changes nothing.  An entry that is  *)
(* not settled is being worked on, and an idle backing runs with what the  *)
(* Host holds unless a committed finalization is about to get it there.    *)
(***************************************************************************)
EXTENDS SessionConfiguration, FiniteSetTheorems, SequenceTheorems, WellFoundedInduction, TLAPS

Decisions == {"commit", "rollback"}
Early == {"record", "intent", "prepare", "unprepared", "prepared", "decide"}
Final == {"finalize", "complete", "acknowledge", "forget"}

EntrySet == [op : Ops, session : Sessions, config : Configs,
             status : {"intent", "pending", "completed", "acknowledged"}, decision : Decisions]
JobSet == [op : Ops, session : Sessions, config : Configs, decision : Decisions, at : Early \cup Final]
CatalogSet == [config : [Sessions -> Configs], open : [Sessions -> BOOLEAN], ledger : Seq(EntrySet)]
TransactionSet ==
  {NoTransaction} \cup [status : {"prepared", "committed", "rolledBack"}, config : Configs]
AgentSet ==
  [config : [Sessions -> Configs \cup {None}], txn : [Ops -> TransactionSet],
   done : [Ops -> SUBSET {"prepare", "commit", "rollback", "acknowledge"}]]

Unsettled(e) == e.status # "acknowledged"

\* An operation has one entry, a Session one that is not settled.
SingleEntries(ledger) == \A i, j \in DOMAIN ledger : ledger[i].op = ledger[j].op => i = j
SingleUnsettled(entries) ==
  \A e, f \in entries : Unsettled(e) /\ Unsettled(f) /\ e.session = f.session => e.op = f.op
WellFormed(catalog) ==
  /\ catalog \in CatalogSet /\ Len(catalog.ledger) <= Retained
  /\ SingleEntries(catalog.ledger) /\ SingleUnsettled(Entries(catalog))

Matches(x, e) == e.op = x.op /\ e.session = x.session /\ e.config = x.config /\ e.decision = x.decision

Types ==
  /\ stale \in BOOLEAN /\ landed \in BOOLEAN /\ up \in {"serving", "restoring", "down"}
  /\ job \in {NoJob} \cup JobSet
  /\ asked \subseteq JobSet
  /\ finalizing \in [Ops -> {NoFinalization} \cup JobSet]
  /\ registry \in [Ops -> {"unknown", "pending", "succeeded", "failed"}]
  /\ agent \in AgentSet
  /\ decided \subseteq Ops
  /\ told \in [Ops -> {None, "succeeded", "failed"}]

\* Memory is what is stored, unless storage wrote what it had refused; and
\* what is decided is in the ledger, unless it has.
Stored ==
  /\ WellFormed(disk) /\ WellFormed(memory) /\ \A catalog \in late : WellFormed(catalog)
  /\ ~stale => disk = memory /\ late = {}
  /\ ~landed => disk = memory
  /\ Decided(disk) \subseteq decided /\ Decided(memory) \subseteq decided
  /\ ~landed => decided \subseteq Decided(memory)

\* Of each operation: its name, what the Agent has of it and what is said of it.
Operation(op) ==
  /\ op \in LedgerOps(memory) => registry[op] # "unknown"
  /\ registry[op] = "unknown" => agent.txn[op] = NoTransaction
  /\ \A e \in Entries(memory) : e.op = op /\ ~Unsettled(e) => agent.txn[op] = NoTransaction
  /\ registry[op] = "succeeded" => op \in decided
  /\ registry[op] = "failed" => op \notin decided \/ landed
  /\ told[op] = "succeeded" => op \in decided
  /\ told[op] = "failed" => op \notin decided \/ landed
  /\ agent.txn[op].status = "committed" => op \in decided
  /\ agent.txn[op].status = "rolledBack" => op \notin decided \/ landed
  /\ agent.done[op] \cap {"commit", "rollback", "acknowledge"} # {} => agent.txn[op].status # "prepared"
  /\ "acknowledge" \in agent.done[op] => agent.txn[op] = NoTransaction

\* A finalization that is pending, and the entry it is about.
StatusAt(stage) ==
  CASE stage \in {"finalize", "forget"} -> {"intent", "pending"}
    [] stage = "acknowledge" -> {"completed"}
    [] OTHER -> {}
PendingShape(op, final) ==
  /\ final.op = op /\ final.at \in {"finalize", "acknowledge", "forget"}
  /\ \E e \in Entries(memory) : Matches(final, e) /\ e.status \in StatusAt(final.at)
  /\ final.at = "finalize" => "acknowledge" \notin agent.done[op]
  /\ final.at = "finalize" /\ final.decision = "commit" => memory.config[final.session] = final.config
  /\ final.at = "forget" => agent.txn[op] = NoTransaction
PendingFinalizations ==
  \A op \in Ops : finalizing[op] # NoFinalization => PendingShape(op, finalizing[op])

\* A finalization in the queue, or that runs, may have been overtaken by another
\* of the same operation; then its call is one the Agent has answered.
Answered(final) == final.decision \in agent.done[final.op]
NotFinalizing(op) == finalizing[op] # NoFinalization => finalizing[op].at # "finalize"
FinalShape(final) ==
  /\ final.at \in Final
  /\ \E e \in Entries(memory) :
       Matches(final, e) /\ (final.at \in {"acknowledge"} => e.status \in {"completed", "acknowledged"})
  /\ final.at = "finalize" => \/ Answered(final)
                              \/ finalizing[final.op] # NoFinalization /\ finalizing[final.op].at = "finalize"
  /\ final.at = "complete" => Answered(final)
  /\ final.at \in {"acknowledge", "forget"} => NotFinalizing(final.op)
  /\ final.at = "forget" => agent.txn[final.op] = NoTransaction

EarlyShape ==
  /\ registry[job.op] = "pending" /\ told[job.op] = None /\ up = "serving"
  /\ finalizing[job.op] = NoFinalization /\ ~PendingIn(job.session)
  /\ agent.done[job.op] \subseteq {"prepare"}
  /\ job.at \in {"record", "intent"} => job.op \notin LedgerOps(memory)
  /\ job.at \in {"record", "intent", "prepare"} => agent.txn[job.op] = NoTransaction /\ agent.done[job.op] = {}
  /\ job.at = "record" =>
       job.decision = "commit" /\ (memory.open[job.session] => memory.config[job.session] = job.config)
  /\ job.at # "record" => job.decision = "rollback"
  /\ job.at \in {"prepare", "unprepared", "prepared", "decide"} =>
       \E e \in Entries(memory) : Matches(job, e) /\ e.status \in {"intent", "pending"}
  /\ job.at \in {"prepared", "decide"} => agent.txn[job.op].status = "prepared"

Queue ==
  /\ up # "serving" => asked = {}
  /\ up = "down" => job = NoJob
  /\ up = "restoring" => job.at \in {None, "acknowledge", "forget"}
  /\ up = "serving" => \A op \in Ops : finalizing[op].at # "forget"
  /\ up = "restoring" => \A op \in Ops : finalizing[op].at # "finalize"
  /\ job.at \in Early => EarlyShape
  /\ job.at \in Final => FinalShape(job)
  /\ \A final \in asked : final.at \in {"finalize", "acknowledge"} /\ FinalShape(final)

\* What is not settled is under way.
UnderWay ==
  up # "down" => \A e \in Entries(memory) : Unsettled(e) =>
    finalizing[e.op] # NoFinalization \/ (job.at \in Early /\ job.op = e.op)

\* The backing of a Session runs with what the Host holds, or is about to.
Follows ==
  up # "down" => \A s \in Sessions : memory.open[s] =>
    \/ agent.config[s] = memory.config[s]
    \/ \E op \in Ops : /\ finalizing[op] # NoFinalization /\ finalizing[op].session = s
                       /\ finalizing[op].at = "finalize" /\ finalizing[op].decision = "commit"
                       /\ agent.txn[op].status = "prepared"

IInv ==
  /\ Types /\ Stored /\ \A op \in Ops : Operation(op)
  /\ PendingFinalizations /\ Queue /\ UnderWay /\ Follows

-----------------------------------------------------------------------------
(* The ledger. *)

LEMMA LeastElement ==
  ASSUME NEW S, S \subseteq Nat, S # {}
  PROVE  \E i \in S : \A j \in S : i <= j
<1> DEFINE R == {ss \in Nat \X Nat : ss[1] < ss[2]}
<1>1. IsWellFoundedOn(R, Nat)
  BY NatLessThanWellFounded DEF OpToRel
<1>2. PICK i \in S : \A j \in S : ~(<<j, i>> \in R)
  BY <1>1, WFMin
<1>3. \A j \in S : ~(j < i)
  BY <1>2
<1> QED BY <1>3

LEMMA Removal ==
  ASSUME NEW S, NEW s \in Seq(S), NEW i \in DOMAIN s
  PROVE  /\ RemoveAt(s, i) \in Seq(S) /\ Len(RemoveAt(s, i)) = Len(s) - 1 /\ Len(s) \in Nat \ {0}
         /\ DOMAIN RemoveAt(s, i) = 1 .. Len(s) - 1
         /\ \A j \in 1 .. Len(s) - 1 : RemoveAt(s, i)[j] = IF j < i THEN s[j] ELSE s[j + 1]
<1>1. Len(s) \in Nat /\ DOMAIN s = 1..Len(s) /\ i \in Nat /\ 1 <= i /\ i <= Len(s) /\ \A j \in 1..Len(s) : s[j] \in S
  BY LenProperties, ElementOfSeq
<1>2. PICK a : a = SubSeq(s, 1, i - 1)
  OBVIOUS
<1>3. PICK b : b = SubSeq(s, i + 1, Len(s))
  OBVIOUS
<1>4. a \in Seq(S) /\ Len(a) = i - 1 /\ \A j \in 1 .. i - 1 : a[j] = s[j]
  <2>1. \A j \in 1 .. i - 1 : s[j] \in S
    BY <1>1
  <2>2. /\ SubSeq(s, 1, i - 1) \in Seq(S)
        /\ Len(SubSeq(s, 1, i - 1)) = IF 1 <= i - 1 THEN i - 1 - 1 + 1 ELSE 0
        /\ \A j \in 1 .. i - 1 - 1 + 1 : SubSeq(s, 1, i - 1)[j] = s[1 + j - 1]
    BY <1>1, <2>1, SubSeqProperties
  <2> QED BY <1>1, <1>2, <2>2
<1>5. b \in Seq(S) /\ Len(b) = Len(s) - i /\ \A j \in 1 .. Len(s) - i : b[j] = s[i + j]
  <2>1. \A j \in i + 1 .. Len(s) : s[j] \in S
    BY <1>1
  <2>2. /\ SubSeq(s, i + 1, Len(s)) \in Seq(S)
        /\ Len(SubSeq(s, i + 1, Len(s))) = IF i + 1 <= Len(s) THEN Len(s) - (i + 1) + 1 ELSE 0
        /\ \A j \in 1 .. Len(s) - (i + 1) + 1 : SubSeq(s, i + 1, Len(s))[j] = s[i + 1 + j - 1]
    BY <1>1, <2>1, SubSeqProperties
  <2> QED BY <1>1, <1>3, <2>2
<1>6. RemoveAt(s, i) = a \o b
  BY <1>2, <1>3 DEF RemoveAt
<1>7. /\ a \o b \in Seq(S) /\ Len(a \o b) = Len(a) + Len(b)
      /\ \A j \in 1 .. Len(a) + Len(b) : (a \o b)[j] = IF j <= Len(a) THEN a[j] ELSE b[j - Len(a)]
  BY <1>4, <1>5, ConcatProperties
<1>8. Len(a) + Len(b) = Len(s) - 1 /\ DOMAIN (a \o b) = 1 .. Len(s) - 1
  <2>1. Len(a) + Len(b) = Len(s) - 1
    BY <1>1, <1>4, <1>5
  <2>2. DOMAIN (a \o b) = 1 .. Len(a \o b)
    BY <1>7, LenProperties
  <2> QED BY <1>7, <2>1, <2>2
<1>9. ASSUME NEW j \in 1 .. Len(s) - 1 PROVE (a \o b)[j] = IF j < i THEN s[j] ELSE s[j + 1]
  <2>1. CASE j < i
    <3>1. j \in 1 .. Len(a) + Len(b) /\ j \in 1 .. i - 1 /\ j <= Len(a)
      <4>1. i \in Nat /\ j \in Nat /\ 1 <= j
        BY <1>1
      <4>2. Len(a) = i - 1 /\ Len(a) + Len(b) = Len(s) - 1
        BY <1>4, <1>8
      <4>3. j <= i - 1
        BY <4>1, <2>1
      <4>4. j \in 1 .. Len(a) + Len(b)
        BY <4>2
      <4> QED BY <4>1, <4>2, <4>3, <4>4
    <3>2. (a \o b)[j] = a[j] /\ a[j] = s[j]
      BY <1>4, <1>7, <3>1
    <3> QED BY <2>1, <3>2
  <2>2. CASE ~(j < i)
    <3>1. j \in Nat /\ j <= Len(s) - 1 /\ Len(a) = i - 1 /\ ~(j <= Len(a)) /\ j \in 1 .. Len(a) + Len(b)
      <4>1. Len(s) \in Nat /\ i \in Nat /\ Len(s) - 1 \in Int /\ j \in Nat /\ 1 <= j /\ j <= Len(s) - 1
        BY <1>1
      <4>2. Len(a) = i - 1 /\ Len(a) + Len(b) = Len(s) - 1
        BY <1>4, <1>8
      <4>3. ~(j <= i - 1) /\ j \in 1 .. Len(s) - 1
        BY <4>1, <2>2
      <4> QED BY <4>1, <4>2, <4>3
    <3>2. (a \o b)[j] = b[j - Len(a)]
      BY <1>7, <3>1
    <3>3. PICK k : k = j - (i - 1)
      OBVIOUS
    <3>4. k \in 1 .. Len(s) - i /\ i + k = j + 1
      BY <1>1, <2>2, <3>1, <3>3
    <3>5. b[k] = s[i + k]
      BY <1>5, <3>4
    <3>6. (a \o b)[j] = b[k]
      BY <3>1, <3>2, <3>3
    <3>7. s[i + k] = s[j + 1]
      BY <3>4
    <3>8. (a \o b)[j] = s[j + 1]
      BY <3>5, <3>6, <3>7
    <3> QED BY <2>2, <3>8
  <2> QED BY <2>1, <2>2
<1>10. Len(s) \in Nat \ {0}
  BY <1>1
<1> QED BY <1>6, <1>7, <1>8, <1>9, <1>10

\* What is removed is gone, the rest stays.
LEMMA Remaining ==
  ASSUME NEW s \in Seq(EntrySet), SingleEntries(s), NEW i \in DOMAIN s
  PROVE  /\ RemoveAt(s, i) \in Seq(EntrySet) /\ Len(RemoveAt(s, i)) = Len(s) - 1
         /\ SingleEntries(RemoveAt(s, i))
         /\ \A e : e \in Range(RemoveAt(s, i)) <=> e \in Range(s) /\ e.op # s[i].op
<1> DEFINE r == RemoveAt(s, i)
<1>1. /\ r \in Seq(EntrySet) /\ Len(r) = Len(s) - 1 /\ Len(s) \in Nat \ {0} /\ DOMAIN r = 1 .. Len(s) - 1
      /\ \A j \in 1 .. Len(s) - 1 : r[j] = IF j < i THEN s[j] ELSE s[j + 1]
  BY Removal
<1>2. DOMAIN s = 1..Len(s) /\ i \in Nat /\ 1 <= i /\ i <= Len(s)
  BY <1>1, LenProperties
<1> HIDE DEF r
<1>3. ASSUME NEW j \in DOMAIN r
      PROVE  \E k \in DOMAIN s : k # i /\ r[j] = s[k] /\ k = IF j < i THEN j ELSE j + 1
  <2>1. CASE j < i
    BY <1>1, <1>2, <2>1
  <2>2. CASE ~(j < i)
    BY <1>1, <1>2, <2>2
  <2> QED BY <2>1, <2>2
<1>4. ASSUME NEW k \in DOMAIN s, k # i PROVE \E j \in DOMAIN r : r[j] = s[k]
  <2>1. CASE k < i
    <3>1. k \in DOMAIN r /\ r[k] = s[k]
      BY <1>1, <1>2, <2>1
    <3> QED BY <3>1
  <2>2. CASE ~(k < i)
    <3>1. k - 1 \in DOMAIN r /\ r[k - 1] = s[k]
      BY <1>1, <1>2, <1>4, <2>2
    <3> QED BY <3>1
  <2> QED BY <2>1, <2>2
<1>5. SingleEntries(r)
  <2>1. ASSUME NEW x \in DOMAIN r, NEW y \in DOMAIN r, r[x].op = r[y].op PROVE x = y
    <3>1. PICK k \in DOMAIN s : r[x] = s[k] /\ k = IF x < i THEN x ELSE x + 1
      BY <1>3
    <3>2. PICK l \in DOMAIN s : r[y] = s[l] /\ l = IF y < i THEN y ELSE y + 1
      BY <1>3
    <3>3. k = l
      BY <2>1, <3>1, <3>2 DEF SingleEntries
    <3> QED BY <1>1, <1>2, <3>1, <3>2, <3>3
  <2> QED BY <2>1 DEF SingleEntries
<1>6. \A e : e \in Range(r) <=> e \in Range(s) /\ e.op # s[i].op
  <2>1. ASSUME NEW j \in DOMAIN r PROVE r[j] \in Range(s) /\ r[j].op # s[i].op
    BY <1>3 DEF Range, SingleEntries
  <2>2. ASSUME NEW k \in DOMAIN s, s[k].op # s[i].op PROVE s[k] \in Range(r)
    BY <1>4, <2>2 DEF Range
  <2> QED BY <2>1, <2>2 DEF Range
<1> QED BY <1>1, <1>5, <1>6 DEF r

\* What a catalog becomes with an entry that is admitted: only an operation
\* that is acknowledged leaves the ledger, and only for a new one.
Gone(old, new) == LedgerOps(old) \ LedgerOps(new)
Fits(catalog, entry) ==
  /\ \A e \in Entries(catalog) : e.op = entry.op /\ ~Unsettled(e) => entry = e
  /\ \/ entry.op \in LedgerOps(catalog) \/ Len(catalog.ledger) < Retained \/ Removable(catalog.ledger) # {}
  /\ Unsettled(entry) =>
       \A e \in Entries(catalog) : Unsettled(e) /\ e.session = entry.session => e.op = entry.op

LEMMA EntryIsAdded ==
  ASSUME NEW catalog, WellFormed(catalog), NEW entry \in EntrySet, Fits(catalog, entry),
         NEW new, new = WithEntry(catalog, entry)
  PROVE  /\ WellFormed(new) /\ new.config = catalog.config /\ new.open = catalog.open
         /\ Entries(new) = {e \in Entries(catalog) : e.op # entry.op /\ e.op \notin Gone(catalog, new)} \cup {entry}
         /\ \A e \in Entries(catalog) : e.op \in Gone(catalog, new) => ~Unsettled(e)
         /\ entry.op \in LedgerOps(catalog) => Gone(catalog, new) = {}
         /\ entry.op \notin Gone(catalog, new)
<1>0. PICK s : s = catalog.ledger
  OBVIOUS
<1>1. /\ catalog \in CatalogSet /\ s \in Seq(EntrySet) /\ Len(s) <= Retained /\ SingleEntries(s)
      /\ Len(s) \in Nat /\ DOMAIN s = 1..Len(s) /\ Entries(catalog) = Range(s)
      /\ \A i \in DOMAIN s : s[i] \in EntrySet
  <2>1. catalog \in CatalogSet /\ s \in Seq(EntrySet) /\ Len(s) <= Retained /\ SingleEntries(s)
    BY <1>0 DEF WellFormed, CatalogSet
  <2>2. Len(s) \in Nat /\ DOMAIN s = 1..Len(s) /\ \A i \in DOMAIN s : s[i] \in EntrySet
    BY <2>1, LenProperties, ElementOfSeq
  <2> QED BY <1>0, <2>1, <2>2 DEF Entries
<1>2. \A e, f \in Entries(catalog) : e.op = f.op => e = f
  BY <1>1 DEF SingleEntries, Range
<1>3. \A op : op \in LedgerOps(catalog) <=> \E e \in Entries(catalog) : e.op = op
  BY DEF LedgerOps
<1>4. \A op : op \in LedgerOps(new) <=> \E e \in Entries(new) : e.op = op
  BY DEF LedgerOps
<1>5. Retained \in Nat \ {0}
  BY RetainedAssumption
<1>6. CASE entry.status = "acknowledged" /\ entry \in Entries(catalog)
  <2>1. new = catalog
    BY <1>6 DEF WithEntry
  <2>2. Gone(catalog, new) = {}
    BY <2>1 DEF Gone
  <2>3. {e \in Entries(catalog) : e.op # entry.op /\ e.op \notin Gone(catalog, new)} \cup {entry} = Entries(catalog)
    BY <1>2, <1>6, <2>2
  <2> QED BY <2>1, <2>2, <2>3
<1>7. CASE ~(entry.status = "acknowledged" /\ entry \in Entries(catalog))
  <2>1. PICK kept : kept = IF entry.op \in LedgerOps(catalog) THEN Without(s, entry.op)
                           ELSE IF Len(s) >= Retained THEN Evict(s) ELSE s
    OBVIOUS
  <2>2. new = [catalog EXCEPT !.ledger = Append(kept, entry)]
    BY <1>0, <1>7, <2>1 DEF WithEntry
  <2>3. PICK gone \in SUBSET LedgerOps(catalog) :
          /\ kept \in Seq(EntrySet) /\ Len(kept) < Retained /\ SingleEntries(kept)
          /\ \A e : e \in Range(kept) <=> e \in Range(s) /\ e.op # entry.op /\ e.op \notin gone
          /\ \A e \in Range(s) : e.op \in gone => ~Unsettled(e)
          /\ entry.op \in LedgerOps(catalog) => gone = {}
          /\ entry.op \notin gone
    <3>1. CASE entry.op \in LedgerOps(catalog)
      <4>1. PICK i \in DOMAIN s : s[i].op = entry.op /\ kept = RemoveAt(s, i)
        <5>1. \E i \in DOMAIN s : s[i].op = entry.op
          BY <1>1, <1>3, <3>1 DEF Range
        <5>2. kept = RemoveAt(s, CHOOSE i \in DOMAIN s : s[i].op = entry.op)
          BY <2>1, <3>1 DEF Without
        <5> QED BY <5>1, <5>2
      <4>0. /\ RemoveAt(s, i) \in Seq(EntrySet) /\ Len(RemoveAt(s, i)) = Len(s) - 1
            /\ SingleEntries(RemoveAt(s, i))
            /\ \A e : e \in Range(RemoveAt(s, i)) <=> e \in Range(s) /\ e.op # s[i].op
        BY <1>1, Remaining
      <4>2. /\ kept \in Seq(EntrySet) /\ Len(kept) = Len(s) - 1 /\ SingleEntries(kept)
            /\ \A e : e \in Range(kept) <=> e \in Range(s) /\ e.op # entry.op
        BY <4>0, <4>1
      <4>3. Len(kept) < Retained
        BY <1>1, <1>5, <4>2
      <4> WITNESS {} \in SUBSET LedgerOps(catalog)
      <4> QED BY <3>1, <4>2, <4>3
    <3>2. CASE entry.op \notin LedgerOps(catalog) /\ ~(Len(s) >= Retained)
      <4>1. kept = s
        BY <2>1, <3>2
      <4>2. \A e \in Range(s) : e.op # entry.op
        BY <1>1, <1>3, <3>2
      <4> WITNESS {} \in SUBSET LedgerOps(catalog)
      <4> QED BY <1>1, <1>5, <3>2, <4>1, <4>2
    <3>3. CASE entry.op \notin LedgerOps(catalog) /\ Len(s) >= Retained
      <4>1. Removable(s) # {} /\ Removable(s) \subseteq Nat /\ Removable(s) \subseteq DOMAIN s
        BY <1>0, <1>1, <1>5, <3>3 DEF Fits, Removable
      <4>2. PICK i \in Removable(s) : kept = RemoveAt(s, i)
        <5>1. \E i \in Removable(s) : \A j \in Removable(s) : i <= j
          BY <4>1, LeastElement
        <5>2. kept = RemoveAt(s, CHOOSE i \in Removable(s) : \A j \in Removable(s) : i <= j)
          BY <2>1, <3>3 DEF Evict
        <5> QED BY <5>1, <5>2
      <4>3. /\ kept \in Seq(EntrySet) /\ Len(kept) = Len(s) - 1 /\ SingleEntries(kept)
            /\ \A e : e \in Range(kept) <=> e \in Range(s) /\ e.op # s[i].op
        BY <1>1, <4>1, <4>2, Remaining
      <4>4. s[i] \in Range(s) /\ ~Unsettled(s[i])
        BY <4>1 DEF Range, Removable, Unsettled
      <4>5. \A e \in Range(s) : e.op # entry.op /\ (e.op = s[i].op => e = s[i])
        BY <1>1, <1>2, <1>3, <3>3, <4>4
      <4>6. s[i].op \in LedgerOps(catalog) /\ s[i].op # entry.op
        BY <1>1, <1>3, <4>4, <4>5
      <4>7. Len(kept) < Retained
        BY <1>1, <1>5, <4>3
      <4> DEFINE gone == {s[i].op}
      <4>8. /\ gone \in SUBSET LedgerOps(catalog) /\ entry.op \notin gone
            /\ \A e : e \in Range(kept) <=> e \in Range(s) /\ e.op # entry.op /\ e.op \notin gone
            /\ \A e \in Range(s) : e.op \in gone => ~Unsettled(e)
        BY <4>3, <4>4, <4>5, <4>6
      <4> HIDE DEF gone
      <4> QED BY <3>3, <4>3, <4>7, <4>8
    <3> QED BY <3>1, <3>2, <3>3
  <2>4. /\ Append(kept, entry) \in Seq(EntrySet) /\ Len(Append(kept, entry)) = Len(kept) + 1
        /\ \A i \in 1 .. Len(kept) : Append(kept, entry)[i] = kept[i]
        /\ Append(kept, entry)[Len(kept) + 1] = entry /\ Len(kept) \in Nat
        /\ DOMAIN kept = 1 .. Len(kept) /\ DOMAIN Append(kept, entry) = 1 .. Len(kept) + 1
    <3>1. /\ Append(kept, entry) \in Seq(EntrySet) /\ Len(Append(kept, entry)) = Len(kept) + 1
          /\ \A i \in 1 .. Len(kept) : Append(kept, entry)[i] = kept[i]
          /\ Append(kept, entry)[Len(kept) + 1] = entry
      BY <2>3, AppendProperties
    <3>2. Len(kept) \in Nat /\ DOMAIN kept = 1 .. Len(kept)
      BY <2>3, LenProperties
    <3>3. DOMAIN Append(kept, entry) = 1 .. Len(Append(kept, entry))
      BY <3>1, LenProperties
    <3> QED BY <3>1, <3>2, <3>3
  <2>5. PICK t : t = Append(kept, entry)
    OBVIOUS
  <2>6. new.ledger = t /\ new.config = catalog.config /\ new.open = catalog.open /\ new \in CatalogSet
    BY <1>1, <2>2, <2>4, <2>5 DEF CatalogSet
  <2>7. Range(t) = Range(kept) \cup {entry}
    <3>1. \A i \in DOMAIN t : t[i] \in Range(kept) \cup {entry}
      BY <2>4, <2>5 DEF Range
    <3>2. \A i \in DOMAIN kept : i \in DOMAIN t /\ t[i] = kept[i]
      BY <2>4, <2>5
    <3>3. entry \in Range(t)
      BY <2>4, <2>5 DEF Range
    <3> QED BY <3>1, <3>2, <3>3 DEF Range
  <2>8. Entries(new) = {e \in Entries(catalog) : e.op # entry.op /\ e.op \notin gone} \cup {entry}
    BY <1>1, <2>3, <2>6, <2>7 DEF Entries
  <2>9. Gone(catalog, new) = gone
    <3>1. \A op \in gone : op \notin LedgerOps(new)
      BY <1>4, <2>3, <2>8
    <3>2. \A op \in LedgerOps(catalog) : op \in gone \/ op \in LedgerOps(new)
      BY <1>3, <1>4, <2>8
    <3> QED BY <2>3, <3>1, <3>2 DEF Gone
  <2>10. SingleEntries(t)
    <3>1. \A i \in DOMAIN kept : kept[i].op # entry.op
      BY <2>3 DEF Range
    <3>2. ASSUME NEW i \in DOMAIN t, NEW j \in DOMAIN t, t[i].op = t[j].op PROVE i = j
      <4>1. (i \in DOMAIN kept /\ t[i] = kept[i]) \/ (i = Len(kept) + 1 /\ t[i] = entry)
        BY <2>4, <2>5
      <4>2. (j \in DOMAIN kept /\ t[j] = kept[j]) \/ (j = Len(kept) + 1 /\ t[j] = entry)
        BY <2>4, <2>5
      <4> QED BY <2>3, <3>1, <3>2, <4>1, <4>2 DEF SingleEntries
    <3> QED BY <3>2 DEF SingleEntries
  <2>11. Len(t) <= Retained
    BY <1>5, <2>3, <2>4, <2>5
  <2>12. SingleUnsettled(Entries(new))
    BY <2>8 DEF Fits, SingleUnsettled, WellFormed
  <2> QED BY <1>1, <2>3, <2>6, <2>8, <2>9, <2>10, <2>11, <2>12 DEF WellFormed
<1> QED BY <1>6, <1>7

-----------------------------------------------------------------------------
(* What the catalog says of an operation, and what a commit does to it. *)

LEMMA EntryFacts ==
  ASSUME NEW catalog, WellFormed(catalog)
  PROVE  /\ Entries(catalog) \subseteq EntrySet
         /\ \A e, f \in Entries(catalog) : e.op = f.op => e = f
         /\ \A e, f \in Entries(catalog) : Unsettled(e) /\ Unsettled(f) /\ e.session = f.session => e = f
         /\ \A op : op \in LedgerOps(catalog) <=> \E e \in Entries(catalog) : e.op = op
         /\ \A op : op \in Decided(catalog) <=> \E e \in Entries(catalog) : e.op = op /\ e.decision = "commit"
         /\ catalog.config \in [Sessions -> Configs] /\ catalog.open \in [Sessions -> BOOLEAN]
<1>1. catalog.ledger \in Seq(EntrySet) /\ SingleEntries(catalog.ledger) /\ SingleUnsettled(Entries(catalog))
      /\ catalog.config \in [Sessions -> Configs] /\ catalog.open \in [Sessions -> BOOLEAN]
  BY DEF WellFormed, CatalogSet
<1>2. \A i \in DOMAIN catalog.ledger : catalog.ledger[i] \in EntrySet
  BY <1>1, ElementOfSeq, LenProperties
<1>3. Entries(catalog) \subseteq EntrySet
  BY <1>2 DEF Entries, Range
<1>4. \A e, f \in Entries(catalog) : e.op = f.op => e = f
  BY <1>1 DEF SingleEntries, Entries, Range
<1>5. \A e, f \in Entries(catalog) : Unsettled(e) /\ Unsettled(f) /\ e.session = f.session => e = f
  BY <1>1, <1>4 DEF SingleUnsettled
<1>6. \A op : op \in LedgerOps(catalog) <=> \E e \in Entries(catalog) : e.op = op
  BY DEF LedgerOps
<1>7. \A op : op \in Decided(catalog) <=> \E e \in Entries(catalog) : e.op = op /\ e.decision = "commit"
  BY DEF Decided
<1> QED BY <1>1, <1>3, <1>4, <1>5, <1>6, <1>7

\* The ledger is all that Fits, Admits and the entries depend on.
LEMMA SameLedger ==
  ASSUME NEW old, NEW new, old.ledger = new.ledger
  PROVE  /\ Entries(new) = Entries(old) /\ LedgerOps(new) = LedgerOps(old) /\ Decided(new) = Decided(old)
         /\ \A entry : Fits(new, entry) <=> Fits(old, entry)
<1>1. Entries(new) = Entries(old)
  BY DEF Entries
<1>2. LedgerOps(new) = LedgerOps(old)
  BY <1>1 DEF LedgerOps
<1> QED BY <1>1, <1>2 DEF Decided, Fits

\* The effect of a commit with this entry.
Added(entry, config) ==
  /\ memory'.open = memory.open /\ memory'.config = config /\ landed' = landed
  /\ \A e : e \in Entries(memory') <=>
       e = entry \/ (e \in Entries(memory) /\ e.op # entry.op /\ e.op \notin Gone(memory, memory'))
  /\ \A e \in Entries(memory) : e.op \in Gone(memory, memory') => ~Unsettled(e)
  /\ entry.op \in LedgerOps(memory) => Gone(memory, memory') = {}
  /\ entry.op \notin Gone(memory, memory')
  /\ \A op : op \in decided' <=> \/ op \in decided /\ op \notin Gone(memory, memory')
                                 \/ op = entry.op /\ entry.decision = "commit"
  /\ \A final \in asked : final.op \notin Gone(memory, memory')
  /\ stale' \in BOOLEAN /\ landed' \in BOOLEAN /\ decided' \subseteq Ops
  /\ Stored'

LEMMA CommitAdds ==
  ASSUME Types, Stored, NEW entry \in EntrySet, NEW catalog, WellFormed(catalog),
         catalog.ledger = memory.ledger, catalog.open = memory.open,
         Fits(memory, entry), CommitEntry(catalog, entry)
  PROVE  Added(entry, catalog.config) /\ memory' = WithEntry(catalog, entry)
<1>1. PICK new : new = WithEntry(catalog, entry)
  OBVIOUS
<1>2. Fits(catalog, entry) /\ Entries(catalog) = Entries(memory) /\ LedgerOps(catalog) = LedgerOps(memory)
  BY SameLedger
<1>3. /\ WellFormed(new) /\ new.config = catalog.config /\ new.open = catalog.open
      /\ Entries(new) = {e \in Entries(catalog) : e.op # entry.op /\ e.op \notin Gone(catalog, new)} \cup {entry}
      /\ \A e \in Entries(catalog) : e.op \in Gone(catalog, new) => ~Unsettled(e)
      /\ entry.op \in LedgerOps(catalog) => Gone(catalog, new) = {}
      /\ entry.op \notin Gone(catalog, new)
  BY <1>1, <1>2, EntryIsAdded
<1>4. Gone(catalog, new) = Gone(memory, new) /\ Forgotten(new) = Gone(memory, new)
  BY <1>2 DEF Gone, Forgotten
<1>5. /\ ~stale /\ disk' = new /\ memory' = new
      /\ decided' = (decided \ Gone(memory, new)) \cup Decided(new)
      /\ stale' = stale /\ late' = late /\ landed' = landed
      /\ \A final \in asked : final.op \notin Gone(memory, new)
  BY <1>1, <1>4 DEF CommitEntry, Persist
<1>6. PICK gone : gone = Gone(memory, new)
  OBVIOUS
<1>7. /\ \A e : e \in Entries(new) <=> e = entry \/ (e \in Entries(memory) /\ e.op # entry.op /\ e.op \notin gone)
      /\ \A e \in Entries(memory) : e.op \in gone => ~Unsettled(e)
      /\ entry.op \in LedgerOps(memory) => gone = {}
      /\ entry.op \notin gone
  BY <1>2, <1>3, <1>4, <1>6
<1>8. WellFormed(memory) /\ disk = memory /\ late = {} /\ Decided(memory) \subseteq decided
  BY <1>5 DEF Stored
<1>9. \A op : op \in Decided(new) <=> \E e \in Entries(new) : e.op = op /\ e.decision = "commit"
  BY <1>3, EntryFacts
<1>10. \A op : op \in Decided(memory) <=> \E e \in Entries(memory) : e.op = op /\ e.decision = "commit"
  BY <1>8, EntryFacts
<1>11. \A op : op \in Decided(new) => (op \in decided /\ op \notin gone) \/ (op = entry.op /\ entry.decision = "commit")
  BY <1>7, <1>8, <1>9, <1>10
<1>12. entry.decision = "commit" => entry.op \in Decided(new)
  BY <1>7, <1>9
<1>13. \A op : op \in decided' <=> (op \in decided /\ op \notin gone) \/ (op = entry.op /\ entry.decision = "commit")
  BY <1>5, <1>6, <1>11, <1>12
<1>14. \A e \in Entries(memory) : e.op = entry.op /\ e.decision = "commit" => entry.decision = "commit"
  <2>1. Admits(memory, entry)
    BY DEF CommitEntry
  <2> QED BY <2>1 DEF Admits
<1>15. ~landed => decided' \subseteq Decided(new)
  <2>1. ASSUME ~landed, NEW op \in decided' PROVE op \in Decided(new)
    <3>1. CASE op = entry.op /\ entry.decision = "commit"
      BY <1>12, <3>1
    <3>2. CASE op \in decided /\ op \notin gone
      <4>1. PICK e \in Entries(memory) : e.op = op /\ e.decision = "commit"
        BY <1>10, <2>1, <3>2 DEF Stored
      <4>2. CASE op = entry.op
        BY <1>12, <1>14, <4>1, <4>2
      <4>3. CASE op # entry.op
        BY <1>7, <1>9, <3>2, <4>1, <4>3
      <4> QED BY <4>2, <4>3
    <3> QED BY <1>13, <2>1, <3>1, <3>2
  <2> QED BY <2>1
<1>16. Stored'
  <2>1. Decided(new) \subseteq decided'
    BY <1>5
  <2> QED BY <1>3, <1>5, <1>8, <1>15, <2>1 DEF Stored
<1>17. decided' \subseteq Ops /\ stale' \in BOOLEAN /\ landed' \in BOOLEAN
  <2>1. entry.op \in Ops
    BY DEF EntrySet
  <2> QED BY <1>5, <1>13, <2>1 DEF Types
<1> QED BY <1>1, <1>3, <1>5, <1>6, <1>7, <1>13, <1>16, <1>17 DEF Added

\* The commit is refused: nothing the Host relies on changes.
Refused ==
  /\ memory' = memory /\ disk' = disk /\ decided' = decided /\ landed' = landed
  /\ stale' \in BOOLEAN /\ Stored'

\* A transaction that starts is the only one of its Session.
Alone(entry) ==
  Unsettled(entry) =>
    \A e \in Entries(memory) : Unsettled(e) /\ e.session = entry.session => e.op = entry.op

LEMMA AdmittedFits ==
  ASSUME NEW entry, Admits(memory, entry), Alone(entry)
  PROVE  Fits(memory, entry)
BY DEF Admits, Alone, Fits, Unsettled

LEMMA RefusalKeeps ==
  ASSUME Types, Stored, NEW entry \in EntrySet, NEW catalog, WellFormed(catalog),
         catalog.ledger = memory.ledger, Admits(memory, entry) => Alone(entry), RefuseEntry(catalog, entry)
  PROVE  Refused
<1>1. CASE UNCHANGED store
  <2>1. Stored'
    BY <1>1 DEF store, Stored
  <2> QED BY <1>1, <2>1 DEF store, Refused, Types
<1>2. CASE ~(UNCHANGED store)
  <2>1. Admits(memory, entry) /\ Refuse(WithEntry(catalog, entry))
    BY <1>2 DEF RefuseEntry
  <2>2. PICK new : new = WithEntry(catalog, entry)
    OBVIOUS
  <2>3. WellFormed(new)
    <3>1. Fits(catalog, entry)
      BY <2>1, AdmittedFits, SameLedger
    <3> QED BY <2>2, <3>1, EntryIsAdded
  <2>4. /\ stale' = TRUE /\ (late' = {} \/ late' = {new})
        /\ disk' = disk /\ memory' = memory /\ landed' = landed /\ decided' = decided
    BY <1>2, <2>1, <2>2 DEF Refuse
  <2>5. Stored'
    BY <2>3, <2>4 DEF Stored
  <2> QED BY <2>4, <2>5 DEF Refused
<1> QED BY <1>1, <1>2

LEMMA CommitKeeps ==
  ASSUME Types, Stored, NEW entry \in EntrySet, NEW catalog, WellFormed(catalog),
         catalog.ledger = memory.ledger, catalog.open = memory.open,
         Alone(entry), CommitEntry(catalog, entry)
  PROVE  Added(entry, catalog.config) /\ memory' = WithEntry(catalog, entry)
<1>1. Fits(memory, entry)
  BY AdmittedFits DEF CommitEntry
<1> QED BY <1>1, CommitAdds

\* The catalog with the configuration of the job.
LEMMA NewConfiguration ==
  ASSUME WellFormed(memory), job \in JobSet, NEW next,
         next = [memory EXCEPT !.config[job.session] = job.config]
  PROVE  /\ WellFormed(next) /\ next.ledger = memory.ledger /\ next.open = memory.open
         /\ next.config = [memory.config EXCEPT ![job.session] = job.config]
<1>1. /\ next \in CatalogSet /\ next.ledger = memory.ledger /\ next.open = memory.open
      /\ next.config = [memory.config EXCEPT ![job.session] = job.config]
  BY DEF WellFormed, CatalogSet, JobSet
<1>2. Entries(next) = Entries(memory)
  BY <1>1, SameLedger
<1> QED BY <1>1, <1>2 DEF WellFormed

LEMMA JobFacts ==
  ASSUME Types, job.at \in Early \cup Final
  PROVE  /\ job \in JobSet /\ job.op \in Ops /\ job.session \in Sessions /\ job.config \in Configs
         /\ job.decision \in Decisions
         /\ \A stage \in Early \cup Final :
              /\ [job EXCEPT !.at = stage] \in JobSet /\ [job EXCEPT !.at = stage].at = stage
              /\ [job EXCEPT !.at = stage].op = job.op /\ [job EXCEPT !.at = stage].session = job.session
              /\ [job EXCEPT !.at = stage].config = job.config
              /\ [job EXCEPT !.at = stage].decision = job.decision
         /\ \A status \in {"intent", "pending", "completed", "acknowledged"}, decision \in Decisions :
              /\ Entry(status, decision) \in EntrySet
              /\ Entry(status, decision).op = job.op /\ Entry(status, decision).session = job.session
              /\ Entry(status, decision).config = job.config
              /\ Entry(status, decision).status = status /\ Entry(status, decision).decision = decision
         /\ \A decision \in Decisions :
              /\ Job(job.op, job.session, job.config, decision, "finalize") \in JobSet
              /\ Job(job.op, job.session, job.config, decision, "finalize").op = job.op
              /\ Job(job.op, job.session, job.config, decision, "finalize").session = job.session
              /\ Job(job.op, job.session, job.config, decision, "finalize").config = job.config
              /\ Job(job.op, job.session, job.config, decision, "finalize").decision = decision
              /\ Job(job.op, job.session, job.config, decision, "finalize").at = "finalize"
<1>1. job # NoJob
  BY DEF NoJob, None, Early, Final
<1>2. job \in JobSet
  BY <1>1 DEF Types
<1>3. job.op \in Ops /\ job.session \in Sessions /\ job.config \in Configs /\ job.decision \in Decisions
  BY <1>2 DEF JobSet
<1>4. ASSUME NEW stage \in Early \cup Final
      PROVE  /\ [job EXCEPT !.at = stage] \in JobSet /\ [job EXCEPT !.at = stage].at = stage
             /\ [job EXCEPT !.at = stage].op = job.op /\ [job EXCEPT !.at = stage].session = job.session
             /\ [job EXCEPT !.at = stage].config = job.config
             /\ [job EXCEPT !.at = stage].decision = job.decision
  BY <1>2 DEF JobSet
<1>5. ASSUME NEW status \in {"intent", "pending", "completed", "acknowledged"}, NEW decision \in Decisions
      PROVE  /\ Entry(status, decision) \in EntrySet
             /\ Entry(status, decision).op = job.op /\ Entry(status, decision).session = job.session
             /\ Entry(status, decision).config = job.config
             /\ Entry(status, decision).status = status /\ Entry(status, decision).decision = decision
  BY <1>3 DEF Entry, EntrySet
<1>6. ASSUME NEW decision \in Decisions
      PROVE  /\ Job(job.op, job.session, job.config, decision, "finalize") \in JobSet
             /\ Job(job.op, job.session, job.config, decision, "finalize").op = job.op
             /\ Job(job.op, job.session, job.config, decision, "finalize").session = job.session
             /\ Job(job.op, job.session, job.config, decision, "finalize").config = job.config
             /\ Job(job.op, job.session, job.config, decision, "finalize").decision = decision
             /\ Job(job.op, job.session, job.config, decision, "finalize").at = "finalize"
  BY <1>3 DEF Job, JobSet, Final
<1> QED BY <1>2, <1>3, <1>4, <1>5, <1>6

-----------------------------------------------------------------------------
(* An operation that a step does not concern. *)

SameAgent(op) == agent'.txn[op] = agent.txn[op] /\ agent'.done[op] = agent.done[op]
SameEntries(op) == \A e : e.op = op => (e \in Entries(memory') <=> e \in Entries(memory))

LEMMA OperationStays ==
  ASSUME NEW op \in Ops, Operation(op), registry'[op] = registry[op], told'[op] = told[op],
         SameAgent(op), SameEntries(op), landed' = landed, op \in decided' <=> op \in decided
  PROVE  Operation(op)'
<1>1. op \in LedgerOps(memory') <=> op \in LedgerOps(memory)
  BY DEF LedgerOps, SameEntries
<1> QED BY <1>1 DEF Operation, SameAgent, SameEntries

LEMMA PendingStays ==
  ASSUME NEW op, NEW final, PendingShape(op, final), SameAgent(op), SameEntries(op),
         memory'.config[final.session] = memory.config[final.session]
  PROVE  PendingShape(op, final)'
<1>1. PICK e \in Entries(memory) : Matches(final, e) /\ e.status \in StatusAt(final.at)
  BY DEF PendingShape
<1>2. e \in Entries(memory') /\ Matches(final, e)' /\ (e.status \in StatusAt(final.at))'
  BY <1>1 DEF SameEntries, PendingShape, Matches, StatusAt
<1> QED BY <1>2 DEF PendingShape, SameAgent

LEMMA FinalStays ==
  ASSUME NEW final, FinalShape(final), SameAgent(final.op), SameEntries(final.op),
         finalizing'[final.op] = finalizing[final.op]
  PROVE  FinalShape(final)'
<1>1. PICK e \in Entries(memory) :
        Matches(final, e) /\ (final.at \in {"acknowledge"} => e.status \in {"completed", "acknowledged"})
  BY DEF FinalShape
<1>2. e \in Entries(memory') /\ Matches(final, e)'
  BY <1>1 DEF SameEntries, Matches
<1>3. Answered(final) => Answered(final)'
  BY DEF Answered, SameAgent
<1>4. NotFinalizing(final.op) => NotFinalizing(final.op)'
  BY DEF NotFinalizing
<1> QED BY <1>1, <1>2, <1>3, <1>4 DEF FinalShape, SameAgent

\* What is known of the job of an update that has not been decided.
LEMMA EarlyFacts ==
  ASSUME IInv, job.at \in Early
  PROVE  /\ EarlyShape /\ up = "serving" /\ finalizing[job.op] = NoFinalization
         /\ \A final \in asked : final.op # job.op
         /\ \A op \in Ops : finalizing[op] # NoFinalization => finalizing[op].session # job.session /\ op # job.op
         /\ \A status \in {"intent", "pending", "completed", "acknowledged"}, decision \in Decisions :
              Alone(Entry(status, decision))
<1>1. EarlyShape /\ up = "serving" /\ finalizing[job.op] = NoFinalization
  BY DEF IInv, Queue, EarlyShape
<1>2. WellFormed(memory) /\ job \in JobSet /\ job.op \in Ops
  BY JobFacts DEF IInv, Stored
<1>3. \A e, f \in Entries(memory) : e.op = f.op => e = f
  BY <1>2, EntryFacts
<1>4. \A op \in Ops : finalizing[op] # NoFinalization => finalizing[op].session # job.session /\ op # job.op
  BY <1>1 DEF EarlyShape, PendingIn
<1>5. ASSUME NEW final \in asked PROVE final.op # job.op
  <2>1. FinalShape(final) /\ final.at \in {"finalize", "acknowledge"}
    BY DEF IInv, Queue
  <2>2. SUFFICES ASSUME final.op = job.op PROVE FALSE
    OBVIOUS
  <2>3. CASE final.at = "finalize"
    <3>1. final.decision \in agent.done[job.op] /\ final.decision \in Decisions
      <4>1. final \in JobSet
        BY DEF IInv, Types
      <4> QED BY <1>1, <2>1, <2>2, <2>3, <4>1 DEF FinalShape, Answered, JobSet
    <3> QED BY <1>1, <3>1 DEF EarlyShape, Decisions
  <2>4. CASE final.at = "acknowledge"
    <3>1. PICK e \in Entries(memory) : e.op = job.op /\ e.status \in {"completed", "acknowledged"}
      BY <2>1, <2>2, <2>4 DEF FinalShape, Matches
    <3>2. job.op \in LedgerOps(memory)
      BY <1>2, <3>1, EntryFacts
    <3>3. PICK f \in Entries(memory) : f.op = job.op /\ f.status \in {"intent", "pending"}
      BY <1>1, <3>2 DEF EarlyShape, Early, Matches
    <3> QED BY <1>3, <3>1, <3>3
  <2> QED BY <2>1, <2>3, <2>4
<1>6. ASSUME NEW e \in Entries(memory), Unsettled(e), e.session = job.session PROVE e.op = job.op
  <2>1. e.op \in Ops
    BY <1>2, EntryFacts DEF EntrySet
  <2>2. SUFFICES ASSUME finalizing[e.op] # NoFinalization PROVE FALSE
    BY <1>1, <1>6 DEF IInv, UnderWay
  <2>3. PICK f \in Entries(memory) : Matches(finalizing[e.op], f) /\ f.op = e.op
    BY <2>1, <2>2 DEF IInv, PendingFinalizations, PendingShape, Matches
  <2>4. finalizing[e.op].session = e.session
    BY <1>3, <2>3 DEF Matches
  <2> QED BY <1>4, <1>6, <2>1, <2>2, <2>4
<1>7. \A status \in {"intent", "pending", "completed", "acknowledged"}, decision \in Decisions :
        Entry(status, decision).op = job.op /\ Entry(status, decision).session = job.session
  BY JobFacts DEF IInv
<1>8. \A status \in {"intent", "pending", "completed", "acknowledged"}, decision \in Decisions :
        Alone(Entry(status, decision))
  BY <1>6, <1>7 DEF Alone
<1> QED BY <1>1, <1>4, <1>5, <1>8

-----------------------------------------------------------------------------
(* The steps of an update. *)

LEMMA NothingForgotten ==
  ASSUME Types
  PROVE  /\ Forgotten(memory) = {}
         /\ Forget(registry, "unknown", memory) = registry /\ Forget(told, None, memory) = told
BY DEF Forgotten, Forget, Types

LEMMA UpdateKeeps ==
  ASSUME IInv, NEW op \in Ops, NEW session \in Sessions, NEW config \in Configs, Update(op, session, config)
  PROVE  IInv'
<1>1. /\ up = "serving" /\ job = NoJob /\ told[op] = None /\ registry[op] = "unknown"
      /\ agent' = [agent EXCEPT !.done[op] = {}]
      /\ disk' = disk /\ memory' = memory /\ stale' = stale /\ late' = late /\ landed' = landed
      /\ decided' = decided /\ finalizing' = finalizing /\ up' = up /\ asked' = asked
  BY DEF Update, Settle, SettleWith, store
<1>2. /\ agent \in AgentSet /\ agent' \in AgentSet /\ agent'.config = agent.config /\ agent'.txn = agent.txn
      /\ agent'.done = [agent.done EXCEPT ![op] = {}]
      /\ agent'.done[op] = {} /\ \A other \in Ops : other # op => agent'.done[other] = agent.done[other]
  BY <1>1 DEF IInv, Types, AgentSet
<1>3. op \notin LedgerOps(memory) /\ agent.txn[op] = NoTransaction /\ (op \notin decided \/ landed)
  <2>1. op \notin LedgerOps(memory) /\ agent.txn[op] = NoTransaction
    BY <1>1 DEF IInv, Operation
  <2>2. op \in Decided(memory) => op \in LedgerOps(memory)
    BY DEF Decided, LedgerOps
  <2> QED BY <2>1, <2>2 DEF IInv, Stored
<1>4. \A e \in Entries(memory) : e.op # op
  BY <1>3 DEF LedgerOps
<1>5. finalizing[op] = NoFinalization /\ \A final \in asked : final.op # op
  BY <1>4 DEF IInv, PendingFinalizations, PendingShape, Matches, Queue, FinalShape
<1>6. \A other \in Ops : SameEntries(other) /\ (other # op => SameAgent(other))
  BY <1>1, <1>2 DEF SameEntries, SameAgent
<1>7. Stored'
  BY <1>1 DEF IInv, Stored
<1>8. PendingFinalizations'
  <2>1. ASSUME NEW other \in Ops, finalizing[other] # NoFinalization, NEW final, final = finalizing[other]
        PROVE  PendingShape(other, final)'
    <3>1. other # op /\ PendingShape(other, final)
      BY <1>5, <2>1 DEF IInv, PendingFinalizations
    <3> QED BY <1>1, <1>6, <3>1, PendingStays
  <2> QED BY <1>1, <2>1 DEF PendingFinalizations
<1>9. \A final \in asked : FinalShape(final)'
  <2>1. ASSUME NEW final \in asked PROVE FinalShape(final)'
    <3>1. final.op \in Ops /\ final.op # op /\ FinalShape(final)
      BY <1>5 DEF IInv, Types, JobSet, Queue
    <3> QED BY <1>1, <1>6, <3>1, FinalStays
  <2> QED BY <2>1
<1>10. Follows'
  BY <1>1, <1>2 DEF IInv, Follows
<1>11. CASE ~PendingIn(session)
  <2>1. PICK direct \in BOOLEAN :
          /\ direct <=> config = memory.config[session] \/ ~memory.open[session]
          /\ job' = IF direct THEN Job(op, session, config, "commit", "record")
                              ELSE Job(op, session, config, "rollback", "intent")
    BY <1>11 DEF Update
  <2>2. registry' = [registry EXCEPT ![op] = "pending"] /\ told' = told
    BY <1>11 DEF Update
  <2>3. /\ job' \in JobSet /\ job'.op = op /\ job'.session = session /\ job'.config = config
        /\ (job'.at = "record" /\ job'.decision = "commit" /\ direct)
             \/ (job'.at = "intent" /\ job'.decision = "rollback")
    BY <2>1 DEF Job, JobSet, Decisions, Early
  <2>4. job'.at \in Early /\ job'.at \notin Final
    BY <2>3 DEF Early, Final
  <2>5. Types'
    BY <1>1, <1>2, <2>2, <2>3 DEF IInv, Types
  <2>6. \A other \in Ops : Operation(other)'
    <3>1. ASSUME NEW other \in Ops, other # op PROVE Operation(other)'
      <4>1. registry'[other] = registry[other] /\ told'[other] = told[other]
        BY <2>2, <3>1 DEF IInv, Types
      <4> QED BY <1>1, <1>6, <3>1, <4>1, OperationStays DEF IInv
    <3>2. Operation(op)'
      <4>1. registry'[op] = "pending" /\ told'[op] = None
        BY <1>1, <2>2 DEF IInv, Types
      <4> QED BY <1>1, <1>2, <1>3, <1>4, <4>1 DEF Operation, NoTransaction, None
    <3> QED BY <3>1, <3>2
  <2>7. EarlyShape'
    <3>1. ~PendingIn(session)'
      BY <1>1, <1>11 DEF PendingIn
    <3>2. registry'[op] = "pending"
      BY <2>2 DEF IInv, Types
    <3> QED BY <1>1, <1>2, <1>3, <1>5, <2>1, <2>2, <2>3, <3>1, <3>2 DEF EarlyShape, PendingIn
  <2>8. Queue'
    BY <1>1, <1>9, <2>4, <2>7 DEF IInv, Queue
  <2>9. UnderWay'
    <3>1. job.at \notin Early
      BY <1>1 DEF NoJob, None, Early
    <3> QED BY <1>1, <3>1 DEF IInv, UnderWay
  <2> QED BY <1>7, <1>8, <1>10, <2>5, <2>6, <2>8, <2>9 DEF IInv
<1>12. CASE PendingIn(session)
  <2>1. /\ job' = NoJob /\ registry' = [registry EXCEPT ![op] = "failed"]
        /\ told' = told \/ told' = [told EXCEPT ![op] = "failed"]
    BY <1>12, NothingForgotten DEF Update, Settle, SettleWith, IInv
  <2>2. Types'
    BY <1>1, <1>2, <2>1 DEF IInv, Types
  <2>3. \A other \in Ops : Operation(other)'
    <3>1. ASSUME NEW other \in Ops, other # op PROVE Operation(other)'
      <4>1. registry'[other] = registry[other] /\ told'[other] = told[other]
        BY <2>1, <3>1 DEF IInv, Types
      <4> QED BY <1>1, <1>6, <3>1, <4>1, OperationStays DEF IInv
    <3>2. Operation(op)'
      <4>1. registry'[op] = "failed" /\ told'[op] \in {None, "failed"}
        BY <1>1, <2>1 DEF IInv, Types
      <4> QED BY <1>1, <1>2, <1>3, <1>4, <4>1 DEF Operation, NoTransaction, None
    <3> QED BY <3>1, <3>2
  <2>4. Queue'
    <3>1. job'.at \notin Early \cup Final
      BY <2>1 DEF NoJob, None, Early, Final
    <3> QED BY <1>1, <1>9, <3>1 DEF IInv, Queue
  <2>5. UnderWay'
    <3>1. job'.at \notin Early /\ job.at \notin Early
      BY <1>1, <2>1 DEF NoJob, None, Early
    <3> QED BY <1>1, <3>1 DEF IInv, UnderWay
  <2> QED BY <1>7, <1>8, <1>10, <2>2, <2>3, <2>4, <2>5 DEF IInv
<1> QED BY <1>11, <1>12

LEMMA Forgetting ==
  ASSUME Types, NEW new
  PROVE  /\ Forget(registry, "unknown", new) \in [Ops -> {"unknown", "pending", "succeeded", "failed"}]
         /\ Forget(told, None, new) \in [Ops -> {None, "succeeded", "failed"}]
         /\ \A op \in Ops :
              /\ Forget(registry, "unknown", new)[op] =
                   IF op \in Gone(memory, new) THEN "unknown" ELSE registry[op]
              /\ Forget(told, None, new)[op] = IF op \in Gone(memory, new) THEN None ELSE told[op]
BY DEF Types, Forget, Forgotten, Gone

\* The operations a commit does not concern, and those it forgets.
LEMMA AddedOthers ==
  ASSUME NEW entry, NEW config, Added(entry, config), NEW op, op # entry.op, op \notin Gone(memory, memory')
  PROVE  SameEntries(op) /\ (op \in decided' <=> op \in decided) /\ landed' = landed
BY DEF Added, SameEntries

LEMMA ForgottenOperation ==
  ASSUME NEW entry, NEW config, Added(entry, config), NEW op \in Ops, op \in Gone(memory, memory'), Operation(op),
         registry'[op] = "unknown", told'[op] = None, SameAgent(op)
  PROVE  Operation(op)'
<1>1. op \notin LedgerOps(memory') /\ op \in LedgerOps(memory)
  BY DEF Gone
<1>2. PICK e \in Entries(memory) : e.op = op /\ ~Unsettled(e)
  BY <1>1 DEF LedgerOps, Added
<1>3. agent.txn[op] = NoTransaction
  BY <1>2 DEF Operation
<1>4. agent'.txn[op] = NoTransaction /\ agent'.done[op] = agent.done[op]
  BY <1>3 DEF SameAgent
<1> QED BY <1>1, <1>4 DEF Operation, NoTransaction, None

\* What a pending or queued finalization is about stays in the ledger.
LEMMA AddedPending ==
  ASSUME NEW entry, NEW config, Added(entry, config), WellFormed(memory), NEW op \in Ops, op # entry.op,
         NEW final, PendingShape(op, final), SameAgent(op), config[final.session] = memory.config[final.session]
  PROVE  PendingShape(op, final)'
<1>1. op \notin Gone(memory, memory')
  <2>1. PICK e \in Entries(memory) : e.op = op /\ e.status \in {"intent", "pending", "completed"}
    BY DEF PendingShape, Matches, StatusAt
  <2>2. Unsettled(e)
    BY <2>1 DEF Unsettled
  <2> QED BY <2>1, <2>2 DEF Added
<1>2. SameEntries(op) /\ memory'.config[final.session] = memory.config[final.session]
  BY <1>1, AddedOthers DEF Added
<1> QED BY <1>2, PendingStays

\* An update whose first entry is refused is not there.
LEMMA UnrecordedFails ==
  ASSUME IInv, job.at \in {"record", "intent"}, Refused, Settle(job.op, "failed"),
         finalizing' = finalizing, agent' = agent
  PROVE  IInv'
<1>1. up = "serving" /\ EarlyShape /\ job.at \in Early /\ job.at \notin Final
  <2>1. job.at \in Early /\ job.at \notin Final
    BY DEF Early, Final
  <2> QED BY <2>1, EarlyFacts
<1>2. job \in JobSet /\ job.op \in Ops
  BY <1>1, JobFacts DEF IInv
<1>3. up' = up /\ asked' = asked /\ job' = NoJob
  BY DEF Settle, SettleWith
<1>4. \A op \in Ops : SameAgent(op)
  BY DEF SameAgent
<1>5. job.op \notin LedgerOps(memory) /\ agent.txn[job.op] = NoTransaction /\ agent.done[job.op] = {}
      /\ told[job.op] = None
  BY <1>1 DEF EarlyShape
<1>6. job.op \notin decided \/ landed
  <2>1. job.op \in Decided(memory) => job.op \in LedgerOps(memory)
    BY DEF Decided, LedgerOps
  <2> QED BY <1>5, <2>1 DEF IInv, Stored
<1>7. job'.at \notin Early \cup Final
  BY <1>3 DEF NoJob, None, Early, Final
<1>8. /\ registry' = [registry EXCEPT ![job.op] = "failed"]
      /\ told' = told \/ told' = [told EXCEPT ![job.op] = "failed"]
  BY NothingForgotten DEF Settle, SettleWith, IInv
<1>9. \A op \in Ops : SameEntries(op)
  BY DEF Refused, SameEntries
<1>10. Types'
  BY <1>3, <1>8 DEF IInv, Types, Refused
<1>11. \A op \in Ops : Operation(op)'
  <2>1. ASSUME NEW op \in Ops, op # job.op PROVE Operation(op)'
    <3>1. registry'[op] = registry[op] /\ told'[op] = told[op]
      BY <1>8, <2>1 DEF IInv, Types
    <3>2. (op \in decided' <=> op \in decided) /\ landed' = landed
      BY DEF Refused
    <3> QED BY <1>4, <1>9, <3>1, <3>2, OperationStays DEF IInv
  <2>2. ASSUME NEW op \in Ops, op = job.op PROVE Operation(op)'
    <3>1. registry'[op] = "failed" /\ told'[op] \in {None, "failed"}
      BY <1>5, <1>8, <2>2 DEF IInv, Types
    <3>2. op \notin decided' \/ landed'
      BY <1>6, <2>2 DEF Refused
    <3>3. agent'.txn[op] = NoTransaction /\ agent'.done[op] = {}
      BY <1>3, <1>5, <2>2
    <3> QED BY <3>1, <3>2, <3>3 DEF Operation, NoTransaction, None
  <2> QED BY <2>1, <2>2
<1>12. PendingFinalizations'
  <2>1. ASSUME NEW op \in Ops, finalizing[op] # NoFinalization, NEW final, final = finalizing[op]
        PROVE  PendingShape(op, final)'
    <3>1. PendingShape(op, final) /\ memory'.config[final.session] = memory.config[final.session]
      BY <2>1 DEF IInv, PendingFinalizations, Refused
    <3> QED BY <1>4, <1>9, <3>1, PendingStays
  <2> QED BY <1>3, <2>1 DEF PendingFinalizations
<1>13. Queue'
  <2>1. ASSUME NEW final \in asked PROVE FinalShape(final)' /\ final.at \in {"finalize", "acknowledge"}
    <3>1. final.op \in Ops /\ FinalShape(final) /\ final.at \in {"finalize", "acknowledge"}
      BY DEF IInv, Types, JobSet, Queue
    <3> QED BY <1>3, <1>4, <1>9, <3>1, FinalStays
  <2> QED BY <1>1, <1>3, <1>7, <2>1 DEF IInv, Queue
<1>14. UnderWay'
  <2>1. ASSUME NEW e \in Entries(memory'), Unsettled(e) PROVE finalizing[e.op] # NoFinalization
    <3>1. e \in Entries(memory) /\ e.op # job.op
      BY <1>5 DEF Refused, LedgerOps
    <3> QED BY <1>1, <2>1, <3>1 DEF IInv, UnderWay
  <2> QED BY <1>3, <2>1 DEF UnderWay
<1>15. Follows'
  BY <1>3 DEF IInv, Follows, Refused
<1>16. Stored'
  BY DEF Refused
<1> QED BY <1>10, <1>11, <1>12, <1>13, <1>14, <1>15, <1>16 DEF IInv

LEMMA RecordDirectlyKeeps ==
  ASSUME IInv, RecordDirectly
  PROVE  IInv'
<1>1. job.at = "record" /\ up = "serving" /\ EarlyShape /\ job.at \in Early /\ job.at \notin Final
  <2>1. job.at = "record" /\ job.at \in Early /\ job.at \notin Final
    BY DEF RecordDirectly, At, Early, Final
  <2> QED BY <2>1, EarlyFacts
<1>2. job \in JobSet /\ job.op \in Ops /\ job.session \in Sessions /\ job.config \in Configs
  BY <1>1, JobFacts DEF IInv
<1>3. PICK entry : entry = Entry("acknowledged", "commit")
  OBVIOUS
<1>4. /\ entry \in EntrySet /\ entry.op = job.op /\ entry.status = "acknowledged" /\ entry.decision = "commit"
      /\ Alone(entry)
  BY <1>1, <1>3, JobFacts, EarlyFacts DEF IInv, Decisions
<1>5. PICK next : next = [memory EXCEPT !.config[job.session] = job.config]
  OBVIOUS
<1>6. /\ WellFormed(memory) /\ WellFormed(next) /\ next.ledger = memory.ledger /\ next.open = memory.open
      /\ next.config = [memory.config EXCEPT ![job.session] = job.config]
  BY <1>2, <1>5, NewConfiguration DEF IInv, Stored
<1>7. /\ finalizing' = finalizing /\ agent' = agent /\ crashes' = crashes
      /\ up' = up /\ asked' = asked /\ job' = NoJob
  BY DEF RecordDirectly, Settle, SettleWith
<1>8. PICK new : new = WithEntry(next, entry)
  OBVIOUS
<1>9. \/ CommitEntry(next, entry) /\ SettleWith(job.op, "succeeded", new)
      \/ RefuseEntry(next, entry) /\ Settle(job.op, "failed")
  BY <1>3, <1>5, <1>8 DEF RecordDirectly
<1>10. \A op \in Ops : SameAgent(op)
  BY <1>7 DEF SameAgent
<1>11. job.op \notin LedgerOps(memory) /\ agent.txn[job.op] = NoTransaction /\ agent.done[job.op] = {}
       /\ told[job.op] = None
  BY <1>1 DEF EarlyShape
<1>12. job.op \notin decided \/ landed
  <2>1. job.op \in Decided(memory) => job.op \in LedgerOps(memory)
    BY DEF Decided, LedgerOps
  <2> QED BY <1>11, <2>1 DEF IInv, Stored
<1>13. job'.at \notin Early \cup Final
  BY <1>7 DEF NoJob, None, Early, Final
<1>14. CASE CommitEntry(next, entry) /\ SettleWith(job.op, "succeeded", new)
  <2>1. Added(entry, next.config) /\ memory' = new
    BY <1>4, <1>6, <1>8, <1>14, CommitKeeps DEF IInv
  <2>2. \A op \in Ops :
          /\ registry'[op] = IF op = job.op THEN "succeeded"
                             ELSE IF op \in Gone(memory, memory') THEN "unknown" ELSE registry[op]
          /\ told'[op] \in IF op = job.op THEN {told[op], "succeeded"}
                           ELSE {IF op \in Gone(memory, memory') THEN None ELSE told[op]}
    <3>1. job.op \notin Gone(memory, new)
      BY <1>4, <2>1 DEF Added
    <3> QED BY <1>2, <1>14, <2>1, <3>1, Forgetting DEF SettleWith, IInv
  <2>3. Types'
    <3>1. /\ registry' \in [Ops -> {"unknown", "pending", "succeeded", "failed"}]
          /\ told' \in [Ops -> {None, "succeeded", "failed"}]
      BY <1>2, <1>14, Forgetting DEF SettleWith, IInv
    <3> QED BY <1>7, <2>1, <3>1 DEF IInv, Types, Added
  <2>4. \A op \in Ops : Operation(op)'
    <3>1. ASSUME NEW op \in Ops, op # job.op, op \notin Gone(memory, memory') PROVE Operation(op)'
      <4>1. registry'[op] = registry[op] /\ told'[op] = told[op]
        BY <2>2, <3>1
      <4>2. SameEntries(op) /\ (op \in decided' <=> op \in decided) /\ landed' = landed
        BY <1>4, <2>1, <3>1, AddedOthers
      <4> QED BY <1>10, <4>1, <4>2, OperationStays DEF IInv
    <3>2. ASSUME NEW op \in Ops, op # job.op, op \in Gone(memory, memory') PROVE Operation(op)'
      <4>1. registry'[op] = "unknown" /\ told'[op] = None
        BY <2>2, <3>2
      <4> QED BY <1>10, <2>1, <3>2, <4>1, ForgottenOperation DEF IInv
    <3>3. ASSUME NEW op \in Ops, op = job.op PROVE Operation(op)'
      <4>1. registry'[op] = "succeeded" /\ told'[op] \in {None, "succeeded"}
        BY <1>11, <2>2, <3>3
      <4>2. op \in decided'
        BY <1>4, <2>1, <3>3 DEF Added
      <4>3. agent'.txn[op] = NoTransaction /\ agent'.done[op] = {}
        BY <1>7, <1>11, <3>3
      <4> QED BY <4>1, <4>2, <4>3 DEF Operation, NoTransaction, None
    <3> QED BY <3>1, <3>2, <3>3
  <2>5. PendingFinalizations'
    <3>1. ASSUME NEW op \in Ops, finalizing[op] # NoFinalization, NEW final, final = finalizing[op]
          PROVE  PendingShape(op, final)'
      <4>1. op # job.op /\ final.session # job.session /\ PendingShape(op, final)
        BY <1>1, <3>1, EarlyFacts DEF IInv, PendingFinalizations
      <4>2. next.config[final.session] = memory.config[final.session]
        <5>1. final.session \in Sessions
          BY <3>1 DEF IInv, Types, JobSet
        <5>2. memory.config \in [Sessions -> Configs]
          BY <1>6, EntryFacts
        <5> QED BY <1>6, <4>1, <5>1, <5>2
      <4>3. PICK config : config = next.config
        OBVIOUS
      <4>4. /\ Added(entry, config) /\ WellFormed(memory) /\ op # entry.op /\ SameAgent(op)
            /\ config[final.session] = memory.config[final.session]
        BY <1>4, <1>6, <1>10, <2>1, <4>1, <4>2, <4>3
      <4> QED BY <4>1, <4>4, AddedPending
    <3> QED BY <1>7, <3>1 DEF PendingFinalizations
  <2>6. Queue'
    <3>1. ASSUME NEW final \in asked PROVE FinalShape(final)' /\ final.at \in {"finalize", "acknowledge"}
      <4>1. final.op # job.op /\ final.op \in Ops /\ FinalShape(final) /\ final.at \in {"finalize", "acknowledge"}
        BY <1>1, EarlyFacts DEF IInv, Types, JobSet, Queue
      <4>2. final.op \notin Gone(memory, memory')
        BY <2>1 DEF Added
      <4>3. SameEntries(final.op)
        BY <1>4, <2>1, <4>1, <4>2, AddedOthers
      <4> QED BY <1>7, <1>10, <4>1, <4>3, FinalStays
    <3> QED BY <1>1, <1>7, <1>13, <3>1 DEF IInv, Queue
  <2>7. UnderWay'
    <3>1. ASSUME NEW e \in Entries(memory'), Unsettled(e) PROVE finalizing[e.op] # NoFinalization
      <4>1. e \in Entries(memory) /\ e.op # job.op
        BY <1>4, <2>1, <3>1 DEF Added, Unsettled
      <4> QED BY <1>1, <3>1, <4>1 DEF IInv, UnderWay
    <3> QED BY <1>7, <3>1 DEF UnderWay
  <2>8. Follows'
    <3>1. ASSUME NEW s \in Sessions, memory'.open[s] PROVE memory'.config[s] = memory.config[s] /\ memory.open[s]
      <4>1. memory'.open = memory.open /\ memory'.config = next.config
        BY <1>6, <2>1 DEF Added
      <4>2. memory.config \in [Sessions -> Configs]
        BY <1>6, EntryFacts
      <4>3. memory.open[job.session] => memory.config[job.session] = job.config
        BY <1>1 DEF EarlyShape
      <4> QED BY <1>2, <1>6, <3>1, <4>1, <4>2, <4>3
    <3> QED BY <1>1, <1>7, <3>1 DEF IInv, Follows
  <2>9. Stored'
    BY <2>1 DEF Added
  <2> QED BY <2>3, <2>4, <2>5, <2>6, <2>7, <2>8, <2>9 DEF IInv
<1>15. CASE RefuseEntry(next, entry) /\ Settle(job.op, "failed")
  <2>1. Refused
    BY <1>4, <1>6, <1>15, RefusalKeeps DEF IInv
  <2> QED BY <1>1, <1>7, <1>15, <2>1, UnrecordedFails
<1> QED BY <1>9, <1>14, <1>15

LEMMA PersistIntentKeeps ==
  ASSUME IInv, PersistIntent
  PROVE  IInv'
<1>1. job.at = "intent" /\ up = "serving" /\ EarlyShape /\ job.at \in Early /\ job.at \notin Final
  <2>1. job.at = "intent" /\ job.at \in Early /\ job.at \notin Final
    BY DEF PersistIntent, At, Early, Final
  <2> QED BY <2>1, EarlyFacts
<1>2. job \in JobSet /\ job.op \in Ops /\ job.session \in Sessions /\ job.config \in Configs
  BY <1>1, JobFacts DEF IInv
<1>3. PICK entry : entry = Entry("intent", "rollback")
  OBVIOUS
<1>4. /\ entry \in EntrySet /\ entry.op = job.op /\ entry.session = job.session /\ entry.config = job.config
      /\ entry.status = "intent" /\ entry.decision = "rollback" /\ Alone(entry)
  BY <1>1, <1>3, JobFacts, EarlyFacts DEF IInv, Decisions
<1>5. WellFormed(memory)
  BY DEF IInv, Stored
<1>6. finalizing' = finalizing /\ agent' = agent
  BY DEF PersistIntent
<1>7. PICK new : new = WithEntry(memory, entry)
  OBVIOUS
<1>8. \/ /\ CommitEntry(memory, entry) /\ Goto("prepare")
         /\ registry' = Forget(registry, "unknown", new) /\ told' = Forget(told, None, new)
         /\ up' = up /\ asked' = asked
      \/ RefuseEntry(memory, entry) /\ Settle(job.op, "failed")
  BY <1>3, <1>7 DEF PersistIntent
<1>9. \A op \in Ops : SameAgent(op)
  BY <1>6 DEF SameAgent
<1>10. CASE RefuseEntry(memory, entry) /\ Settle(job.op, "failed")
  <2>1. Refused
    BY <1>4, <1>5, <1>10, RefusalKeeps DEF IInv
  <2> QED BY <1>1, <1>6, <1>10, <2>1, UnrecordedFails
<1>11. CASE /\ CommitEntry(memory, entry) /\ Goto("prepare")
            /\ registry' = Forget(registry, "unknown", new) /\ told' = Forget(told, None, new)
            /\ up' = up /\ asked' = asked
  <2>1. PICK config : config = memory.config
    OBVIOUS
  <2>2. Added(entry, config) /\ memory' = new
    BY <1>4, <1>5, <1>7, <1>11, <2>1, CommitKeeps DEF IInv
  <2>3. /\ \A op \in Ops :
             /\ registry'[op] = IF op \in Gone(memory, memory') THEN "unknown" ELSE registry[op]
             /\ told'[op] = IF op \in Gone(memory, memory') THEN None ELSE told[op]
        /\ registry' \in [Ops -> {"unknown", "pending", "succeeded", "failed"}]
        /\ told' \in [Ops -> {None, "succeeded", "failed"}]
    BY <1>11, <2>2, Forgetting DEF IInv
  <2>4. /\ job' \in JobSet /\ job'.at = "prepare" /\ job'.op = job.op /\ job'.session = job.session
        /\ job'.config = job.config /\ job'.decision = job.decision
        /\ job'.at \in Early /\ job'.at \notin Final
    BY <1>1, <1>11, JobFacts DEF Goto, IInv, Early, Final
  <2>5. Types'
    BY <1>6, <1>11, <2>2, <2>3, <2>4 DEF IInv, Types, Added
  <2>6. /\ job.op \notin LedgerOps(memory) /\ agent.txn[job.op] = NoTransaction /\ agent.done[job.op] = {}
        /\ registry[job.op] = "pending" /\ told[job.op] = None
    BY <1>1 DEF EarlyShape
  <2>7. \A op \in Ops : Operation(op)'
    <3>1. ASSUME NEW op \in Ops, op # job.op, op \notin Gone(memory, memory') PROVE Operation(op)'
      <4>1. registry'[op] = registry[op] /\ told'[op] = told[op]
        BY <2>3, <3>1
      <4>2. SameEntries(op) /\ (op \in decided' <=> op \in decided) /\ landed' = landed
        BY <1>4, <2>2, <3>1, AddedOthers
      <4> QED BY <1>9, <4>1, <4>2, OperationStays DEF IInv
    <3>2. ASSUME NEW op \in Ops, op \in Gone(memory, memory') PROVE Operation(op)'
      <4>1. registry'[op] = "unknown" /\ told'[op] = None
        BY <2>3, <3>2
      <4> QED BY <1>9, <2>2, <3>2, <4>1, ForgottenOperation DEF IInv
    <3>3. ASSUME NEW op \in Ops, op = job.op PROVE Operation(op)'
      <4>1. op \notin Gone(memory, memory') /\ \A e \in Entries(memory') : e.op = op => Unsettled(e)
        <5>1. \A e \in Entries(memory) : e.op # op
          BY <2>6, <3>3 DEF LedgerOps
        <5> QED BY <1>4, <2>2, <3>3, <5>1 DEF Added, Unsettled
      <4>2. registry'[op] = "pending" /\ told'[op] = None
        BY <2>3, <2>6, <3>3, <4>1
      <4>3. agent'.txn[op] = NoTransaction /\ agent'.done[op] = {}
        BY <1>6, <2>6, <3>3
      <4> QED BY <4>1, <4>2, <4>3 DEF Operation, NoTransaction, None, Unsettled
    <3> QED BY <3>1, <3>2, <3>3
  <2>8. PendingFinalizations'
    <3>1. ASSUME NEW op \in Ops, finalizing[op] # NoFinalization, NEW final, final = finalizing[op]
          PROVE  PendingShape(op, final)'
      <4>1. op # entry.op /\ PendingShape(op, final) /\ SameAgent(op)
        BY <1>1, <1>4, <1>9, <3>1, EarlyFacts DEF IInv, PendingFinalizations
      <4> QED BY <1>5, <2>1, <2>2, <4>1, AddedPending
    <3> QED BY <1>6, <3>1 DEF PendingFinalizations
  <2>9. EarlyShape'
    <3>1. entry \in Entries(memory') /\ job.op \notin Gone(memory, memory')
      BY <1>4, <2>2 DEF Added
    <3>2. registry'[job.op] = "pending" /\ told'[job.op] = None
      BY <1>2, <2>3, <2>6, <3>1
    <3>3. ~PendingIn(job.session)' /\ finalizing'[job.op] = NoFinalization
      BY <1>1, <1>6, <2>4 DEF EarlyShape, PendingIn
    <3>4. job.decision = "rollback"
      BY <1>1 DEF EarlyShape
    <3>5. Matches(job', entry)
      BY <1>4, <2>4, <3>4 DEF Matches
    <3> QED BY <1>1, <1>4, <1>6, <1>11, <2>4, <2>6, <3>1, <3>2, <3>3, <3>4, <3>5 DEF EarlyShape, Matches, PendingIn
  <2>10. Queue'
    <3>1. ASSUME NEW final \in asked PROVE FinalShape(final)' /\ final.at \in {"finalize", "acknowledge"}
      <4>1. final.op # job.op /\ final.op \in Ops /\ FinalShape(final) /\ final.at \in {"finalize", "acknowledge"}
        BY <1>1, EarlyFacts DEF IInv, Types, JobSet, Queue
      <4>2. final.op \notin Gone(memory, memory')
        BY <2>2 DEF Added
      <4>3. SameEntries(final.op)
        BY <1>4, <2>2, <4>1, <4>2, AddedOthers
      <4> QED BY <1>6, <1>9, <4>1, <4>3, FinalStays
    <3> QED BY <1>1, <1>6, <1>11, <2>4, <2>9, <3>1 DEF IInv, Queue
  <2>11. UnderWay'
    <3>1. ASSUME NEW e \in Entries(memory'), Unsettled(e)
          PROVE  finalizing[e.op] # NoFinalization \/ e.op = job'.op
      <4>1. CASE e = entry
        BY <1>4, <2>4, <4>1
      <4>2. CASE e \in Entries(memory)
        BY <1>1, <2>4, <3>1, <4>2 DEF IInv, UnderWay
      <4> QED BY <2>2, <4>1, <4>2 DEF Added
    <3> QED BY <1>6, <2>4, <3>1 DEF UnderWay
  <2>12. Follows'
    BY <1>6, <1>11, <2>1, <2>2 DEF IInv, Follows, Added
  <2>13. Stored'
    BY <2>2 DEF Added
  <2> QED BY <2>5, <2>7, <2>8, <2>10, <2>11, <2>12, <2>13 DEF IInv
<1> QED BY <1>8, <1>10, <1>11

\* A step of one operation, which has an entry in the ledger, leaves the others as they are.
ConcernsOnly(o) ==
  /\ landed' = landed /\ asked' = asked
  /\ \A op \in Ops : op # o =>
       /\ SameAgent(op) /\ SameEntries(op) /\ (op \in decided' <=> op \in decided)
       /\ finalizing'[op] = finalizing[op] /\ registry'[op] = registry[op] /\ told'[op] = told[op]
       /\ finalizing[op] # NoFinalization =>
            memory'.config[finalizing[op].session] = memory.config[finalizing[op].session]

LEMMA OthersKept ==
  ASSUME IInv, NEW o, ConcernsOnly(o)
  PROVE  /\ \A op \in Ops : op # o =>
              Operation(op)' /\ (finalizing[op] # NoFinalization => PendingShape(op, finalizing[op]))'
         /\ \A final \in asked : /\ final.at \in {"finalize", "acknowledge"} /\ FinalShape(final)
                                 /\ final \in JobSet /\ (final.op # o => FinalShape(final)')
<1>1. ASSUME NEW op \in Ops, op # o PROVE Operation(op)'
  BY <1>1, OperationStays DEF IInv, ConcernsOnly
<1>2. ASSUME NEW op \in Ops, op # o, NEW final, final = finalizing[op], final # NoFinalization
      PROVE  PendingShape(op, final)'
  BY <1>2, PendingStays DEF IInv, ConcernsOnly, PendingFinalizations
<1>3. ASSUME NEW final \in asked
      PROVE  /\ final.at \in {"finalize", "acknowledge"} /\ FinalShape(final)
             /\ final \in JobSet /\ (final.op # o => FinalShape(final)')
  <2>1. final.at \in {"finalize", "acknowledge"} /\ FinalShape(final) /\ final \in JobSet /\ final.op \in Ops
    BY DEF IInv, Queue, Types, JobSet
  <2> QED BY <2>1, FinalStays DEF ConcernsOnly
<1>4. ASSUME NEW op \in Ops, op # o, (finalizing[op] # NoFinalization)' PROVE PendingShape(op, finalizing[op])'
  <2>1. PICK final : final = finalizing[op]
    OBVIOUS
  <2>2. PendingShape(op, final)' /\ finalizing'[op] = final
    BY <1>2, <1>4, <2>1 DEF ConcernsOnly, NoFinalization
  <2> QED BY <2>2
<1> QED BY <1>1, <1>3, <1>4

\* What a commit leaves of an operation that is in the ledger, and of the others.
LEMMA AddedToLedger ==
  ASSUME NEW entry, NEW config, Added(entry, config), entry.op \in LedgerOps(memory)
  PROVE  /\ \A op : op # entry.op => SameEntries(op) /\ (op \in decided' <=> op \in decided)
         /\ entry \in Entries(memory') /\ \A e \in Entries(memory') : e.op = entry.op => e = entry
         /\ entry.op \in decided' <=> entry.op \in decided \/ entry.decision = "commit"
         /\ landed' = landed /\ Gone(memory, memory') = {}
BY DEF Added, SameEntries

LEMMA RefusedFacts ==
  ASSUME Refused
  PROVE  /\ \A op : SameEntries(op) /\ (op \in decided' <=> op \in decided)
         /\ landed' = landed /\ memory' = memory
BY DEF Refused, SameEntries

\* The job of an update whose intent is recorded.
LEMMA PreparingFacts ==
  ASSUME IInv, job.at \in {"prepare", "unprepared", "prepared", "decide"}
  PROVE  /\ job.at \in Early /\ job.at \notin Final /\ EarlyShape /\ up = "serving"
         /\ job \in JobSet /\ job.op \in Ops /\ job.session \in Sessions /\ job.config \in Configs
         /\ job.decision = "rollback"
         /\ finalizing[job.op] = NoFinalization /\ \A final \in asked : final.op # job.op
         /\ \A op \in Ops : finalizing[op] # NoFinalization => finalizing[op].session # job.session /\ op # job.op
         /\ registry[job.op] = "pending" /\ told[job.op] = None
         /\ agent.done[job.op] \subseteq {"prepare"}
         /\ job.op \in LedgerOps(memory) /\ WellFormed(memory)
         /\ \E e \in Entries(memory) :
              /\ Matches(job, e) /\ e.status \in {"intent", "pending"}
              /\ \A f \in Entries(memory) : f.op = job.op => f = e
         /\ (job.op \in decided => landed)
<1>1. job.at \in Early /\ job.at \notin Final
  BY DEF Early, Final
<1>2. /\ EarlyShape /\ up = "serving" /\ finalizing[job.op] = NoFinalization
      /\ \A final \in asked : final.op # job.op
      /\ \A op \in Ops : finalizing[op] # NoFinalization => finalizing[op].session # job.session /\ op # job.op
  BY <1>1, EarlyFacts
<1>3. job \in JobSet /\ job.op \in Ops /\ job.session \in Sessions /\ job.config \in Configs
  BY <1>1, JobFacts DEF IInv
<1>4. WellFormed(memory)
  BY DEF IInv, Stored
<1>5. /\ registry[job.op] = "pending" /\ told[job.op] = None /\ agent.done[job.op] \subseteq {"prepare"}
      /\ job.decision = "rollback" /\ \E e \in Entries(memory) : Matches(job, e) /\ e.status \in {"intent", "pending"}
  BY <1>2 DEF EarlyShape
<1>6. PICK e \in Entries(memory) : Matches(job, e) /\ e.status \in {"intent", "pending"}
  BY <1>5
<1>7. /\ \A f \in Entries(memory) : f.op = job.op => f = e
      /\ job.op \in LedgerOps(memory)
      /\ job.op \in Decided(memory) <=> \E f \in Entries(memory) : f.op = job.op /\ f.decision = "commit"
  BY <1>4, <1>6, EntryFacts DEF Matches
<1>8. job.op \notin Decided(memory)
  BY <1>5, <1>6, <1>7 DEF Matches
<1>9. job.op \in decided => landed
  BY <1>8 DEF IInv, Stored
<1> QED BY <1>1, <1>2, <1>3, <1>4, <1>5, <1>6, <1>7, <1>9

LEMMA StageFacts ==
  ASSUME Types, job.at \in Early \cup Final, NEW stage \in Early \cup Final, job' = [job EXCEPT !.at = stage]
  PROVE  /\ job' \in JobSet /\ job'.op = job.op /\ job'.session = job.session /\ job'.config = job.config
         /\ job'.decision = job.decision /\ job'.at = stage
BY JobFacts

LEMMA PrepareKeeps ==
  ASSUME IInv, Prepare
  PROVE  IInv'
<1>1. job.at = "prepare"
  BY DEF Prepare, At
<1>2. /\ job.at \in Early /\ EarlyShape /\ up = "serving"
      /\ job \in JobSet /\ job.op \in Ops /\ job.session \in Sessions /\ job.config \in Configs
      /\ finalizing[job.op] = NoFinalization /\ \A final \in asked : final.op # job.op
      /\ \A op \in Ops : finalizing[op] # NoFinalization => op # job.op
      /\ registry[job.op] = "pending" /\ told[job.op] = None
  BY <1>1, PreparingFacts
<1>3. PICK e \in Entries(memory) :
        /\ Matches(job, e) /\ e.status \in {"intent", "pending"}
        /\ \A f \in Entries(memory) : f.op = job.op => f = e
  BY <1>1, PreparingFacts
<1>4. agent.txn[job.op] = NoTransaction /\ agent.done[job.op] = {} /\ agent \in AgentSet
  BY <1>1, <1>2 DEF EarlyShape, IInv, Types
<1>5. /\ disk' = disk /\ memory' = memory /\ stale' = stale /\ late' = late /\ landed' = landed
      /\ decided' = decided /\ up' = up /\ asked' = asked /\ finalizing' = finalizing
      /\ registry' = registry /\ told' = told
  BY DEF Prepare, store
<1>6. PICK new : new = [status |-> "prepared", config |-> job.config]
  OBVIOUS
<1>7. new.status = "prepared" /\ new.config = job.config /\ new \in TransactionSet
  BY <1>2, <1>6 DEF TransactionSet
<1>8. Record("prepare", Prepared) =>
        /\ agent' \in AgentSet /\ agent'.config = agent.config
        /\ agent'.txn = [agent.txn EXCEPT ![job.op] = new]
        /\ agent'.done = [agent.done EXCEPT ![job.op] = {"prepare"}]
  <2>1. Prepared = [agent EXCEPT !.txn[job.op] = new]
    BY <1>4, <1>6 DEF Prepared, Txn, Transaction, WithTransaction
  <2>2. PICK next : next = Prepared
    OBVIOUS
  <2>3. /\ next \in AgentSet /\ next.config = agent.config /\ next.done = agent.done
        /\ next.txn = [agent.txn EXCEPT ![job.op] = new]
    BY <1>2, <1>4, <1>7, <2>1, <2>2 DEF AgentSet
  <2>4. Record("prepare", Prepared) => agent' = [next EXCEPT !.done[job.op] = next.done[job.op] \cup {"prepare"}]
    BY <2>2 DEF Record
  <2>5. next.done[job.op] \cup {"prepare"} = {"prepare"}
    BY <1>4, <2>3
  <2> QED BY <1>2, <1>4, <2>3, <2>4, <2>5 DEF AgentSet
<1>9. \/ Record("prepare", Prepared) /\ job' = [job EXCEPT !.at = "prepared"]
      \/ (agent' = agent \/ Record("prepare", Prepared)) /\ job' = [job EXCEPT !.at = "unprepared"]
  BY <1>4 DEF Prepare, Returns, Throws, Recorded, Goto
<1>10. /\ agent' \in AgentSet /\ agent'.config = agent.config
       /\ \A op \in Ops : op # job.op => agent'.txn[op] = agent.txn[op] /\ agent'.done[op] = agent.done[op]
       /\ agent'.txn[job.op] \in {new, NoTransaction} /\ agent'.done[job.op] \subseteq {"prepare"}
       /\ job'.at = "prepared" => agent'.txn[job.op] = new
  <2>1. CASE agent' = agent /\ job' = [job EXCEPT !.at = "unprepared"]
    BY <1>2, <1>4, <2>1, JobFacts DEF IInv, Early
  <2>2. CASE Record("prepare", Prepared)
    BY <1>2, <1>4, <1>8, <2>2 DEF AgentSet
  <2> QED BY <1>9, <2>1, <2>2
<1>11. /\ job' \in JobSet /\ job'.op = job.op /\ job'.session = job.session /\ job'.config = job.config
       /\ job'.decision = job.decision /\ job'.at \in {"prepared", "unprepared"}
  <2>1. "prepared" \in Early \cup Final /\ "unprepared" \in Early \cup Final
    BY DEF Early
  <2>2. PICK stage \in {"prepared", "unprepared"} : job' = [job EXCEPT !.at = stage]
    BY <1>9
  <2>3. stage \in Early \cup Final
    BY <2>1
  <2> QED BY <1>2, <2>2, <2>3, StageFacts DEF IInv
<1>12. job'.at \in Early /\ job'.at \notin Final
  BY <1>11 DEF Early, Final
<1>13. \A op \in Ops : SameEntries(op)
  BY <1>5 DEF SameEntries
<1>14. ConcernsOnly(job.op)
  BY <1>5, <1>10, <1>13 DEF ConcernsOnly, SameAgent
<1>15. Types'
  BY <1>5, <1>10, <1>11 DEF IInv, Types
<1>16. Stored'
  BY <1>5 DEF IInv, Stored
<1>17. \A op \in Ops : Operation(op)'
  <2>1. ASSUME NEW op \in Ops, op = job.op PROVE Operation(op)'
    <3>1. \A f \in Entries(memory') : f.op = op => Unsettled(f)
      BY <1>3, <1>5, <2>1 DEF Unsettled
    <3>2. registry'[op] = "pending" /\ told'[op] = None
      BY <1>2, <1>5, <2>1
    <3> QED BY <1>7, <1>10, <2>1, <3>1, <3>2 DEF Operation, NoTransaction, None, Unsettled
  <2> QED BY <1>14, <2>1, OthersKept
<1>18. PendingFinalizations'
  BY <1>2, <1>5, <1>14, OthersKept DEF PendingFinalizations
<1>19. EarlyShape'
  <2>1. ~PendingIn(job.session)' /\ finalizing'[job.op] = NoFinalization
    BY <1>2, <1>5, <1>11 DEF EarlyShape, PendingIn
  <2>2. Matches(job', e)
    BY <1>3, <1>11 DEF Matches
  <2>3. job.decision = "rollback"
    BY <1>1, PreparingFacts
  <2> QED BY <1>2, <1>3, <1>5, <1>7, <1>10, <1>11, <2>1, <2>2, <2>3 DEF EarlyShape, PendingIn, Matches
<1>20. Queue'
  BY <1>2, <1>5, <1>12, <1>14, <1>19, OthersKept DEF IInv, Queue
<1>21. UnderWay'
  BY <1>2, <1>5, <1>11, <1>12 DEF IInv, UnderWay
<1>22. Follows'
  BY <1>2, <1>5, <1>10 DEF IInv, Follows
<1> QED BY <1>15, <1>16, <1>17, <1>18, <1>20, <1>21, <1>22 DEF IInv

\* A finalization follows the decision, which is the one the ledger has.
LEMMA FinalizationFacts ==
  ASSUME Types, job.at \in Early, NEW decision \in Decisions, Finalization(decision)
  PROVE  /\ job' \in JobSet /\ job'.op = job.op /\ job'.session = job.session /\ job'.config = job.config
         /\ job'.decision = decision /\ job'.at = "finalize" /\ job'.at \in Final /\ job'.at \notin Early
         /\ job' # NoFinalization
         /\ finalizing' \in [Ops -> {NoFinalization} \cup JobSet]
         /\ finalizing'[job.op] = job' /\ \A op \in Ops : op # job.op => finalizing'[op] = finalizing[op]
         /\ up' = up /\ asked' = asked /\ registry' = registry /\ told' = told
<1>1. job' = Job(job.op, job.session, job.config, decision, "finalize") /\ finalizing' = [finalizing EXCEPT ![job.op] = job']
      /\ up' = up /\ asked' = asked /\ registry' = registry /\ told' = told
  BY DEF Finalization
<1>2. /\ job' \in JobSet /\ job'.op = job.op /\ job'.session = job.session /\ job'.config = job.config
      /\ job'.decision = decision /\ job'.at = "finalize" /\ job.op \in Ops
  BY <1>1, JobFacts
<1>3. job'.at \in Final /\ job'.at \notin Early /\ job' # NoFinalization
  BY <1>2 DEF Final, Early, NoFinalization, NoJob, None
<1>4. finalizing \in [Ops -> {NoFinalization} \cup JobSet]
  BY DEF Types
<1> QED BY <1>1, <1>2, <1>3, <1>4

LEMMA RollbackFollows ==
  ASSUME IInv, job.at \in {"unprepared", "prepared", "decide"}, Finalization("rollback"), agent' = agent,
         Refused \/ Added(Entry("pending", "rollback"), memory.config)
  PROVE  IInv'
<1>1. /\ job.at \in Early /\ EarlyShape /\ up = "serving"
      /\ job \in JobSet /\ job.op \in Ops /\ job.session \in Sessions /\ job.config \in Configs
      /\ job.decision = "rollback"
      /\ finalizing[job.op] = NoFinalization /\ \A final \in asked : final.op # job.op
      /\ registry[job.op] = "pending" /\ told[job.op] = None /\ agent.done[job.op] \subseteq {"prepare"}
      /\ job.op \in LedgerOps(memory) /\ WellFormed(memory)
  BY PreparingFacts
<1>2. PICK old \in Entries(memory) :
        /\ Matches(job, old) /\ old.status \in {"intent", "pending"}
        /\ \A f \in Entries(memory) : f.op = job.op => f = old
  BY PreparingFacts
<1>3. /\ job' \in JobSet /\ job'.op = job.op /\ job'.session = job.session /\ job'.config = job.config
      /\ job'.decision = "rollback" /\ job'.at = "finalize" /\ job'.at \in Final /\ job'.at \notin Early
      /\ job' # NoFinalization
      /\ finalizing' \in [Ops -> {NoFinalization} \cup JobSet]
      /\ finalizing'[job.op] = job' /\ \A op \in Ops : op # job.op => finalizing'[op] = finalizing[op]
      /\ up' = up /\ asked' = asked /\ registry' = registry /\ told' = told
  BY <1>1, FinalizationFacts DEF IInv, Decisions
<1>4. PICK entry : entry = Entry("pending", "rollback")
  OBVIOUS
<1>5. /\ entry.op = job.op /\ entry.session = job.session /\ entry.config = job.config
      /\ entry.status = "pending" /\ entry.decision = "rollback"
  BY <1>1, <1>4, JobFacts DEF IInv, Decisions
<1>6. /\ memory'.config = memory.config /\ memory'.open = memory.open
      /\ \A op : op # job.op => SameEntries(op) /\ (op \in decided' <=> op \in decided)
      /\ landed' = landed /\ Stored' /\ Types'
      /\ (job.op \in decided' <=> job.op \in decided)
  <2>1. CASE Refused
    BY <1>3, <2>1, RefusedFacts DEF Refused, IInv, Types
  <2>2. CASE Added(entry, memory.config)
    BY <1>1, <1>3, <1>5, <2>2, AddedToLedger DEF Added, IInv, Types
  <2> QED BY <1>4, <2>1, <2>2
<1>7. PICK e \in Entries(memory') :
        /\ e.op = job.op /\ e.session = job.session /\ e.config = job.config /\ e.decision = "rollback"
        /\ e.status \in {"intent", "pending"} /\ \A f \in Entries(memory') : f.op = job.op => f = e
  <2>1. CASE Refused
    BY <1>1, <1>2, <2>1, RefusedFacts DEF Matches
  <2>2. CASE Added(entry, memory.config)
    BY <1>1, <1>5, <2>2, AddedToLedger
  <2> QED BY <1>4, <2>1, <2>2
<1>8. ConcernsOnly(job.op)
  BY <1>3, <1>6 DEF ConcernsOnly, SameAgent
<1>9. \A op \in Ops : Operation(op)'
  <2>1. ASSUME NEW op \in Ops, op = job.op PROVE Operation(op)'
    <3>1. \A f \in Entries(memory') : f.op = op => Unsettled(f)
      BY <1>7, <2>1 DEF Unsettled
    <3>2. registry'[op] = "pending" /\ told'[op] = None /\ registry[op] = "pending"
      BY <1>1, <1>3, <2>1
    <3> QED BY <1>6, <2>1, <3>1, <3>2 DEF IInv, Operation, None, Unsettled
  <2> QED BY <1>8, <2>1, OthersKept
<1>10. PendingFinalizations'
  <2>1. ASSUME NEW op \in Ops, op = job.op, NEW final, final = job' PROVE PendingShape(op, final)'
    <3>1. Matches(final, e)' /\ (e.status \in StatusAt(final.at))'
      BY <1>3, <1>7, <2>1 DEF Matches, StatusAt
    <3> QED BY <1>1, <1>3, <1>7, <2>1, <3>1 DEF PendingShape
  <2>2. ASSUME NEW op \in Ops, op = job.op PROVE PendingShape(op, finalizing[op])'
    <3>1. PICK final : final = job'
      OBVIOUS
    <3>2. PendingShape(op, final)' /\ finalizing'[op] = final
      BY <1>3, <2>1, <2>2, <3>1
    <3> QED BY <3>2
  <2>3. ASSUME NEW op \in Ops, op # job.op, (finalizing[op] # NoFinalization)' PROVE PendingShape(op, finalizing[op])'
    BY <1>3, <1>8, <2>3, OthersKept DEF NoFinalization
  <2> QED BY <2>2, <2>3 DEF PendingFinalizations
<1>11. FinalShape(job)'
  BY <1>3, <1>7 DEF FinalShape, Matches
<1>12. Queue'
  <2>1. \A op \in Ops : finalizing'[op].at # "forget"
    BY <1>1, <1>3 DEF IInv, Queue
  <2>2. \A final \in asked : FinalShape(final)' /\ final.at \in {"finalize", "acknowledge"}
    BY <1>1, <1>8, OthersKept
  <2> QED BY <1>1, <1>3, <1>11, <2>1, <2>2 DEF Queue
<1>13. UnderWay'
  <2>1. ASSUME NEW f \in Entries(memory'), Unsettled(f) PROVE finalizing'[f.op] # NoFinalization
    <3>1. CASE f.op = job.op
      BY <1>3, <3>1
    <3>2. CASE f.op # job.op
      <4>1. f \in Entries(memory) /\ f.op \in Ops
        <5>1. f \in Entries(memory)
          BY <1>6, <3>2 DEF SameEntries
        <5> QED BY <1>1, <5>1, EntryFacts DEF EntrySet
      <4> QED BY <1>1, <1>3, <2>1, <3>2, <4>1 DEF IInv, UnderWay
    <3> QED BY <3>1, <3>2
  <2> QED BY <2>1 DEF UnderWay
<1>14. Follows'
  <2>1. ASSUME NEW s \in Sessions, memory'.open[s], agent'.config[s] # memory'.config[s]
        PROVE  \E op \in Ops : /\ finalizing'[op] # NoFinalization /\ finalizing'[op].session = s
                               /\ finalizing'[op].at = "finalize" /\ finalizing'[op].decision = "commit"
                               /\ agent'.txn[op].status = "prepared"
    <3>1. PICK op \in Ops : /\ finalizing[op] # NoFinalization /\ finalizing[op].session = s
                            /\ finalizing[op].at = "finalize" /\ finalizing[op].decision = "commit"
                            /\ agent.txn[op].status = "prepared"
      BY <1>1, <1>6, <2>1 DEF IInv, Follows
    <3> QED BY <1>1, <1>3, <3>1
  <2> QED BY <2>1 DEF Follows
<1> QED BY <1>6, <1>9, <1>10, <1>12, <1>13, <1>14 DEF IInv

LEMMA PersistUnpreparedKeeps ==
  ASSUME IInv, PersistUnprepared
  PROVE  IInv'
<1>1. job.at = "unprepared"
  BY DEF PersistUnprepared, At
<1>2. job.at \in Early /\ WellFormed(memory)
  BY <1>1, PreparingFacts
<1>3. PICK entry : entry = Entry("pending", "rollback")
  OBVIOUS
<1>4. entry \in EntrySet /\ Alone(entry)
  BY <1>2, <1>3, JobFacts, EarlyFacts DEF IInv, Decisions
<1>5. CommitEntry(memory, entry) \/ RefuseEntry(memory, entry)
  BY <1>3 DEF PersistUnprepared
<1>6. Refused \/ Added(entry, memory.config)
  BY <1>2, <1>4, <1>5, CommitKeeps, RefusalKeeps DEF IInv
<1>7. agent' = agent /\ Finalization("rollback")
  BY DEF PersistUnprepared
<1> QED BY <1>1, <1>3, <1>6, <1>7, RollbackFollows

LEMMA PersistPreparedKeeps ==
  ASSUME IInv, PersistPrepared
  PROVE  IInv'
<1>1. job.at = "prepared"
  BY DEF PersistPrepared, At
<1>2. /\ job.at \in Early /\ EarlyShape /\ up = "serving"
      /\ job \in JobSet /\ job.op \in Ops /\ job.session \in Sessions /\ job.config \in Configs
      /\ job.decision = "rollback"
      /\ finalizing[job.op] = NoFinalization /\ \A final \in asked : final.op # job.op
      /\ registry[job.op] = "pending" /\ told[job.op] = None /\ agent.done[job.op] \subseteq {"prepare"}
      /\ job.op \in LedgerOps(memory) /\ WellFormed(memory)
  BY <1>1, PreparingFacts
<1>3. PICK entry : entry = Entry("pending", "rollback")
  OBVIOUS
<1>4. /\ entry \in EntrySet /\ Alone(entry) /\ entry.op = job.op /\ entry.session = job.session
      /\ entry.config = job.config /\ entry.status = "pending" /\ entry.decision = "rollback"
  BY <1>2, <1>3, JobFacts, EarlyFacts DEF IInv, Decisions
<1>5. agent' = agent
  BY DEF PersistPrepared
<1>6. \/ CommitEntry(memory, entry) /\ Goto("decide") /\ UNCHANGED <<up, asked, finalizing, registry, told>>
      \/ RefuseEntry(memory, entry) /\ Finalization("rollback")
  BY <1>3 DEF PersistPrepared
<1>7. CASE RefuseEntry(memory, entry) /\ Finalization("rollback")
  <2>1. Refused
    BY <1>2, <1>4, <1>7, RefusalKeeps DEF IInv
  <2> QED BY <1>1, <1>5, <1>7, <2>1, RollbackFollows
<1>8. CASE CommitEntry(memory, entry) /\ Goto("decide") /\ UNCHANGED <<up, asked, finalizing, registry, told>>
  <2>1. Added(entry, memory.config)
    BY <1>2, <1>4, <1>8, CommitKeeps DEF IInv
  <2>2. /\ job' \in JobSet /\ job'.op = job.op /\ job'.session = job.session /\ job'.config = job.config
        /\ job'.decision = job.decision /\ job'.at = "decide"
    <3>1. "decide" \in Early \cup Final
      BY DEF Early
    <3> QED BY <1>2, <1>8, <3>1, StageFacts DEF IInv, Goto
  <2>3. job'.at \in Early /\ job'.at \notin Final
    BY <2>2 DEF Early, Final
  <2>4. /\ \A op : op # job.op => SameEntries(op) /\ (op \in decided' <=> op \in decided)
        /\ entry \in Entries(memory') /\ \A e \in Entries(memory') : e.op = job.op => e = entry
        /\ (job.op \in decided' <=> job.op \in decided) /\ landed' = landed
        /\ memory'.config = memory.config /\ memory'.open = memory.open
    BY <1>2, <1>4, <2>1, AddedToLedger DEF Added
  <2>5. ConcernsOnly(job.op)
    BY <1>5, <1>8, <2>4 DEF ConcernsOnly, SameAgent
  <2>6. Types'
    BY <1>5, <1>8, <2>1, <2>2 DEF IInv, Types, Added
  <2>7. \A op \in Ops : Operation(op)'
    <3>1. ASSUME NEW op \in Ops, op = job.op PROVE Operation(op)'
      <4>1. \A f \in Entries(memory') : f.op = op => Unsettled(f)
        BY <1>4, <2>4, <3>1 DEF Unsettled
      <4>2. registry'[op] = "pending" /\ told'[op] = None /\ registry[op] = "pending"
        BY <1>2, <1>8, <3>1
      <4> QED BY <1>5, <2>4, <3>1, <4>1, <4>2 DEF IInv, Operation, None, Unsettled
    <3> QED BY <2>5, <3>1, OthersKept
  <2>8. PendingFinalizations'
    BY <1>2, <1>8, <2>5, OthersKept DEF PendingFinalizations
  <2>9. EarlyShape'
    <3>1. ~PendingIn(job.session)' /\ finalizing'[job.op] = NoFinalization
      BY <1>2, <1>8, <2>2 DEF EarlyShape, PendingIn
    <3>2. Matches(job', entry)
      BY <1>2, <1>4, <2>2 DEF Matches
    <3>3. agent.txn[job.op].status = "prepared"
      BY <1>1, <1>2 DEF EarlyShape
    <3> QED BY <1>2, <1>4, <1>5, <1>8, <2>2, <2>4, <3>1, <3>2, <3>3 DEF EarlyShape, PendingIn, Matches
  <2>10. Queue'
    BY <1>2, <1>8, <2>3, <2>5, <2>9, OthersKept DEF IInv, Queue
  <2>11. UnderWay'
    <3>1. ASSUME NEW f \in Entries(memory'), Unsettled(f), f.op # job.op PROVE finalizing[f.op] # NoFinalization
      <4>1. f \in Entries(memory)
        BY <2>4, <3>1 DEF SameEntries
      <4> QED BY <1>2, <3>1, <4>1 DEF IInv, UnderWay
    <3> QED BY <1>8, <2>2, <2>3, <3>1 DEF UnderWay
  <2>12. Follows'
    BY <1>5, <1>8, <2>4 DEF IInv, Follows
  <2>13. Stored'
    BY <2>1 DEF Added
  <2> QED BY <2>6, <2>7, <2>8, <2>10, <2>11, <2>12, <2>13 DEF IInv
<1> QED BY <1>6, <1>7, <1>8

LEMMA DecideKeeps ==
  ASSUME IInv, Decide
  PROVE  IInv'
<1>1. job.at = "decide"
  BY DEF Decide, DecideWith, At
<1>2. /\ job.at \in Early /\ EarlyShape /\ up = "serving"
      /\ job \in JobSet /\ job.op \in Ops /\ job.session \in Sessions /\ job.config \in Configs
      /\ finalizing[job.op] = NoFinalization /\ \A final \in asked : final.op # job.op
      /\ \A op \in Ops : finalizing[op] # NoFinalization => finalizing[op].session # job.session /\ op # job.op
      /\ registry[job.op] = "pending" /\ told[job.op] = None /\ agent.done[job.op] \subseteq {"prepare"}
      /\ job.op \in LedgerOps(memory) /\ WellFormed(memory)
  BY <1>1, PreparingFacts
<1>3. PICK entry : entry = Entry("pending", "commit")
  OBVIOUS
<1>4. /\ entry \in EntrySet /\ Alone(entry) /\ entry.op = job.op /\ entry.session = job.session
      /\ entry.config = job.config /\ entry.status = "pending" /\ entry.decision = "commit"
  BY <1>2, <1>3, JobFacts, EarlyFacts DEF IInv, Decisions
<1>5. PICK next : next = [memory EXCEPT !.config[job.session] = job.config]
  OBVIOUS
<1>6. /\ WellFormed(next) /\ next.ledger = memory.ledger /\ next.open = memory.open
      /\ next.config = [memory.config EXCEPT ![job.session] = job.config]
  BY <1>2, <1>5, NewConfiguration
<1>7. agent' = agent
  BY DEF Decide, DecideWith
<1>8. \/ CommitEntry(next, entry) /\ Finalization("commit")
      \/ RefuseEntry(next, entry) /\ Finalization("rollback")
  BY <1>3, <1>5 DEF Decide, DecideWith
<1>9. CASE RefuseEntry(next, entry) /\ Finalization("rollback")
  <2>1. Refused
    BY <1>4, <1>6, <1>9, RefusalKeeps DEF IInv
  <2> QED BY <1>1, <1>7, <1>9, <2>1, RollbackFollows
<1>10. CASE CommitEntry(next, entry) /\ Finalization("commit")
  <2>1. Added(entry, next.config)
    BY <1>4, <1>6, <1>10, CommitKeeps DEF IInv
  <2>2. /\ job' \in JobSet /\ job'.op = job.op /\ job'.session = job.session /\ job'.config = job.config
        /\ job'.decision = "commit" /\ job'.at = "finalize" /\ job'.at \in Final /\ job'.at \notin Early
        /\ job' # NoFinalization
        /\ finalizing' \in [Ops -> {NoFinalization} \cup JobSet]
        /\ finalizing'[job.op] = job' /\ \A op \in Ops : op # job.op => finalizing'[op] = finalizing[op]
        /\ up' = up /\ asked' = asked /\ registry' = registry /\ told' = told
    BY <1>2, <1>10, FinalizationFacts DEF IInv, Decisions
  <2>3. /\ \A op : op # job.op => SameEntries(op) /\ (op \in decided' <=> op \in decided)
        /\ entry \in Entries(memory') /\ \A e \in Entries(memory') : e.op = job.op => e = entry
        /\ job.op \in decided' /\ landed' = landed
        /\ memory'.config = next.config /\ memory'.open = memory.open
    BY <1>2, <1>4, <2>1, AddedToLedger DEF Added
  <2>4. /\ memory'.config[job.session] = job.config
        /\ \A s \in Sessions : s # job.session => memory'.config[s] = memory.config[s]
    <3>1. memory.config \in [Sessions -> Configs]
      BY <1>2, EntryFacts
    <3> QED BY <1>2, <1>6, <2>3, <3>1
  <2>5. ConcernsOnly(job.op)
    <3>1. \A op \in Ops : finalizing[op] # NoFinalization => finalizing[op].session \in Sessions
      BY DEF IInv, Types, JobSet
    <3> QED BY <1>2, <1>7, <2>2, <2>3, <2>4, <3>1 DEF ConcernsOnly, SameAgent
  <2>6. Types'
    BY <1>7, <2>1, <2>2 DEF IInv, Types, Added
  <2>7. \A op \in Ops : Operation(op)'
    <3>1. ASSUME NEW op \in Ops, op = job.op PROVE Operation(op)'
      <4>1. \A f \in Entries(memory') : f.op = op => Unsettled(f)
        BY <1>4, <2>3, <3>1 DEF Unsettled
      <4>2. registry'[op] = "pending" /\ told'[op] = None
        BY <1>2, <2>2, <3>1
      <4>3. agent'.txn[op].status = "prepared" /\ agent'.done[op] \subseteq {"prepare"}
        BY <1>1, <1>2, <1>7, <3>1 DEF EarlyShape
      <4> QED BY <2>3, <3>1, <4>1, <4>2, <4>3 DEF Operation, None, Unsettled
    <3> QED BY <2>5, <3>1, OthersKept
  <2>8. PendingFinalizations'
    <3>1. ASSUME NEW op \in Ops, op = job.op, NEW final, final = job' PROVE PendingShape(op, final)'
      <4>1. Matches(final, entry)' /\ (entry.status \in StatusAt(final.at))'
        BY <1>4, <2>2, <3>1 DEF Matches, StatusAt
      <4> QED BY <1>2, <1>7, <2>2, <2>3, <2>4, <3>1, <4>1 DEF PendingShape
    <3>2. ASSUME NEW op \in Ops, op = job.op PROVE PendingShape(op, finalizing[op])'
      <4>1. PICK final : final = job'
        OBVIOUS
      <4>2. PendingShape(op, final)' /\ finalizing'[op] = final
        BY <2>2, <3>1, <3>2, <4>1
      <4> QED BY <4>2
    <3>3. ASSUME NEW op \in Ops, op # job.op, (finalizing[op] # NoFinalization)' PROVE PendingShape(op, finalizing[op])'
      BY <2>2, <2>5, <3>3, OthersKept DEF NoFinalization
    <3> QED BY <3>2, <3>3 DEF PendingFinalizations
  <2>9. FinalShape(job)'
    <3>1. Matches(job', entry)
      BY <1>4, <2>2 DEF Matches
    <3> QED BY <1>4, <2>2, <2>3, <3>1 DEF FinalShape, Matches
  <2>10. Queue'
    <3>1. \A op \in Ops : finalizing'[op].at # "forget"
      BY <1>2, <2>2 DEF IInv, Queue
    <3>2. \A final \in asked : FinalShape(final)' /\ final.at \in {"finalize", "acknowledge"}
      BY <1>2, <2>5, OthersKept
    <3> QED BY <1>2, <2>2, <2>9, <3>1, <3>2 DEF Queue
  <2>11. UnderWay'
    <3>1. ASSUME NEW f \in Entries(memory'), Unsettled(f) PROVE finalizing'[f.op] # NoFinalization
      <4>1. CASE f.op = job.op
        BY <2>2, <4>1
      <4>2. CASE f.op # job.op
        <5>1. f \in Entries(memory)
          BY <2>3, <4>2 DEF SameEntries
        <5>2. f.op \in Ops
          BY <1>2, <5>1, EntryFacts DEF EntrySet
        <5> QED BY <1>2, <2>2, <3>1, <4>2, <5>1, <5>2 DEF IInv, UnderWay
      <4> QED BY <4>1, <4>2
    <3> QED BY <3>1 DEF UnderWay
  <2>12. Follows'
    <3>1. ASSUME NEW s \in Sessions, memory'.open[s], agent'.config[s] # memory'.config[s]
          PROVE  \E op \in Ops : /\ finalizing'[op] # NoFinalization /\ finalizing'[op].session = s
                                 /\ finalizing'[op].at = "finalize" /\ finalizing'[op].decision = "commit"
                                 /\ agent'.txn[op].status = "prepared"
      <4>1. CASE s = job.session
        <5>1. agent'.txn[job.op].status = "prepared"
          BY <1>1, <1>2, <1>7 DEF EarlyShape
        <5> QED BY <1>2, <2>2, <4>1, <5>1
      <4>2. CASE s # job.session
        <5>1. PICK op \in Ops : /\ finalizing[op] # NoFinalization /\ finalizing[op].session = s
                                /\ finalizing[op].at = "finalize" /\ finalizing[op].decision = "commit"
                                /\ agent.txn[op].status = "prepared"
          BY <1>2, <1>7, <2>3, <2>4, <3>1, <4>2 DEF IInv, Follows
        <5> QED BY <1>2, <1>7, <2>2, <5>1
      <4> QED BY <4>1, <4>2
    <3> QED BY <3>1 DEF Follows
  <2>13. Stored'
    BY <2>1 DEF Added
  <2> QED BY <2>6, <2>7, <2>8, <2>10, <2>11, <2>12, <2>13 DEF IInv
<1> QED BY <1>8, <1>9, <1>10

-----------------------------------------------------------------------------
(* The steps of a finalization. *)

LEMMA FinalFacts ==
  ASSUME IInv, job.at \in Final
  PROVE  /\ FinalShape(job) /\ job.at \notin Early /\ up \in {"serving", "restoring"}
         /\ job \in JobSet /\ job.op \in Ops /\ job.session \in Sessions /\ job.config \in Configs
         /\ job.decision \in Decisions
         /\ WellFormed(memory) /\ job.op \in LedgerOps(memory) /\ registry[job.op] # "unknown"
         /\ \E e \in Entries(memory) :
              /\ Matches(job, e) /\ \A f \in Entries(memory) : f.op = job.op => f = e
              /\ job.at = "acknowledge" => e.status \in {"completed", "acknowledged"}
         /\ finalizing[job.op] # NoFinalization =>
              /\ PendingShape(job.op, finalizing[job.op])
              /\ finalizing[job.op].op = job.op /\ finalizing[job.op].session = job.session
              /\ finalizing[job.op].config = job.config /\ finalizing[job.op].decision = job.decision
         /\ \A final \in asked : final.op = job.op => final.decision = job.decision
         /\ job.decision = "commit" => job.op \in decided
         /\ job.decision = "rollback" => job.op \notin decided \/ landed
<1>1. job.at \notin Early /\ job # NoJob
  BY DEF Early, Final, NoJob, None
<1>2. job \in JobSet /\ job.op \in Ops /\ job.session \in Sessions /\ job.config \in Configs /\ job.decision \in Decisions
  BY JobFacts DEF IInv
<1>3. FinalShape(job) /\ up \in {"serving", "restoring"}
  BY <1>1 DEF IInv, Types, Queue
<1>4. WellFormed(memory)
  BY DEF IInv, Stored
<1>5. PICK e \in Entries(memory) :
        Matches(job, e) /\ (job.at = "acknowledge" => e.status \in {"completed", "acknowledged"})
  BY <1>3 DEF FinalShape
<1>6. \A f \in Entries(memory) : f.op = job.op => f = e
  BY <1>4, <1>5, EntryFacts DEF Matches
<1>7. job.op \in LedgerOps(memory)
  BY <1>4, <1>5, EntryFacts DEF Matches
<1>8. registry[job.op] # "unknown"
  BY <1>2, <1>7 DEF IInv, Operation
<1>9. finalizing[job.op] # NoFinalization =>
        /\ PendingShape(job.op, finalizing[job.op])
        /\ finalizing[job.op].op = job.op /\ finalizing[job.op].session = job.session
        /\ finalizing[job.op].config = job.config /\ finalizing[job.op].decision = job.decision
  <2>1. ASSUME NEW final, final = finalizing[job.op], final # NoFinalization
        PROVE  /\ PendingShape(job.op, final) /\ final.op = job.op /\ final.session = job.session
               /\ final.config = job.config /\ final.decision = job.decision
    <3>1. PendingShape(job.op, final)
      BY <1>2, <2>1 DEF IInv, PendingFinalizations
    <3>2. PICK f \in Entries(memory) : Matches(final, f) /\ final.op = job.op
      BY <3>1 DEF PendingShape
    <3>3. f = e
      BY <1>6, <3>2 DEF Matches
    <3> QED BY <1>5, <3>1, <3>2, <3>3 DEF Matches
  <2> QED BY <2>1
<1>10. ASSUME NEW final \in asked, final.op = job.op PROVE final.decision = job.decision
  <2>1. PICK f \in Entries(memory) : Matches(final, f)
    BY DEF IInv, Queue, FinalShape
  <2>2. f = e
    BY <1>6, <1>10, <2>1 DEF Matches
  <2> QED BY <1>5, <2>1, <2>2 DEF Matches
<1>11. job.op \in Decided(memory) <=> job.decision = "commit"
  <2>1. job.op \in Decided(memory) <=> \E f \in Entries(memory) : f.op = job.op /\ f.decision = "commit"
    BY <1>4, EntryFacts
  <2> QED BY <1>5, <1>6, <2>1 DEF Matches
<1>12. /\ job.decision = "commit" => job.op \in decided
       /\ job.decision = "rollback" => job.op \notin decided \/ landed
  BY <1>11 DEF IInv, Stored
<1> QED BY <1>1, <1>2, <1>3, <1>4, <1>5, <1>6, <1>7, <1>8, <1>9, <1>10, <1>12

\* What follows a call of the Agent, or the refusal of a commit: the next stage
\* of the job, or none, when the finalization stays pending.
LEMMA JobMovesOn ==
  ASSUME IInv, job.at \in Final, NEW stage \in Final, Advance(stage) \/ StayPending
  PROVE  /\ finalizing' = finalizing /\ registry' = registry /\ told' = told /\ asked' = asked
         /\ up' \in {"serving", "restoring", "down"} /\ job' \in {NoJob} \cup JobSet
         /\ up' \in {up, "down"} /\ (up' = "serving" <=> up = "serving")
         /\ up' = "down" => asked' = {} /\ job' = NoJob
         /\ up' = "restoring" => up = "restoring"
         /\ job'.at \notin Early
         /\ \/ job' = NoJob /\ job'.at \notin Final /\ job'.at = None
            \/ /\ job'.op = job.op /\ job'.session = job.session /\ job'.config = job.config
               /\ job'.decision = job.decision /\ job'.at = stage /\ up' = up
<1>1. /\ job.at \notin Early /\ up \in {"serving", "restoring"} /\ job \in JobSet
      /\ (up = "restoring" => asked = {})
  BY FinalFacts DEF IInv, Queue
<1>2. CASE Advance(stage)
  <2>1. /\ job' \in JobSet /\ job'.op = job.op /\ job'.session = job.session /\ job'.config = job.config
        /\ job'.decision = job.decision /\ job'.at = stage
    BY <1>2, StageFacts DEF IInv, Advance, Goto
  <2>2. job'.at \notin Early
    BY <2>1 DEF Early, Final
  <2> QED BY <1>1, <1>2, <2>1, <2>2 DEF Advance
<1>3. CASE StayPending
  <2>1. job' = NoJob /\ job'.at = None /\ None \notin Early /\ None \notin Final
    BY <1>3 DEF StayPending, NoJob, Early, Final, None
  <2> QED BY <1>1, <1>3, <2>1 DEF StayPending
<1> QED BY <1>2, <1>3

\* So the rest of the invariant follows from what the step does to the operation.
LEMMA FinalStep ==
  ASSUME IInv, job.at \in Final, NEW stage \in Final, Advance(stage) \/ StayPending, Refused,
         stage \in {"acknowledge", "forget"} \/ up = "serving",
         agent' \in AgentSet, \A op \in Ops : op # job.op => SameAgent(op),
         \A op \in Ops : op = job.op => Operation(op)',
         \A op \in Ops : op = job.op => (finalizing[op] # NoFinalization => PendingShape(op, finalizing[op]))',
         \A final \in asked : final.op = job.op => FinalShape(final)',
         job'.at = stage => FinalShape(job)',
         Follows'
  PROVE  IInv'
<1>1. /\ finalizing' = finalizing /\ registry' = registry /\ told' = told /\ asked' = asked
      /\ up' \in {"serving", "restoring", "down"} /\ job' \in {NoJob} \cup JobSet
      /\ up' \in {up, "down"} /\ (up' = "serving" <=> up = "serving")
      /\ up' = "down" => asked' = {} /\ job' = NoJob
      /\ up' = "restoring" => up = "restoring"
      /\ job'.at \notin Early
      /\ \/ job' = NoJob /\ job'.at \notin Final /\ job'.at = None
         \/ /\ job'.op = job.op /\ job'.session = job.session /\ job'.config = job.config
            /\ job'.decision = job.decision /\ job'.at = stage /\ up' = up
  BY JobMovesOn
<1>2. memory' = memory /\ landed' = landed /\ decided' = decided /\ stale' \in BOOLEAN /\ Stored'
  BY DEF Refused
<1>3. ConcernsOnly(job.op)
  BY <1>1, <1>2 DEF ConcernsOnly, SameEntries
<1>4. job.at \notin Early /\ up \in {"serving", "restoring"}
  BY FinalFacts
<1>5. Types'
  BY <1>1, <1>2 DEF IInv, Types
<1>6. \A op \in Ops : Operation(op)'
  BY <1>3, OthersKept
<1>7. PendingFinalizations'
  <2>1. \A op \in Ops : op # job.op => (finalizing[op] # NoFinalization => PendingShape(op, finalizing[op]))'
    BY <1>1, <1>3, OthersKept DEF NoFinalization
  <2> QED BY <2>1 DEF PendingFinalizations
<1>8. Queue'
  <2>1. \A final \in asked : FinalShape(final)' /\ final.at \in {"finalize", "acknowledge"}
    BY <1>3, OthersKept
  <2>2. job'.at \in Final => FinalShape(job)'
    BY <1>1
  <2>3. up' = "restoring" => job'.at \in {None, "acknowledge", "forget"} /\ asked' = {}
    BY <1>1 DEF IInv, Queue
  <2>4. /\ up' = "serving" => \A op \in Ops : finalizing'[op].at # "forget"
        /\ up' = "restoring" => \A op \in Ops : finalizing'[op].at # "finalize"
    BY <1>1 DEF IInv, Queue
  <2> QED BY <1>1, <2>1, <2>2, <2>3, <2>4 DEF Queue
<1>9. UnderWay'
  BY <1>1, <1>2, <1>4 DEF IInv, UnderWay
<1> QED BY <1>2, <1>5, <1>6, <1>7, <1>8, <1>9 DEF IInv

LEMMA FinalizationWaits ==
  ASSUME IInv, job.at \in Final, StayPending, Refused, agent' = agent
  PROVE  IInv'
<1>1. "acknowledge" \in Final
  BY DEF Final
<1>2. /\ finalizing' = finalizing /\ registry' = registry /\ told' = told /\ asked' = asked /\ job'.at = None
      /\ up' \in {up, "down"}
  BY DEF StayPending, NoJob
<1>3. memory' = memory /\ landed' = landed /\ decided' = decided
  BY DEF Refused
<1>4. \A op \in Ops : SameAgent(op) /\ SameEntries(op)
  BY <1>3 DEF SameAgent, SameEntries
<1>5. ASSUME NEW op \in Ops PROVE Operation(op)'
  BY <1>2, <1>3, <1>4, OperationStays DEF IInv
<1>6. ASSUME NEW op \in Ops PROVE (finalizing[op] # NoFinalization => PendingShape(op, finalizing[op]))'
  <2>1. PICK final : final = finalizing[op]
    OBVIOUS
  <2>2. final # NoFinalization => PendingShape(op, final)'
    BY <1>3, <1>4, <2>1, PendingStays DEF IInv, PendingFinalizations
  <2> QED BY <1>2, <2>1, <2>2 DEF NoFinalization
<1>7. ASSUME NEW final \in asked PROVE FinalShape(final)'
  <2>1. FinalShape(final) /\ final.op \in Ops
    BY DEF IInv, Queue, Types, JobSet
  <2> QED BY <1>2, <1>4, <2>1, FinalStays
<1>8. Follows'
  BY <1>2, <1>3, FinalFacts DEF IInv, Follows
<1>9. agent' \in AgentSet
  BY DEF IInv, Types
<1>10. job'.at # "acknowledge"
  BY <1>2 DEF None
<1> QED BY <1>1, <1>4, <1>5, <1>6, <1>7, <1>8, <1>9, <1>10, FinalStep

LEMMA FinalizeKeeps ==
  ASSUME IInv, Finalize
  PROVE  IInv'
<1>1. job.at = "finalize" /\ job.at \in Final /\ "complete" \in Final
  BY DEF Finalize, At, Final
<1>2. /\ FinalShape(job) /\ job.at \notin Early /\ up = "serving"
      /\ job \in JobSet /\ job.op \in Ops /\ job.session \in Sessions /\ job.config \in Configs
      /\ job.decision \in Decisions
      /\ WellFormed(memory) /\ job.op \in LedgerOps(memory) /\ registry[job.op] # "unknown"
      /\ finalizing[job.op] # NoFinalization =>
           /\ PendingShape(job.op, finalizing[job.op])
           /\ finalizing[job.op].op = job.op /\ finalizing[job.op].session = job.session
           /\ finalizing[job.op].config = job.config /\ finalizing[job.op].decision = job.decision
      /\ \A final \in asked : final.op = job.op => final.decision = job.decision
      /\ job.decision = "commit" => job.op \in decided
      /\ job.decision = "rollback" => job.op \notin decided \/ landed
  <2>1. up = "serving"
    BY <1>1, FinalFacts DEF IInv, Queue, None
  <2> QED BY <1>1, <2>1, FinalFacts
<1>3. PICK next : next = Finalized(job.decision)
  OBVIOUS
<1>4. /\ disk' = disk /\ memory' = memory /\ stale' = stale /\ late' = late /\ landed' = landed
      /\ decided' = decided
  BY DEF Finalize, store
<1>5. \/ agent' = agent /\ (Answered(job) \/ StayPending)
      \/ ~Answered(job) /\ CanFinalize(job.decision) /\ agent' = [next EXCEPT !.done[job.op] = @ \cup {job.decision}]
  BY <1>3 DEF Finalize, Returns, Throws, Recorded, Record, Answered
<1>6. Advance("complete") \/ StayPending
  BY DEF Finalize
<1>7. /\ finalizing' = finalizing /\ registry' = registry /\ told' = told /\ asked' = asked
      /\ job' \in {NoJob} \cup JobSet /\ up' = "serving" /\ job'.at \notin Early
      /\ \/ job' = NoJob /\ job'.at \notin Final
         \/ /\ job'.op = job.op /\ job'.session = job.session /\ job'.config = job.config
            /\ job'.decision = job.decision /\ job'.at = "complete"
  BY <1>1, <1>2, <1>6, JobMovesOn
<1>8. agent \in AgentSet
  BY DEF IInv, Types
<1>9. Refused
  BY <1>4 DEF Refused, IInv, Types, Stored
<1>10. \A op \in Ops : SameEntries(op)
  BY <1>4 DEF SameEntries
<1>11. CASE agent' = agent /\ StayPending
  BY <1>1, <1>9, <1>11, FinalizationWaits
<1>12. CASE agent' = agent /\ Answered(job) /\ Advance("complete")
  <2>1. \A op \in Ops : SameAgent(op)
    BY <1>12 DEF SameAgent
  <2>2. \A op \in Ops : Operation(op)'
    BY <1>4, <1>7, <1>10, <2>1, OperationStays DEF IInv
  <2>3. ASSUME NEW op \in Ops PROVE (finalizing[op] # NoFinalization => PendingShape(op, finalizing[op]))'
    <3>1. PICK final : final = finalizing[op]
      OBVIOUS
    <3>2. final # NoFinalization => PendingShape(op, final)'
      BY <1>4, <1>10, <2>1, <3>1, PendingStays DEF IInv, PendingFinalizations
    <3> QED BY <1>7, <3>1, <3>2 DEF NoFinalization
  <2>4. ASSUME NEW final \in asked PROVE FinalShape(final)'
    <3>1. FinalShape(final) /\ final.op \in Ops
      BY DEF IInv, Queue, Types, JobSet
    <3> QED BY <1>7, <1>10, <2>1, <3>1, FinalStays
  <2>5. job'.at = "complete" => FinalShape(job)'
    <3>1. job'.at = "complete" => job'.op = job.op /\ job'.session = job.session /\ job'.config = job.config
                                  /\ job'.decision = job.decision
      BY <1>7 DEF NoJob, None
    <3>2. PICK e \in Entries(memory) : Matches(job, e)
      BY <1>2 DEF FinalShape
    <3>3. job'.at = "complete" => Answered(job)' /\ e \in Entries(memory') /\ Matches(job, e)'
      BY <1>4, <1>12, <3>1, <3>2 DEF Answered, Matches
    <3> QED BY <1>1, <3>3 DEF FinalShape
  <2>6. Follows'
    BY <1>2, <1>4, <1>7, <1>12 DEF IInv, Follows
  <2> QED BY <1>1, <1>2, <1>6, <1>8, <1>9, <1>12, <2>1, <2>2, <2>3, <2>4, <2>5, <2>6, FinalStep
<1>13. CASE ~Answered(job) /\ CanFinalize(job.decision) /\ agent' = [next EXCEPT !.done[job.op] = @ \cup {job.decision}]
  <2>1. PICK fin : fin = finalizing[job.op]
    OBVIOUS
  <2>2. /\ fin # NoFinalization /\ fin.at = "finalize" /\ PendingShape(job.op, fin)
        /\ fin.op = job.op /\ fin.session = job.session /\ fin.config = job.config
        /\ fin.decision = job.decision
    BY <1>1, <1>2, <1>13, <2>1 DEF FinalShape
  <2>3. PICK e \in Entries(memory) :
          Matches(job, e) /\ e.status \in {"intent", "pending"} /\ \A f \in Entries(memory) : f.op = job.op => f = e
    <3>1. PICK f \in Entries(memory) : Matches(fin, f) /\ f.status \in {"intent", "pending"}
      BY <2>2 DEF PendingShape, StatusAt
    <3> QED BY <1>2, <2>2, <3>1, EntryFacts DEF Matches
  <2>4. "acknowledge" \notin agent.done[job.op]
    BY <2>2 DEF PendingShape
  <2>5. job.decision = "commit" => memory.config[job.session] = job.config
    BY <2>2 DEF PendingShape
  <2>6. PICK new : new = [status |-> IF job.decision = "commit" THEN "committed" ELSE "rolledBack", config |-> job.config]
    OBVIOUS
  <2>7. /\ new.status = IF job.decision = "commit" THEN "committed" ELSE "rolledBack"
        /\ new \in TransactionSet
    BY <1>2, <2>6 DEF TransactionSet
  <2>8. /\ next \in AgentSet /\ next.txn = [agent.txn EXCEPT ![job.op] = new] /\ next.done = agent.done
        /\ \A s \in Sessions : next.config[s] =
             IF s = job.session /\ job.decision = "commit" /\ agent.txn[job.op].status = "prepared"
               THEN job.config ELSE agent.config[s]
    <3>1. CASE job.decision = "commit"
      <4>1. next = [[agent EXCEPT !.txn[job.op] = new] EXCEPT !.config[job.session] =
                       IF agent.txn[job.op].status = "prepared" THEN job.config ELSE @]
        BY <1>3, <2>6, <3>1 DEF Finalized, Transaction, WithTransaction, Txn
      <4> QED BY <1>2, <1>8, <2>7, <3>1, <4>1 DEF AgentSet
    <3>2. CASE job.decision # "commit"
      <4>1. next = [agent EXCEPT !.txn[job.op] = new]
        BY <1>3, <2>6, <3>2 DEF Finalized, Transaction, WithTransaction
      <4> QED BY <1>2, <1>8, <2>7, <3>2, <4>1 DEF AgentSet
    <3> QED BY <3>1, <3>2
  <2>9. /\ agent' \in AgentSet /\ agent'.txn = [agent.txn EXCEPT ![job.op] = new]
        /\ agent'.done = [agent.done EXCEPT ![job.op] = @ \cup {job.decision}] /\ agent'.config = next.config
    BY <1>2, <1>8, <1>13, <2>8 DEF AgentSet, Decisions
  <2>10. /\ agent'.txn[job.op] = new /\ agent'.done[job.op] = agent.done[job.op] \cup {job.decision}
         /\ \A op \in Ops : op # job.op => agent'.txn[op] = agent.txn[op] /\ agent'.done[op] = agent.done[op]
    BY <1>2, <1>8, <2>9 DEF AgentSet
  <2>11. \A op \in Ops : op # job.op => SameAgent(op)
    BY <2>10 DEF SameAgent
  <2>12. ASSUME NEW op \in Ops, op = job.op PROVE Operation(op)'
    <3>1. \A f \in Entries(memory') : f.op = op => Unsettled(f)
      BY <1>4, <2>3, <2>12 DEF Unsettled
    <3>2. registry'[op] # "unknown" /\ registry'[op] = registry[op] /\ told'[op] = told[op]
      BY <1>2, <1>7, <2>12
    <3>3. /\ agent'.txn[op].status # "prepared" /\ "acknowledge" \notin agent'.done[op]
          /\ agent'.txn[op].status = "committed" => op \in decided
          /\ agent'.txn[op].status = "rolledBack" => op \notin decided \/ landed
      BY <1>2, <2>4, <2>7, <2>10, <2>12 DEF Decisions
    <3> QED BY <1>4, <3>1, <3>2, <3>3, <2>12 DEF IInv, Operation, Unsettled
  <2>13. ASSUME NEW op \in Ops, op = job.op PROVE (finalizing[op] # NoFinalization => PendingShape(op, finalizing[op]))'
    <3>1. PendingShape(op, fin)'
      <4>1. Matches(fin, e)' /\ (e.status \in StatusAt(fin.at))'
        BY <2>2, <2>3 DEF Matches, StatusAt
      <4>2. "acknowledge" \notin agent'.done[op]
        BY <1>2, <2>4, <2>10, <2>13 DEF Decisions
      <4> QED BY <1>4, <2>2, <2>3, <2>5, <2>13, <4>1, <4>2 DEF PendingShape
    <3> QED BY <1>7, <2>1, <2>13, <3>1
  <2>14. ASSUME NEW final \in asked, final.op = job.op PROVE FinalShape(final)'
    <3>1. FinalShape(final) /\ final.at \in {"finalize", "acknowledge"}
      BY DEF IInv, Queue
    <3>2. final.at = "finalize"
      BY <2>1, <2>2, <2>14, <3>1 DEF FinalShape, NotFinalizing
    <3>3. PICK f \in Entries(memory) : Matches(final, f)
      BY <3>1 DEF FinalShape
    <3>4. f \in Entries(memory') /\ Matches(final, f)'
      BY <1>4, <3>3 DEF Matches
    <3> QED BY <1>1, <1>7, <2>1, <2>2, <2>14, <3>2, <3>4 DEF FinalShape
  <2>15. job'.at = "complete" => FinalShape(job)'
    <3>1. job'.at = "complete" => job'.op = job.op /\ job'.session = job.session /\ job'.config = job.config
                                  /\ job'.decision = job.decision
      BY <1>7 DEF NoJob, None
    <3>2. job'.at = "complete" => Answered(job)' /\ e \in Entries(memory') /\ Matches(job, e)'
      BY <1>4, <2>3, <2>10, <3>1 DEF Answered, Matches
    <3> QED BY <1>1, <3>2 DEF FinalShape
  <2>16. Follows'
    <3>1. ASSUME NEW s \in Sessions, memory.open[s], agent'.config[s] # memory.config[s]
          PROVE  \E op \in Ops : /\ finalizing[op] # NoFinalization /\ finalizing[op].session = s
                                 /\ finalizing[op].at = "finalize" /\ finalizing[op].decision = "commit"
                                 /\ agent'.txn[op].status = "prepared"
      <4>1. agent'.config[s] = agent.config[s]
        BY <2>5, <2>8, <2>9, <3>1
      <4>2. PICK op \in Ops : /\ finalizing[op] # NoFinalization /\ finalizing[op].session = s
                              /\ finalizing[op].at = "finalize" /\ finalizing[op].decision = "commit"
                              /\ agent.txn[op].status = "prepared"
        BY <1>2, <3>1, <4>1 DEF IInv, Follows
      <4>3. op # job.op
        <5>1. SUFFICES ASSUME op = job.op PROVE FALSE
          OBVIOUS
        <5>2. agent'.config[s] = job.config /\ memory.config[s] = job.config
          BY <2>1, <2>2, <2>5, <2>8, <2>9, <4>2, <5>1
        <5> QED BY <3>1, <5>2
      <4> QED BY <2>10, <4>2, <4>3
    <3> QED BY <1>4, <1>7, <3>1 DEF Follows
  <2> QED BY <1>1, <1>2, <1>6, <1>9, <2>9, <2>11, <2>12, <2>13, <2>14, <2>15, <2>16, FinalStep
<1> QED BY <1>5, <1>6, <1>11, <1>12, <1>13

LEMMA PersistCompletedKeeps ==
  ASSUME IInv, PersistCompleted
  PROVE  IInv'
<1>1. job.at = "complete" /\ job.at \in Final /\ "acknowledge" \in Final
  BY DEF PersistCompleted, At, Final
<1>2. /\ FinalShape(job) /\ job.at \notin Early /\ up = "serving"
      /\ job \in JobSet /\ job.op \in Ops /\ job.session \in Sessions /\ job.config \in Configs
      /\ job.decision \in Decisions
      /\ WellFormed(memory) /\ job.op \in LedgerOps(memory) /\ registry[job.op] # "unknown"
      /\ finalizing[job.op] # NoFinalization =>
           /\ finalizing[job.op].session = job.session /\ finalizing[job.op].decision = job.decision
      /\ \A final \in asked : final.op = job.op => final.decision = job.decision
      /\ job.decision = "commit" => job.op \in decided
      /\ job.decision = "rollback" => job.op \notin decided \/ landed
  <2>1. up = "serving"
    BY <1>1, FinalFacts DEF IInv, Queue, None
  <2> QED BY <1>1, <2>1, FinalFacts
<1>3. PICK entry : entry = Entry("completed", job.decision)
  OBVIOUS
<1>4. /\ entry \in EntrySet /\ entry.op = job.op /\ entry.session = job.session
      /\ entry.config = job.config /\ entry.status = "completed" /\ entry.decision = job.decision
  BY <1>1, <1>2, <1>3, JobFacts DEF IInv
<1>5. PICK old \in Entries(memory) : Matches(job, old) /\ \A f \in Entries(memory) : f.op = job.op => f = old
  BY <1>1, FinalFacts
<1>6. Admits(memory, entry) => Alone(entry) /\ Unsettled(old)
  <2>1. Admits(memory, entry) => Unsettled(old)
    BY <1>4, <1>5 DEF Admits, Matches, Unsettled
  <2>2. Unsettled(old) => Alone(entry)
    BY <1>2, <1>4, <1>5, EntryFacts DEF Alone, Matches
  <2> QED BY <2>1, <2>2
<1>7. agent' = agent
  BY DEF PersistCompleted
<1>8. \/ /\ CommitEntry(memory, entry) /\ Goto("acknowledge")
         /\ finalizing' = [finalizing EXCEPT ![job.op] = job']
         /\ UNCHANGED <<up, asked, registry, told>>
      \/ RefuseEntry(memory, entry) /\ StayPending
  BY <1>3 DEF PersistCompleted
<1>9. CASE RefuseEntry(memory, entry) /\ StayPending
  <2>1. Refused
    BY <1>2, <1>4, <1>6, <1>9, RefusalKeeps DEF IInv
  <2> QED BY <1>1, <1>7, <1>9, <2>1, FinalizationWaits
<1>10. CASE /\ CommitEntry(memory, entry) /\ Goto("acknowledge")
            /\ finalizing' = [finalizing EXCEPT ![job.op] = job']
            /\ UNCHANGED <<up, asked, registry, told>>
  <2>1. Alone(entry) /\ Unsettled(old)
    BY <1>6, <1>10 DEF CommitEntry
  <2>2. Added(entry, memory.config)
    BY <1>2, <1>4, <1>10, <2>1, CommitKeeps DEF IInv
  <2>3. /\ job' \in JobSet /\ job'.op = job.op /\ job'.session = job.session /\ job'.config = job.config
        /\ job'.decision = job.decision /\ job'.at = "acknowledge"
    BY <1>1, <1>10, StageFacts DEF IInv, Goto
  <2>4. job'.at \in Final /\ job'.at \notin Early /\ job' # NoFinalization
    BY <2>3 DEF Early, Final, NoFinalization, NoJob, None
  <2>5. /\ finalizing' \in [Ops -> {NoFinalization} \cup JobSet] /\ finalizing'[job.op] = job'
        /\ \A op \in Ops : op # job.op => finalizing'[op] = finalizing[op]
    <3>1. finalizing \in [Ops -> {NoFinalization} \cup JobSet]
      BY DEF IInv, Types
    <3> QED BY <1>2, <1>10, <2>3, <3>1
  <2>6. /\ \A op : op # job.op => SameEntries(op) /\ (op \in decided' <=> op \in decided)
        /\ entry \in Entries(memory') /\ \A e \in Entries(memory') : e.op = job.op => e = entry
        /\ (job.op \in decided' <=> job.op \in decided) /\ landed' = landed
        /\ memory'.config = memory.config /\ memory'.open = memory.open
    BY <1>2, <1>4, <2>2, AddedToLedger DEF Added
  <2>7. ConcernsOnly(job.op)
    BY <1>7, <1>10, <2>5, <2>6 DEF ConcernsOnly, SameAgent
  <2>8. Types'
    BY <1>7, <1>10, <2>2, <2>3, <2>5 DEF IInv, Types, Added
  <2>9. \A op \in Ops : Operation(op)'
    <3>1. ASSUME NEW op \in Ops, op = job.op PROVE Operation(op)'
      <4>1. \A f \in Entries(memory') : f.op = op => Unsettled(f)
        BY <1>4, <2>6, <3>1 DEF Unsettled
      <4>2. registry'[op] = registry[op] /\ registry[op] # "unknown" /\ told'[op] = told[op]
        BY <1>2, <1>10, <3>1
      <4> QED BY <1>7, <2>6, <3>1, <4>1, <4>2 DEF IInv, Operation, Unsettled
    <3> QED BY <2>7, <3>1, OthersKept
  <2>10. PendingFinalizations'
    <3>1. ASSUME NEW op \in Ops, op = job.op, NEW final, final = job' PROVE PendingShape(op, final)'
      <4>1. Matches(final, entry)' /\ (entry.status \in StatusAt(final.at))'
        BY <1>4, <2>3, <3>1 DEF Matches, StatusAt
      <4> QED BY <2>3, <2>6, <3>1, <4>1 DEF PendingShape
    <3>2. ASSUME NEW op \in Ops, op = job.op PROVE PendingShape(op, finalizing[op])'
      <4>1. PICK final : final = job'
        OBVIOUS
      <4>2. PendingShape(op, final)' /\ finalizing'[op] = final
        BY <2>5, <3>1, <3>2, <4>1
      <4> QED BY <4>2
    <3>3. ASSUME NEW op \in Ops, op # job.op, (finalizing[op] # NoFinalization)' PROVE PendingShape(op, finalizing[op])'
      BY <2>5, <2>7, <3>3, OthersKept DEF NoFinalization
    <3> QED BY <3>2, <3>3 DEF PendingFinalizations
  <2>11. ASSUME NEW final, final.op = job.op, final.decision = job.decision, final.at \in {"finalize", "acknowledge"},
                \E e \in Entries(memory) : Matches(final, e)
         PROVE  FinalShape(final)'
    <3>1. Matches(final, entry)'
      BY <1>4, <1>5, <2>11 DEF Matches
    <3>2. Answered(final)'
      BY <1>1, <1>2, <1>7, <2>11 DEF FinalShape, Answered
    <3>3. NotFinalizing(final.op)'
      BY <2>3, <2>5, <2>11 DEF NotFinalizing
    <3>4. final.at \in Final
      BY <2>11 DEF Final
    <3> QED BY <1>4, <2>6, <2>11, <3>1, <3>2, <3>3, <3>4 DEF FinalShape
  <2>12. Queue'
    <3>1. ASSUME NEW final \in asked PROVE FinalShape(final)' /\ final.at \in {"finalize", "acknowledge"}
      <4>1. final.at \in {"finalize", "acknowledge"} /\ FinalShape(final) /\ (final.op # job.op => FinalShape(final)')
        BY <2>7, OthersKept
      <4>2. \E e \in Entries(memory) : Matches(final, e)
        BY <4>1 DEF FinalShape
      <4> QED BY <1>2, <2>11, <4>1, <4>2
    <3>2. FinalShape(job)'
      <4>1. PICK final : final = job'
        OBVIOUS
      <4>2. Matches(final, old)
        BY <1>5, <2>3, <4>1 DEF Matches
      <4>3. FinalShape(final)'
        BY <2>3, <2>11, <4>1, <4>2
      <4> QED BY <4>1, <4>3
    <3>3. \A op \in Ops : finalizing'[op].at # "forget"
      BY <1>2, <2>3, <2>5 DEF IInv, Queue
    <3> QED BY <1>2, <1>10, <2>4, <3>1, <3>2, <3>3 DEF Queue
  <2>13. UnderWay'
    <3>1. ASSUME NEW f \in Entries(memory'), Unsettled(f) PROVE finalizing'[f.op] # NoFinalization
      <4>1. CASE f.op = job.op
        BY <2>4, <2>5, <4>1
      <4>2. CASE f.op # job.op
        <5>1. f \in Entries(memory)
          BY <2>6, <4>2 DEF SameEntries
        <5>2. f.op \in Ops
          BY <1>2, <5>1, EntryFacts DEF EntrySet
        <5> QED BY <1>2, <2>5, <3>1, <4>2, <5>1, <5>2 DEF IInv, UnderWay
      <4> QED BY <4>1, <4>2
    <3> QED BY <3>1 DEF UnderWay
  <2>14. Follows'
    <3>1. ASSUME NEW s \in Sessions, memory'.open[s], agent'.config[s] # memory'.config[s]
          PROVE  \E op \in Ops : /\ finalizing'[op] # NoFinalization /\ finalizing'[op].session = s
                                 /\ finalizing'[op].at = "finalize" /\ finalizing'[op].decision = "commit"
                                 /\ agent'.txn[op].status = "prepared"
      <4>1. PICK op \in Ops : /\ finalizing[op] # NoFinalization /\ finalizing[op].session = s
                              /\ finalizing[op].at = "finalize" /\ finalizing[op].decision = "commit"
                              /\ agent.txn[op].status = "prepared"
        BY <1>2, <1>7, <2>6, <3>1 DEF IInv, Follows
      <4>2. op # job.op
        <5>1. SUFFICES ASSUME op = job.op PROVE FALSE
          OBVIOUS
        <5>2. "commit" \in agent.done[op]
          BY <1>1, <1>2, <4>1, <5>1 DEF FinalShape, Answered
        <5> QED BY <4>1, <5>2 DEF IInv, Operation
      <4> QED BY <1>7, <2>5, <4>1, <4>2
    <3> QED BY <3>1 DEF Follows
  <2>15. Stored'
    BY <2>2 DEF Added
  <2> QED BY <2>8, <2>9, <2>10, <2>12, <2>13, <2>14, <2>15 DEF IInv
<1> QED BY <1>8, <1>9, <1>10

LEMMA AcknowledgeKeeps ==
  ASSUME IInv, Acknowledge
  PROVE  IInv'
<1>1. job.at = "acknowledge" /\ job.at \in Final /\ "forget" \in Final
  BY DEF Acknowledge, At, Final
<1>2. /\ FinalShape(job) /\ up \in {"serving", "restoring"}
      /\ job \in JobSet /\ job.op \in Ops
      /\ WellFormed(memory) /\ job.op \in LedgerOps(memory) /\ registry[job.op] # "unknown"
  BY <1>1, FinalFacts
<1>3. PICK e \in Entries(memory) : Matches(job, e)
  BY <1>1, FinalFacts
<1>4. NotFinalizing(job.op)
  BY <1>1, <1>2 DEF FinalShape
<1>5. /\ disk' = disk /\ memory' = memory /\ stale' = stale /\ late' = late /\ landed' = landed
      /\ decided' = decided
  BY DEF Acknowledge, store
<1>6. Advance("forget") \/ StayPending
  BY DEF Acknowledge
<1>7. Refused
  BY <1>5 DEF Refused, IInv, Types, Stored
<1>8. \A op \in Ops : SameEntries(op)
  BY <1>5 DEF SameEntries
<1>9. agent \in AgentSet
  BY DEF IInv, Types
<1>10. \/ agent' = agent /\ StayPending
       \/ agent' = agent /\ "acknowledge" \in agent.done[job.op]
       \/ agent' = [Acknowledged EXCEPT !.done[job.op] = @ \cup {"acknowledge"}]
  BY DEF Acknowledge, Returns, Throws, Recorded, Record
<1>11. CASE agent' = agent /\ StayPending
  BY <1>1, <1>7, <1>11, FinalizationWaits
<1>12. CASE \/ agent' = agent /\ "acknowledge" \in agent.done[job.op]
            \/ agent' = [Acknowledged EXCEPT !.done[job.op] = @ \cup {"acknowledge"}]
  <2>1. /\ agent' \in AgentSet /\ agent'.config = agent.config /\ agent'.txn[job.op] = NoTransaction
        /\ agent.done[job.op] \subseteq agent'.done[job.op]
        /\ \A op \in Ops : op # job.op => agent'.txn[op] = agent.txn[op] /\ agent'.done[op] = agent.done[op]
    <3>1. CASE agent' = agent /\ "acknowledge" \in agent.done[job.op]
      BY <1>2, <1>9, <3>1 DEF IInv, Operation
    <3>2. CASE agent' = [Acknowledged EXCEPT !.done[job.op] = @ \cup {"acknowledge"}]
      <4>1. PICK next : next = Acknowledged
        OBVIOUS
      <4>2. NoTransaction \in TransactionSet
        BY DEF TransactionSet
      <4>3. /\ next \in AgentSet /\ next.config = agent.config /\ next.done = agent.done
            /\ next.txn = [agent.txn EXCEPT ![job.op] = NoTransaction]
        BY <1>2, <1>9, <4>1, <4>2 DEF Acknowledged, WithTransaction, AgentSet
      <4> QED BY <1>2, <1>9, <3>2, <4>1, <4>2, <4>3 DEF AgentSet
    <3> QED BY <1>12, <3>1, <3>2
  <2>2. /\ finalizing' = finalizing /\ registry' = registry /\ told' = told /\ asked' = asked
        /\ up' \in {up, "down"}
        /\ job'.at = "forget" =>
             /\ job'.op = job.op /\ job'.session = job.session /\ job'.config = job.config
             /\ job'.decision = job.decision
    <3>1. None # "forget"
      BY DEF None
    <3> QED BY <1>1, <1>6, <3>1, JobMovesOn
  <2>3. \A op \in Ops : op # job.op => SameAgent(op)
    BY <2>1 DEF SameAgent
  <2>4. ASSUME NEW op \in Ops, op = job.op PROVE Operation(op)'
    <3>1. Operation(op) /\ registry[op] # "unknown" /\ agent'.txn[op] = NoTransaction
      BY <1>2, <2>1, <2>4 DEF IInv
    <3> QED BY <1>5, <2>2, <3>1 DEF Operation, NoTransaction, None
  <2>5. ASSUME NEW op \in Ops, op = job.op PROVE (finalizing[op] # NoFinalization => PendingShape(op, finalizing[op]))'
    <3>1. ASSUME NEW final, final = finalizing[op], final # NoFinalization PROVE PendingShape(op, final)'
      <4>1. PendingShape(op, final) /\ final.at # "finalize"
        BY <1>4, <2>5, <3>1 DEF IInv, PendingFinalizations, NotFinalizing
      <4>2. PICK f \in Entries(memory) : Matches(final, f) /\ f.status \in StatusAt(final.at)
        BY <4>1 DEF PendingShape
      <4>3. f \in Entries(memory') /\ Matches(final, f)' /\ (f.status \in StatusAt(final.at))'
        BY <1>5, <4>2 DEF Matches, StatusAt
      <4> QED BY <2>1, <2>5, <4>1, <4>3 DEF PendingShape
    <3>2. PICK final : final = finalizing[op]
      OBVIOUS
    <3> QED BY <2>2, <3>1, <3>2 DEF NoFinalization
  <2>6. ASSUME NEW final, final.op = job.op, FinalShape(final), final.at \in {"finalize", "acknowledge"}
        PROVE  FinalShape(final)'
    <3>1. final.at = "finalize" => Answered(final)'
      BY <1>4, <2>1, <2>6 DEF FinalShape, Answered, NotFinalizing
    <3>2. NotFinalizing(final.op)'
      BY <1>4, <2>2, <2>6 DEF NotFinalizing, NoFinalization
    <3>3. PICK f \in Entries(memory) :
            Matches(final, f) /\ (final.at \in {"acknowledge"} => f.status \in {"completed", "acknowledged"})
      BY <2>6 DEF FinalShape
    <3>4. f \in Entries(memory') /\ Matches(final, f)'
      BY <1>5, <3>3 DEF Matches
    <3> QED BY <2>6, <3>1, <3>2, <3>3, <3>4 DEF FinalShape
  <2>7. \A final \in asked : final.op = job.op => FinalShape(final)'
    BY <2>6 DEF IInv, Queue
  <2>8. job'.at = "forget" => FinalShape(job)'
    <3>1. NotFinalizing(job.op) /\ finalizing' = finalizing => (job'.op = job.op => NotFinalizing(job.op)')
      BY DEF NotFinalizing, NoFinalization
    <3>2. job'.at = "forget" => e \in Entries(memory') /\ Matches(job, e)' /\ NotFinalizing(job.op)'
      BY <1>3, <1>4, <1>5, <2>2, <3>1 DEF Matches
    <3> QED BY <1>1, <2>1, <2>2, <3>2 DEF FinalShape
  <2>9. Follows'
    <3>1. ASSUME NEW s \in Sessions, memory.open[s], agent.config[s] # memory.config[s]
          PROVE  \E op \in Ops : /\ finalizing[op] # NoFinalization /\ finalizing[op].session = s
                                 /\ finalizing[op].at = "finalize" /\ finalizing[op].decision = "commit"
                                 /\ agent'.txn[op].status = "prepared"
      <4>1. PICK op \in Ops : /\ finalizing[op] # NoFinalization /\ finalizing[op].session = s
                              /\ finalizing[op].at = "finalize" /\ finalizing[op].decision = "commit"
                              /\ agent.txn[op].status = "prepared"
        BY <1>2, <3>1 DEF IInv, Follows
      <4>2. op # job.op
        BY <1>4, <4>1 DEF NotFinalizing
      <4> QED BY <2>1, <4>1, <4>2
    <3> QED BY <1>5, <2>1, <2>2, <3>1 DEF Follows
  <2> QED BY <1>1, <1>6, <1>7, <2>1, <2>3, <2>4, <2>5, <2>7, <2>8, <2>9, FinalStep
<1> QED BY <1>10, <1>11, <1>12

LEMMA PersistAcknowledgedKeeps ==
  ASSUME IInv, PersistAcknowledged
  PROVE  IInv'
<1>1. job.at = "forget" /\ job.at \in Final
  BY DEF PersistAcknowledged, At, Final
<1>2. /\ FinalShape(job) /\ job.at \notin Early /\ up \in {"serving", "restoring"}
      /\ job \in JobSet /\ job.op \in Ops /\ job.session \in Sessions /\ job.config \in Configs
      /\ job.decision \in Decisions
      /\ WellFormed(memory) /\ job.op \in LedgerOps(memory) /\ registry[job.op] # "unknown"
      /\ finalizing[job.op] # NoFinalization => finalizing[job.op].session = job.session
      /\ job.decision = "commit" => job.op \in decided
      /\ job.decision = "rollback" => job.op \notin decided \/ landed
  BY <1>1, FinalFacts
<1>3. NotFinalizing(job.op) /\ agent.txn[job.op] = NoTransaction
  BY <1>1, <1>2 DEF FinalShape
<1>4. PICK entry : entry = Entry("acknowledged", job.decision)
  OBVIOUS
<1>5. /\ entry \in EntrySet /\ entry.op = job.op /\ entry.session = job.session
      /\ entry.config = job.config /\ entry.status = "acknowledged" /\ entry.decision = job.decision
  BY <1>1, <1>2, <1>4, JobFacts DEF IInv
<1>6. PICK old \in Entries(memory) : Matches(job, old) /\ \A f \in Entries(memory) : f.op = job.op => f = old
  BY <1>1, FinalFacts
<1>7. Alone(entry) /\ ~Unsettled(entry)
  BY <1>5 DEF Alone, Unsettled
<1>8. agent' = agent
  BY DEF PersistAcknowledged
<1>9. \/ /\ CommitEntry(memory, entry) /\ Settle(job.op, Outcome(job.decision))
         /\ finalizing' = [finalizing EXCEPT ![job.op] = NoFinalization]
      \/ RefuseEntry(memory, entry) /\ StayPending
  BY <1>4 DEF PersistAcknowledged
<1>10. CASE RefuseEntry(memory, entry) /\ StayPending
  <2>1. Refused
    BY <1>2, <1>5, <1>7, <1>10, RefusalKeeps DEF IInv
  <2> QED BY <1>1, <1>8, <1>10, <2>1, FinalizationWaits
<1>11. CASE /\ CommitEntry(memory, entry) /\ Settle(job.op, Outcome(job.decision))
            /\ finalizing' = [finalizing EXCEPT ![job.op] = NoFinalization]
  <2>1. Added(entry, memory.config)
    BY <1>2, <1>5, <1>7, <1>11, CommitKeeps DEF IInv
  <2>2. PICK outcome \in {"succeeded", "failed"} :
          outcome = Outcome(job.decision) /\ (outcome = "succeeded" <=> job.decision = "commit")
    BY DEF Outcome
  <2>3. /\ job' = NoJob /\ registry' = [registry EXCEPT ![job.op] = outcome]
        /\ told' = told \/ told' = [told EXCEPT ![job.op] = outcome]
        /\ up' = up /\ asked' = asked
    BY <1>11, <2>2, NothingForgotten DEF Settle, SettleWith, IInv
  <2>4. job'.at = None /\ job'.at \notin Early /\ job'.at \notin Final
    BY <2>3 DEF Early, Final, NoJob, None
  <2>5. /\ finalizing' \in [Ops -> {NoFinalization} \cup JobSet] /\ finalizing'[job.op] = NoFinalization
        /\ \A op \in Ops : op # job.op => finalizing'[op] = finalizing[op]
    <3>1. finalizing \in [Ops -> {NoFinalization} \cup JobSet]
      BY DEF IInv, Types
    <3> QED BY <1>2, <1>11, <3>1
  <2>6. /\ \A op : op # job.op => SameEntries(op) /\ (op \in decided' <=> op \in decided)
        /\ entry \in Entries(memory') /\ \A e \in Entries(memory') : e.op = job.op => e = entry
        /\ (job.op \in decided' <=> job.op \in decided) /\ landed' = landed
        /\ memory'.config = memory.config /\ memory'.open = memory.open
    BY <1>2, <1>5, <2>1, AddedToLedger DEF Added
  <2>7. ConcernsOnly(job.op)
    <3>1. \A op \in Ops : op # job.op => registry'[op] = registry[op] /\ told'[op] = told[op]
      BY <2>3 DEF IInv, Types
    <3> QED BY <1>8, <2>3, <2>5, <2>6, <3>1 DEF ConcernsOnly, SameAgent
  <2>8. Types'
    <3>1. /\ registry' \in [Ops -> {"unknown", "pending", "succeeded", "failed"}]
          /\ told' \in [Ops -> {None, "succeeded", "failed"}]
      BY <2>2, <2>3 DEF IInv, Types
    <3>2. job' \in {NoJob} \cup JobSet /\ asked' = asked /\ up' = up /\ agent' = agent
      BY <1>8, <2>3
    <3>3. stale' \in BOOLEAN /\ landed' \in BOOLEAN /\ decided' \subseteq Ops
      BY <2>1 DEF Added
    <3> QED BY <2>5, <3>1, <3>2, <3>3 DEF IInv, Types
  <2>9. \A op \in Ops : Operation(op)'
    <3>1. ASSUME NEW op \in Ops, op = job.op PROVE Operation(op)'
      <4>1. registry'[op] = outcome /\ told'[op] \in {told[op], outcome} /\ outcome # "unknown"
        BY <1>2, <2>2, <2>3, <3>1 DEF IInv, Types
      <4>2. agent'.txn[op] = NoTransaction /\ (op \in decided' <=> op \in decided) /\ landed' = landed
        BY <1>3, <1>8, <2>6, <3>1
      <4>3. /\ outcome = "succeeded" => op \in decided
            /\ outcome = "failed" => op \notin decided \/ landed
        BY <1>2, <2>2, <3>1 DEF Decisions
      <4> QED BY <4>1, <4>2, <4>3 DEF IInv, Operation, NoTransaction, None
    <3> QED BY <2>7, <3>1, OthersKept
  <2>10. PendingFinalizations'
    <3>1. ASSUME NEW op \in Ops, (finalizing[op] # NoFinalization)' PROVE PendingShape(op, finalizing[op])'
      <4>1. op # job.op
        BY <2>5, <3>1 DEF NoFinalization
      <4> QED BY <2>5, <2>7, <3>1, <4>1, OthersKept DEF NoFinalization
    <3> QED BY <3>1 DEF PendingFinalizations
  <2>11. Queue'
    <3>1. ASSUME NEW final \in asked PROVE FinalShape(final)' /\ final.at \in {"finalize", "acknowledge"}
      <4>1. /\ final.at \in {"finalize", "acknowledge"} /\ FinalShape(final)
            /\ (final.op # job.op => FinalShape(final)')
        BY <2>7, OthersKept
      <4>2. ASSUME final.op = job.op PROVE FinalShape(final)'
        <5>1. PICK f \in Entries(memory) : Matches(final, f)
          BY <4>1 DEF FinalShape
        <5>2. Matches(final, entry)'
          BY <1>5, <1>6, <4>2, <5>1 DEF Matches
        <5>3. final.at = "finalize" => Answered(final)'
          BY <1>3, <1>8, <4>1, <4>2 DEF FinalShape, Answered, NotFinalizing
        <5>4. NotFinalizing(final.op)'
          BY <2>5, <4>2 DEF NotFinalizing, NoFinalization
        <5> QED BY <1>5, <2>6, <4>1, <5>2, <5>3, <5>4 DEF FinalShape
      <4> QED BY <4>1, <4>2
    <3>2. /\ up' = "serving" => \A op \in Ops : finalizing'[op].at # "forget"
          /\ up' = "restoring" => \A op \in Ops : finalizing'[op].at # "finalize"
      <4>1. NoFinalization.at = None /\ None # "forget" /\ None # "finalize"
        BY DEF NoFinalization, NoJob, None
      <4> QED BY <1>2, <2>3, <2>5, <4>1 DEF IInv, Queue
    <3> QED BY <1>2, <2>3, <2>4, <3>1, <3>2 DEF IInv, Queue
  <2>12. UnderWay'
    <3>1. ASSUME NEW f \in Entries(memory'), Unsettled(f) PROVE finalizing'[f.op] # NoFinalization
      <4>1. f.op # job.op
        BY <1>7, <2>6, <3>1
      <4>2. f \in Entries(memory)
        BY <2>6, <4>1 DEF SameEntries
      <4>3. f.op \in Ops
        BY <1>2, <4>2, EntryFacts DEF EntrySet
      <4> QED BY <1>2, <2>5, <3>1, <4>1, <4>2, <4>3 DEF IInv, UnderWay
    <3> QED BY <3>1 DEF UnderWay
  <2>13. Follows'
    <3>1. ASSUME NEW s \in Sessions, memory'.open[s], agent'.config[s] # memory'.config[s]
          PROVE  \E op \in Ops : /\ finalizing'[op] # NoFinalization /\ finalizing'[op].session = s
                                 /\ finalizing'[op].at = "finalize" /\ finalizing'[op].decision = "commit"
                                 /\ agent'.txn[op].status = "prepared"
      <4>1. PICK op \in Ops : /\ finalizing[op] # NoFinalization /\ finalizing[op].session = s
                              /\ finalizing[op].at = "finalize" /\ finalizing[op].decision = "commit"
                              /\ agent.txn[op].status = "prepared"
        BY <1>2, <1>8, <2>6, <3>1 DEF IInv, Follows
      <4>2. op # job.op
        BY <1>3, <4>1 DEF NotFinalizing
      <4> QED BY <1>8, <2>5, <4>1, <4>2
    <3> QED BY <3>1 DEF Follows
  <2>14. Stored'
    BY <2>1 DEF Added
  <2> QED BY <2>8, <2>9, <2>10, <2>11, <2>12, <2>13, <2>14 DEF IInv
<1> QED BY <1>9, <1>10, <1>11

-----------------------------------------------------------------------------
(* The other steps. *)

LEMMA AskKeeps ==
  ASSUME IInv, NEW op \in Ops, Ask(op)
  PROVE  IInv'
<1>1. /\ up = "serving" /\ told[op] = None
      /\ disk' = disk /\ memory' = memory /\ stale' = stale /\ late' = late /\ landed' = landed
      /\ decided' = decided /\ up' = up /\ job' = job /\ finalizing' = finalizing /\ registry' = registry
      /\ agent' = agent
  BY DEF Ask, store
<1>2. \/ finalizing[op] # NoFinalization /\ asked' = asked \cup {finalizing[op]} /\ told' = told
      \/ /\ finalizing[op] = NoFinalization /\ registry[op] \in {"succeeded", "failed"}
         /\ told' = [told EXCEPT ![op] = registry[op]] /\ asked' = asked
  BY DEF Ask
<1>3. Types'
  <2>1. told' \in [Ops -> {None, "succeeded", "failed"}] /\ asked' \subseteq JobSet
    BY <1>2 DEF IInv, Types
  <2> QED BY <1>1, <2>1 DEF IInv, Types
<1>4. \A other \in Ops : told'[other] = told[other]
                         \/ (other = op /\ registry[op] \in {"succeeded", "failed"} /\ told'[op] = registry[op])
  BY <1>2 DEF IInv, Types
<1>5. \A other \in Ops : Operation(other)'
  BY <1>1, <1>4 DEF IInv, Operation
<1>6. job.at \in Early => EarlyShape'
  <2>1. SUFFICES ASSUME job.at \in Early PROVE EarlyShape'
    OBVIOUS
  <2>2. EarlyShape /\ job.op \in Ops
    BY <2>1, EarlyFacts, JobFacts DEF IInv
  <2>3. told'[job.op] = None
    BY <1>4, <2>2 DEF EarlyShape
  <2> QED BY <1>1, <2>2, <2>3 DEF EarlyShape, PendingIn, Matches
<1>7. \A final : FinalShape(final) => FinalShape(final)'
  <2>1. ASSUME NEW final, FinalShape(final) PROVE FinalShape(final)'
    BY <1>1, <2>1 DEF FinalShape, Answered, NotFinalizing, Matches, NoFinalization
  <2> QED BY <2>1
<1>8. \A final \in asked' : FinalShape(final) /\ final.at \in {"finalize", "acknowledge"}
  <2>1. ASSUME NEW final, final = finalizing[op], final # NoFinalization
        PROVE  FinalShape(final) /\ final.at \in {"finalize", "acknowledge"}
    <3>1. PendingShape(op, final) /\ final.op = op /\ final.at \in {"finalize", "acknowledge"}
      BY <1>1, <2>1 DEF IInv, PendingFinalizations, PendingShape, Queue
    <3>2. PICK e \in Entries(memory) : Matches(final, e) /\ e.status \in StatusAt(final.at)
      BY <3>1 DEF PendingShape
    <3>3. final.at = "acknowledge" => e.status = "completed"
      BY <3>2 DEF StatusAt
    <3>4. final.at \in Final
      BY <3>1 DEF Final
    <3> QED BY <2>1, <3>1, <3>2, <3>3, <3>4 DEF FinalShape, NotFinalizing
  <2> QED BY <1>2, <2>1 DEF IInv, Queue
<1>9. Queue'
  <2>1. \A final \in asked' : FinalShape(final)' /\ final.at \in {"finalize", "acknowledge"}
    BY <1>7, <1>8
  <2>2. job'.at \in Final => FinalShape(job)'
    <3>1. PICK final : final = job
      OBVIOUS
    <3>2. final.at \in Final => FinalShape(final)'
      BY <1>7, <3>1 DEF IInv, Queue
    <3> QED BY <1>1, <3>1, <3>2
  <2> QED BY <1>1, <1>6, <2>1, <2>2 DEF IInv, Queue
<1>10. PendingFinalizations'
  BY <1>1 DEF IInv, PendingFinalizations, PendingShape, Matches, StatusAt, NoFinalization
<1>11. Stored' /\ UnderWay' /\ Follows'
  BY <1>1 DEF IInv, Stored, UnderWay, Follows
<1> QED BY <1>3, <1>5, <1>9, <1>10, <1>11 DEF IInv

\* Steps that change nothing but which job runs, and whether the Host serves.
LEMMA OnlyTheQueue ==
  ASSUME IInv, UNCHANGED <<store, finalizing, registry, agent, told>>
  PROVE  /\ Stored' /\ PendingFinalizations' /\ \A op \in Ops : Operation(op)'
         /\ \A final : FinalShape(final) => FinalShape(final)'
<1>1. /\ disk' = disk /\ memory' = memory /\ stale' = stale /\ late' = late /\ landed' = landed
      /\ decided' = decided /\ finalizing' = finalizing /\ registry' = registry /\ agent' = agent /\ told' = told
  BY DEF store
<1>2. Stored' /\ \A op \in Ops : Operation(op)'
  BY <1>1 DEF IInv, Stored, Operation
<1>3. PendingFinalizations'
  BY <1>1 DEF IInv, PendingFinalizations, PendingShape, Matches, StatusAt, NoFinalization
<1>4. ASSUME NEW final, FinalShape(final) PROVE FinalShape(final)'
  BY <1>1, <1>4 DEF FinalShape, Answered, NotFinalizing, Matches, NoFinalization
<1> QED BY <1>2, <1>3, <1>4

LEMMA RunAskedKeeps ==
  ASSUME IInv, RunAsked
  PROVE  IInv'
<1>1. /\ up = "serving" /\ job = NoJob /\ up' = up
      /\ UNCHANGED <<store, finalizing, registry, agent, told>>
  BY DEF RunAsked
<1>2. PICK final \in asked : job' = final /\ asked' = asked \ {final}
  BY DEF RunAsked
<1>3. /\ Stored' /\ PendingFinalizations' /\ \A op \in Ops : Operation(op)'
      /\ \A f : FinalShape(f) => FinalShape(f)'
  BY <1>1, OnlyTheQueue
<1>4. final \in JobSet /\ FinalShape(final) /\ final.at \in {"finalize", "acknowledge"}
  BY <1>2 DEF IInv, Types, Queue
<1>5. final.at \in Final /\ final.at \notin Early /\ NoJob.at \notin Early
  BY <1>4 DEF Final, Early, NoJob, None
<1>6. Types'
  BY <1>1, <1>2, <1>4 DEF IInv, Types, store
<1>7. Queue'
  <2>1. FinalShape(job)'
    BY <1>2, <1>3, <1>4
  <2>2. \A f \in asked' : FinalShape(f)' /\ f.at \in {"finalize", "acknowledge"}
    BY <1>2, <1>3 DEF IInv, Queue
  <2> QED BY <1>1, <1>2, <1>4, <1>5, <2>1, <2>2 DEF IInv, Queue
<1>8. UnderWay' /\ Follows'
  BY <1>1, <1>2, <1>5 DEF IInv, UnderWay, Follows, store
<1> QED BY <1>3, <1>6, <1>7, <1>8 DEF IInv

LEMMA RestoreNextKeeps ==
  ASSUME IInv, RestoreNext
  PROVE  IInv'
<1>1. /\ up = "restoring" /\ job = NoJob /\ up' = up /\ asked' = asked /\ asked = {}
      /\ UNCHANGED <<store, finalizing, registry, agent, told>>
  BY DEF RestoreNext, IInv, Queue
<1>2. PICK op \in Ops : finalizing[op] # NoFinalization /\ job' = finalizing[op]
  BY DEF RestoreNext
<1>3. PICK final : final = finalizing[op]
  OBVIOUS
<1>4. /\ Stored' /\ PendingFinalizations' /\ \A o \in Ops : Operation(o)'
      /\ \A f : FinalShape(f) => FinalShape(f)'
  BY <1>1, OnlyTheQueue
<1>5. /\ final \in JobSet /\ PendingShape(op, final) /\ final.op = op /\ final.at \in {"acknowledge", "forget"}
  BY <1>1, <1>2, <1>3 DEF IInv, Types, PendingFinalizations, PendingShape, Queue
<1>6. final.at \in Final /\ final.at \notin Early /\ NoJob.at \notin Early
  BY <1>5 DEF Final, Early, NoJob, None
<1>7. Types'
  BY <1>1, <1>2, <1>3, <1>5 DEF IInv, Types, store
<1>8. FinalShape(final)
  <2>1. PICK e \in Entries(memory) : Matches(final, e) /\ e.status \in StatusAt(final.at)
    BY <1>5 DEF PendingShape
  <2>2. final.at = "acknowledge" => e.status = "completed"
    BY <2>1 DEF StatusAt
  <2>3. NotFinalizing(op)
    BY <1>3, <1>5 DEF NotFinalizing
  <2> QED BY <1>5, <1>6, <2>1, <2>2, <2>3 DEF FinalShape, PendingShape
<1>9. Queue'
  <2>1. FinalShape(job)'
    BY <1>2, <1>3, <1>4, <1>8
  <2> QED BY <1>1, <1>2, <1>3, <1>5, <1>6, <2>1 DEF IInv, Queue
<1>10. UnderWay' /\ Follows'
  BY <1>1, <1>2, <1>3, <1>6 DEF IInv, UnderWay, Follows, store
<1> QED BY <1>4, <1>7, <1>9, <1>10 DEF IInv

LEMMA RestoredKeeps ==
  ASSUME IInv, Restored
  PROVE  IInv'
<1>1. /\ up = "restoring" /\ job = NoJob /\ up' = "serving" /\ asked' = asked /\ asked = {} /\ job' = job
      /\ \A op \in Ops : finalizing[op] = NoFinalization
      /\ UNCHANGED <<store, finalizing, registry, agent, told>>
  BY DEF Restored, IInv, Queue
<1>2. Stored' /\ PendingFinalizations' /\ \A op \in Ops : Operation(op)'
  BY <1>1, OnlyTheQueue
<1>3. Types'
  BY <1>1 DEF IInv, Types, store
<1>4. NoJob.at \notin Early /\ NoJob.at \notin Final /\ NoFinalization.at # "forget"
  BY DEF Final, Early, NoJob, NoFinalization, None
<1>5. Queue'
  BY <1>1, <1>4 DEF Queue
<1>6. UnderWay' /\ Follows'
  BY <1>1 DEF IInv, UnderWay, Follows, store
<1> QED BY <1>2, <1>3, <1>5, <1>6 DEF IInv

LEMMA CrashKeeps ==
  ASSUME IInv, Crash
  PROVE  IInv'
<1>1. /\ up' = "down" /\ job' = NoJob /\ asked' = {}
      /\ UNCHANGED <<store, finalizing, registry, agent, told>>
  BY DEF Crash
<1>2. Stored' /\ PendingFinalizations' /\ \A op \in Ops : Operation(op)'
  BY <1>1, OnlyTheQueue
<1>3. Types'
  BY <1>1 DEF IInv, Types, store
<1>4. NoJob.at \notin Early /\ NoJob.at \notin Final
  BY DEF Final, Early, NoJob, None
<1>5. Queue' /\ UnderWay' /\ Follows'
  BY <1>1, <1>4 DEF Queue, UnderWay, Follows
<1> QED BY <1>2, <1>3, <1>5 DEF IInv

LEMMA LandKeeps ==
  ASSUME IInv, Land
  PROVE  IInv'
<1>1. PICK catalog \in late : disk' = catalog /\ decided' = decided \cup Decided(catalog)
  BY DEF Land
<1>2. /\ late' = {} /\ landed' = TRUE /\ memory' = memory /\ stale' = stale
      /\ up' = up /\ job' = job /\ asked' = asked /\ finalizing' = finalizing /\ registry' = registry
      /\ agent' = agent /\ told' = told
  BY DEF Land, host
<1>3. WellFormed(catalog) /\ stale = TRUE
  BY <1>1 DEF IInv, Stored, Types
<1>4. Decided(catalog) \subseteq Ops
  BY <1>3, EntryFacts DEF EntrySet
<1>5. Types'
  BY <1>1, <1>2, <1>4 DEF IInv, Types
<1>6. Stored'
  BY <1>1, <1>2, <1>3 DEF IInv, Stored
<1>7. \A op \in Ops : Operation(op)'
  BY <1>1, <1>2 DEF IInv, Operation
<1>8. PendingFinalizations'
  BY <1>2 DEF IInv, PendingFinalizations, PendingShape, Matches, StatusAt, NoFinalization
<1>9. Queue'
  <2>1. EarlyShape => EarlyShape'
    BY <1>2 DEF EarlyShape, PendingIn, Matches
  <2>2. ASSUME NEW final, FinalShape(final) PROVE FinalShape(final)'
    BY <1>2, <2>2 DEF FinalShape, Answered, NotFinalizing, Matches, NoFinalization
  <2>3. job'.at \in Final => FinalShape(job)'
    <3>1. PICK final : final = job
      OBVIOUS
    <3>2. final.at \in Final => FinalShape(final)'
      BY <2>2, <3>1 DEF IInv, Queue
    <3> QED BY <1>2, <3>1, <3>2
  <2> QED BY <1>2, <2>1, <2>2, <2>3 DEF IInv, Queue
<1>10. UnderWay' /\ Follows'
  BY <1>2 DEF IInv, UnderWay, Follows
<1> QED BY <1>5, <1>6, <1>7, <1>8, <1>9, <1>10 DEF IInv

LEMMA SetOpenKeeps ==
  ASSUME IInv, NEW session \in Sessions, NEW open \in BOOLEAN, NEW config \in Configs \cup {None},
         open => config = memory.config[session], SetOpen(session, open, config)
  PROVE  IInv'
<1>1. PICK next : next = [memory EXCEPT !.open[session] = open]
  OBVIOUS
<1>2. /\ up = "serving" /\ job = NoJob /\ ~PendingIn(session) /\ Persist(next)
      /\ agent' = [agent EXCEPT !.config[session] = config]
      /\ up' = up /\ job' = job /\ asked' = asked /\ finalizing' = finalizing /\ registry' = registry /\ told' = told
  BY <1>1 DEF SetOpen, host
<1>3. WellFormed(memory) /\ agent \in AgentSet
  BY DEF IInv, Stored, Types
<1>4. /\ next \in CatalogSet /\ next.ledger = memory.ledger /\ next.config = memory.config
      /\ next.open = [memory.open EXCEPT ![session] = open]
  BY <1>1, <1>3 DEF WellFormed, CatalogSet
<1>5. Entries(next) = Entries(memory) /\ LedgerOps(next) = LedgerOps(memory) /\ Decided(next) = Decided(memory)
  BY <1>4, SameLedger
<1>6. WellFormed(next)
  BY <1>3, <1>4, <1>5 DEF WellFormed
<1>7. /\ ~stale /\ disk' = next /\ memory' = next /\ stale' = stale /\ late' = late /\ landed' = landed
      /\ decided' = decided /\ late = {} /\ disk = memory
  <2>1. Forgotten(next) = {} /\ Decided(next) \subseteq decided
    BY <1>5 DEF Forgotten, IInv, Stored
  <2> QED BY <1>2, <2>1 DEF Persist, IInv, Stored
<1>8. /\ agent' \in AgentSet /\ agent'.txn = agent.txn /\ agent'.done = agent.done
      /\ agent'.config = [agent.config EXCEPT ![session] = config]
  BY <1>2, <1>3 DEF AgentSet
<1>9. Entries(memory') = Entries(memory) /\ LedgerOps(memory') = LedgerOps(memory) /\ memory'.config = memory.config
  BY <1>4, <1>5, <1>7
<1>10. \A op : SameAgent(op) /\ SameEntries(op)
  BY <1>8, <1>9 DEF SameAgent, SameEntries
<1>11. Types'
  BY <1>2, <1>7, <1>8 DEF IInv, Types
<1>12. Stored'
  BY <1>5, <1>6, <1>7 DEF IInv, Stored
<1>13. \A op \in Ops : Operation(op)'
  BY <1>2, <1>7, <1>10, OperationStays DEF IInv
<1>14. PendingFinalizations'
  <2>1. ASSUME NEW op \in Ops, (finalizing[op] # NoFinalization)' PROVE PendingShape(op, finalizing[op])'
    <3>1. PICK final : final = finalizing[op]
      OBVIOUS
    <3>2. PendingShape(op, final)'
      BY <1>2, <1>9, <1>10, <2>1, <3>1, PendingStays DEF IInv, PendingFinalizations, NoFinalization
    <3> QED BY <1>2, <3>1, <3>2
  <2> QED BY <2>1 DEF PendingFinalizations
<1>15. NoJob.at \notin Early /\ NoJob.at \notin Final
  BY DEF Final, Early, NoJob, None
<1>16. Queue'
  <2>1. \A final \in asked : FinalShape(final)' /\ final.at \in {"finalize", "acknowledge"}
    BY <1>2, <1>10, FinalStays DEF IInv, Queue
  <2> QED BY <1>2, <1>15, <2>1 DEF IInv, Queue
<1>17. UnderWay'
  BY <1>2, <1>9, <1>15 DEF IInv, UnderWay
<1>18. Follows'
  <2>1. ASSUME NEW s \in Sessions, memory'.open[s], agent'.config[s] # memory'.config[s]
        PROVE  s # session /\ memory.open[s] /\ agent.config[s] # memory.config[s]
    <3>1. memory.open \in [Sessions -> BOOLEAN] /\ agent.config \in [Sessions -> Configs \cup {None}]
      BY <1>3 DEF WellFormed, CatalogSet, AgentSet
    <3> QED BY <1>4, <1>7, <1>8, <2>1, <3>1
  <2> QED BY <1>2, <1>8, <2>1 DEF IInv, Follows
<1> QED BY <1>11, <1>12, <1>13, <1>14, <1>16, <1>17, <1>18 DEF IInv

LEMMA StartKeeps ==
  ASSUME IInv, Start
  PROVE  IInv'
<1>1. PICK unsettled : unsettled = {e \in Entries(disk) : e.status # "acknowledged"}
  OBVIOUS
<1>2. /\ up = "down" /\ up' = "restoring" /\ memory' = disk /\ disk' = disk /\ stale' = FALSE /\ late' = {}
      /\ landed' = landed /\ decided' = decided /\ job' = job /\ asked' = asked /\ told' = told
      /\ agent' = [config |-> [s \in Sessions |-> IF disk.open[s] THEN disk.config[s] ELSE None],
                   txn |-> [op \in Ops |-> NoTransaction],
                   done |-> [op \in Ops |-> {}]]
  BY DEF Start
<1>3. /\ WellFormed(disk) /\ job = NoJob /\ asked = {}
      /\ Decided(disk) \subseteq decided /\ (~landed => decided \subseteq Decided(disk))
  BY <1>2 DEF IInv, Stored, Queue
<1>4. /\ Entries(disk) \subseteq EntrySet /\ \A e, f \in Entries(disk) : e.op = f.op => e = f
      /\ \A op : op \in LedgerOps(disk) <=> \E e \in Entries(disk) : e.op = op
      /\ \A op : op \in Decided(disk) <=> \E e \in Entries(disk) : e.op = op /\ e.decision = "commit"
      /\ disk.config \in [Sessions -> Configs] /\ disk.open \in [Sessions -> BOOLEAN]
  BY <1>3, EntryFacts
<1>5. ASSUME NEW op \in Ops
      PROVE  /\ op \notin LedgerOps(disk) => finalizing'[op] = NoFinalization /\ registry'[op] = "unknown"
             /\ \A e \in Entries(disk) : e.op = op =>
                  /\ Unsettled(e) => finalizing'[op] = FinalizationOf(e) /\ registry'[op] = "pending"
                  /\ ~Unsettled(e) => finalizing'[op] = NoFinalization /\ registry'[op] = Outcome(e.decision)
  <2>1. /\ finalizing'[op] = IF \E e \in unsettled : e.op = op
                               THEN FinalizationOf(CHOOSE e \in Entries(disk) : e.op = op) ELSE NoFinalization
        /\ registry'[op] = IF op \notin LedgerOps(disk) THEN "unknown"
                           ELSE IF (CHOOSE e \in Entries(disk) : e.op = op) \in unsettled THEN "pending"
                           ELSE Outcome((CHOOSE e \in Entries(disk) : e.op = op).decision)
    BY <1>1 DEF Start
  <2>2. ASSUME NEW e \in Entries(disk), e.op = op PROVE (CHOOSE f \in Entries(disk) : f.op = op) = e
    BY <1>4, <2>2
  <2>3. \A e \in Entries(disk) : e \in unsettled <=> Unsettled(e)
    BY <1>1 DEF Unsettled
  <2>4. op \notin LedgerOps(disk) => finalizing'[op] = NoFinalization /\ registry'[op] = "unknown"
    BY <1>1, <1>4, <2>1
  <2>5. ASSUME NEW e \in Entries(disk), e.op = op
        PROVE  /\ Unsettled(e) => finalizing'[op] = FinalizationOf(e) /\ registry'[op] = "pending"
               /\ ~Unsettled(e) => finalizing'[op] = NoFinalization /\ registry'[op] = Outcome(e.decision)
    <3>1. (CHOOSE f \in Entries(disk) : f.op = op) = e /\ op \in LedgerOps(disk)
      BY <1>4, <2>2, <2>5
    <3>2. (\E f \in unsettled : f.op = op) <=> Unsettled(e)
      BY <1>1, <1>4, <2>3, <2>5
    <3> QED BY <2>1, <2>3, <3>1, <3>2
  <2> QED BY <2>4, <2>5
<1>6. ASSUME NEW e \in Entries(disk), NEW final, final = FinalizationOf(e)
      PROVE  /\ final \in JobSet /\ final # NoFinalization /\ Matches(final, e)
             /\ final.at = IF e.status = "completed" THEN "acknowledge" ELSE "forget"
  <2>1. e \in EntrySet
    BY <1>4
  <2>2. final = [op |-> e.op, session |-> e.session, config |-> e.config, decision |-> e.decision,
                 at |-> IF e.status = "completed" THEN "acknowledge" ELSE "forget"]
    BY <1>6 DEF FinalizationOf, RestoredStage, Job
  <2>3. final \in JobSet /\ Matches(final, e) /\ final.at = IF e.status = "completed" THEN "acknowledge" ELSE "forget"
    BY <2>1, <2>2 DEF JobSet, EntrySet, Final, Matches
  <2> QED BY <2>3 DEF NoFinalization, NoJob, None
<1>7. ASSUME NEW op \in Ops, finalizing'[op] # NoFinalization
      PROVE  \E e \in Entries(disk) : e.op = op /\ Unsettled(e) /\ finalizing'[op] = FinalizationOf(e)
  BY <1>4, <1>5, <1>7
<1>8. finalizing' \in [Ops -> {NoFinalization} \cup JobSet]
  <2>1. \A op \in Ops : finalizing'[op] \in {NoFinalization} \cup JobSet
    BY <1>6, <1>7
  <2>2. finalizing' = [op \in Ops |-> finalizing'[op]]
    BY DEF Start
  <2> QED BY <2>1, <2>2
<1>9. registry' \in [Ops -> {"unknown", "pending", "succeeded", "failed"}]
  <2>1. \A op \in Ops : registry'[op] \in {"unknown", "pending", "succeeded", "failed"}
    BY <1>4, <1>5 DEF Outcome
  <2>2. registry' = [op \in Ops |-> registry'[op]]
    BY DEF Start
  <2> QED BY <2>1, <2>2
<1>10. /\ agent' \in AgentSet /\ \A op \in Ops : agent'.txn[op] = NoTransaction /\ agent'.done[op] = {}
       /\ \A s \in Sessions : disk.open[s] => agent'.config[s] = disk.config[s]
  <2>1. NoTransaction \in TransactionSet
    BY DEF TransactionSet
  <2> QED BY <1>2, <1>4, <2>1 DEF AgentSet
<1>11. Types'
  BY <1>2, <1>3, <1>8, <1>9, <1>10 DEF IInv, Types
<1>12. Stored'
  BY <1>2, <1>3 DEF Stored
<1>13. ASSUME NEW op \in Ops PROVE Operation(op)'
  <2>1. op \in LedgerOps(memory') => registry'[op] # "unknown"
    BY <1>2, <1>4, <1>5 DEF Outcome
  <2>2. ASSUME registry'[op] \in {"succeeded", "failed"}
        PROVE  \E e \in Entries(disk) : e.op = op /\ (registry'[op] = "succeeded" <=> e.decision = "commit")
    BY <1>4, <1>5, <2>2 DEF Outcome
  <2>3. /\ registry'[op] = "succeeded" => op \in decided'
        /\ registry'[op] = "failed" => op \notin decided' \/ landed'
    BY <1>2, <1>3, <1>4, <2>2
  <2>4. agent'.txn[op] = NoTransaction /\ agent'.done[op] = {}
    BY <1>10
  <2> QED BY <1>2, <2>1, <2>3, <2>4 DEF IInv, Operation, NoTransaction, None
<1>14. PendingFinalizations'
  <2>1. ASSUME NEW op \in Ops, (finalizing[op] # NoFinalization)' PROVE PendingShape(op, finalizing[op])'
    <3>1. PICK e \in Entries(disk) : e.op = op /\ Unsettled(e) /\ finalizing'[op] = FinalizationOf(e)
      BY <1>7, <2>1 DEF NoFinalization, NoJob
    <3>2. PICK final : final = FinalizationOf(e)
      OBVIOUS
    <3>3. /\ Matches(final, e) /\ final.op = op
          /\ final.at = IF e.status = "completed" THEN "acknowledge" ELSE "forget"
      BY <1>6, <3>1, <3>2 DEF Matches
    <3>4. e.status \in {"intent", "pending", "completed"}
      BY <1>4, <3>1 DEF EntrySet, Unsettled
    <3>5. e.status \in StatusAt(final.at)
      BY <3>3, <3>4 DEF StatusAt
    <3>6. PendingShape(op, final)'
      BY <1>2, <1>10, <3>1, <3>3, <3>5 DEF PendingShape, Matches, StatusAt
    <3> QED BY <3>1, <3>2, <3>6
  <2> QED BY <2>1 DEF PendingFinalizations
<1>15. Queue'
  <2>1. NoJob.at = None /\ NoJob.at \notin Early /\ NoJob.at \notin Final
    BY DEF Final, Early, NoJob, None
  <2>2. \A op \in Ops : finalizing'[op].at # "finalize"
    <3>1. ASSUME NEW op \in Ops PROVE finalizing'[op].at # "finalize"
      <4>1. CASE finalizing'[op] = NoFinalization
        BY <4>1 DEF NoFinalization, NoJob, None
      <4>2. CASE finalizing'[op] # NoFinalization
        <5>1. PICK e \in Entries(disk) : finalizing'[op] = FinalizationOf(e)
          BY <1>7, <4>2
        <5>2. PICK final : final = FinalizationOf(e)
          OBVIOUS
        <5>3. final.at # "finalize"
          BY <1>6, <5>2
        <5> QED BY <5>1, <5>2, <5>3
      <4> QED BY <4>1, <4>2
    <3> QED BY <3>1
  <2> QED BY <1>2, <1>3, <2>1, <2>2 DEF Queue
<1>16. UnderWay'
  <2>1. ASSUME NEW e \in Entries(memory'), Unsettled(e) PROVE finalizing'[e.op] # NoFinalization
    <3>1. e \in Entries(disk) /\ e.op \in Ops
      BY <1>2, <1>4 DEF EntrySet
    <3>2. PICK final : final = FinalizationOf(e)
      OBVIOUS
    <3> QED BY <1>5, <1>6, <2>1, <3>1, <3>2
  <2> QED BY <2>1 DEF UnderWay
<1>17. Follows'
  BY <1>2, <1>10 DEF Follows
<1> QED BY <1>11, <1>12, <1>13, <1>14, <1>15, <1>16, <1>17 DEF IInv

-----------------------------------------------------------------------------

LEMMA InitHolds ==
  ASSUME Init
  PROVE  IInv
<1>1. /\ disk \in CatalogSet /\ disk.ledger = <<>> /\ disk.open = [s \in Sessions |-> TRUE]
      /\ disk.config = [s \in Sessions |-> InitialConfig]
  BY ConfigAssumption DEF Init, CatalogSet
<1>2. Len(disk.ledger) = 0 /\ DOMAIN disk.ledger = {} /\ Retained \in Nat \ {0}
  BY <1>1, RetainedAssumption
<1>3. Entries(disk) = {} /\ LedgerOps(disk) = {} /\ Decided(disk) = {}
  <2>1. Entries(disk) = {}
    BY <1>2 DEF Entries, Range
  <2> QED BY <2>1 DEF LedgerOps, Decided
<1>4. WellFormed(disk)
  BY <1>1, <1>2, <1>3 DEF WellFormed, SingleEntries, SingleUnsettled
<1>5. agent \in AgentSet /\ agent.config = disk.config /\ \A op \in Ops : agent.txn[op] = NoTransaction /\ agent.done[op] = {}
  <2>1. NoTransaction \in TransactionSet
    BY DEF TransactionSet
  <2> QED BY <1>1, <2>1, ConfigAssumption DEF Init, AgentSet
<1>6. Types
  BY <1>5 DEF Init, Types
<1>7. Stored
  BY <1>3, <1>4 DEF Init, Stored
<1>8. \A op \in Ops : Operation(op)
  BY <1>3, <1>5 DEF Init, Operation, NoTransaction, None
<1>9. PendingFinalizations
  BY DEF Init, PendingFinalizations
<1>10. Queue
  BY DEF Init, Queue, NoFinalization, NoJob, None, Early, Final
<1>11. UnderWay
  BY <1>3 DEF Init, UnderWay
<1>12. Follows
  BY <1>5 DEF Init, Follows
<1> QED BY <1>6, <1>7, <1>8, <1>9, <1>10, <1>11, <1>12 DEF IInv

LEMMA StutteringKeeps ==
  ASSUME IInv, UNCHANGED vars
  PROVE  IInv'
<1>1. UNCHANGED <<store, finalizing, registry, agent, told>> /\ up' = up /\ job' = job /\ asked' = asked
  BY DEF vars, host
<1>2. /\ Stored' /\ PendingFinalizations' /\ \A op \in Ops : Operation(op)'
      /\ \A final : FinalShape(final) => FinalShape(final)'
  BY <1>1, OnlyTheQueue
<1>3. Types'
  BY <1>1 DEF IInv, Types, store
<1>4. Queue'
  <2>1. EarlyShape => EarlyShape'
    BY <1>1 DEF EarlyShape, PendingIn, Matches, store
  <2>2. job'.at \in Final => FinalShape(job)'
    <3>1. PICK final : final = job
      OBVIOUS
    <3>2. final.at \in Final => FinalShape(final)'
      BY <1>2, <3>1 DEF IInv, Queue
    <3> QED BY <1>1, <3>1, <3>2
  <2> QED BY <1>1, <1>2, <2>1, <2>2 DEF IInv, Queue
<1>5. UnderWay' /\ Follows'
  BY <1>1 DEF IInv, UnderWay, Follows, store
<1> QED BY <1>2, <1>3, <1>4, <1>5 DEF IInv

LEMMA StepKeeps ==
  ASSUME IInv, [Next]_vars
  PROVE  IInv'
<1>1. CASE UNCHANGED vars
  BY <1>1, StutteringKeeps
<1>2. ASSUME NEW op \in Ops, NEW session \in Sessions, NEW config \in Configs, Update(op, session, config)
      PROVE  IInv'
  BY <1>2, UpdateKeeps
<1>3. CASE RecordDirectly
  BY <1>3, RecordDirectlyKeeps
<1>4. CASE PersistIntent
  BY <1>4, PersistIntentKeeps
<1>5. CASE Prepare
  BY <1>5, PrepareKeeps
<1>6. CASE PersistUnprepared
  BY <1>6, PersistUnpreparedKeeps
<1>7. CASE PersistPrepared
  BY <1>7, PersistPreparedKeeps
<1>8. CASE Decide
  BY <1>8, DecideKeeps
<1>9. CASE Finalize
  BY <1>9, FinalizeKeeps
<1>10. CASE PersistCompleted
  BY <1>10, PersistCompletedKeeps
<1>11. CASE Acknowledge
  BY <1>11, AcknowledgeKeeps
<1>12. CASE PersistAcknowledged
  BY <1>12, PersistAcknowledgedKeeps
<1>13. ASSUME NEW op \in Ops, Ask(op) PROVE IInv'
  BY <1>13, AskKeeps
<1>14. CASE RunAsked
  BY <1>14, RunAskedKeeps
<1>15. CASE Land
  BY <1>15, LandKeeps
<1>16. CASE Crash
  BY <1>16, CrashKeeps
<1>17. CASE Start
  BY <1>17, StartKeeps
<1>18. CASE RestoreNext
  BY <1>18, RestoreNextKeeps
<1>19. CASE Restored
  BY <1>19, RestoredKeeps
<1>20. ASSUME NEW session \in Sessions, ReleaseSession(session) \/ MaterializeSession(session) PROVE IInv'
  <2>1. CASE ReleaseSession(session)
    BY <2>1, SetOpenKeeps DEF ReleaseSession
  <2>2. CASE MaterializeSession(session)
    <3>1. PICK config : config = memory.config[session]
      OBVIOUS
    <3>2. config \in Configs /\ SetOpen(session, TRUE, config)
      <4>1. memory.config \in [Sessions -> Configs]
        BY EntryFacts DEF IInv, Stored
      <4> QED BY <2>2, <3>1, <4>1 DEF MaterializeSession, SetOpen
    <3> QED BY <3>1, <3>2, SetOpenKeeps
  <2> QED BY <1>20, <2>1, <2>2
<1> QED BY <1>1, <1>2, <1>3, <1>4, <1>5, <1>6, <1>7, <1>8, <1>9, <1>10, <1>11, <1>12, <1>13, <1>14,
           <1>15, <1>16, <1>17, <1>18, <1>19, <1>20 DEF Next

\* The ledger, the pending finalizations and the Agent's transactions agree at
\* every step of every operation, and after every crash.
THEOREM InductiveInvariant == Spec => []IInv
<1>1. Init => IInv
  BY InitHolds
<1>2. IInv /\ [Next]_vars => IInv'
  BY StepKeeps
<1> QED BY <1>1, <1>2, PTL DEF Spec

\* The backing of an idle Session runs with the configuration the Host holds,
\* for any numbers of Sessions, operations, refused writes and restarts.
THEOREM BackingFollowsHost == Spec => []AgentFollowsHost
<1>1. IInv => AgentFollowsHost
  <2>1. ASSUME IInv, up = "serving", NEW s \in Sessions, memory.open[s], ~PendingIn(s)
        PROVE  agent.config[s] = memory.config[s]
    BY <2>1 DEF IInv, Follows, PendingIn
  <2> QED BY <2>1 DEF AgentFollowsHost
<1> QED BY <1>1, InductiveInvariant, PTL

\* The Agent has not committed what the disk does not say is committed.
THEOREM DecisionBeforeCommit == Spec => []DecisionComesFirst
<1>1. IInv => DecisionComesFirst
  BY DEF IInv, Operation, DecisionComesFirst
<1> QED BY <1>1, InductiveInvariant, PTL

\* The answers to callers agree with the decision on the disk, over restarts.
THEOREM AnswersAreTrue == Spec => []ToldIsTrue
<1>1. IInv => ToldIsTrue
  BY DEF IInv, Operation, ToldIsTrue
<1> QED BY <1>1, InductiveInvariant, PTL

\* What the Agent rolled back is not committed on the disk, while the storage
\* has not written what it had refused.
THEOREM RollbackIsFinal == Spec => []RollbackIsFinalOnceLost
<1>1. IInv => RollbackIsFinalOnceLost
  BY DEF IInv, Operation, RollbackIsFinalOnceLost
<1> QED BY <1>1, InductiveInvariant, PTL

LEMMA PendingIsSingle ==
  ASSUME IInv, NEW s \in Sessions,
         NEW S, S = {op \in Ops : finalizing[op] # NoFinalization /\ finalizing[op].session = s}
  PROVE  Cardinality(S) <= 1
<1>1. ASSUME NEW x \in S, NEW y \in S PROVE x = y
  <2>1. PICK e \in Entries(memory) : e.op = x /\ e.session = s /\ Unsettled(e)
    <3>1. PICK final : final = finalizing[x]
      OBVIOUS
    <3>2. PICK g \in Entries(memory) : Matches(final, g) /\ g.status \in StatusAt(final.at) /\ final.op = x
      BY <3>1 DEF IInv, PendingFinalizations, PendingShape
    <3> QED BY <3>1, <3>2 DEF Matches, StatusAt, Unsettled
  <2>2. PICK f \in Entries(memory) : f.op = y /\ f.session = s /\ Unsettled(f)
    <3>1. PICK final : final = finalizing[y]
      OBVIOUS
    <3>2. PICK g \in Entries(memory) : Matches(final, g) /\ g.status \in StatusAt(final.at) /\ final.op = y
      BY <3>1 DEF IInv, PendingFinalizations, PendingShape
    <3> QED BY <3>1, <3>2 DEF Matches, StatusAt, Unsettled
  <2> QED BY <2>1, <2>2, EntryFacts DEF IInv, Stored
<1>2. S = {} \/ \E x \in S : S = {x}
  BY <1>1
<1>3. CASE S = {}
  BY <1>3, FS_EmptySet
<1>4. CASE \E x \in S : S = {x}
  <2>1. PICK x : S = {x}
    BY <1>4
  <2>2. Cardinality(S) = 1
    BY <2>1, FS_Singleton
  <2> QED BY <2>2
<1> QED BY <1>2, <1>3, <1>4

\* Types, and that a Session has at most one transaction under way.
THEOREM TypeCorrect == Spec => []TypeOK
<1>1. IInv => TypeOK
  <2> SUFFICES ASSUME IInv PROVE TypeOK
    OBVIOUS
  <2>1. ASSUME NEW catalog, WellFormed(catalog) PROVE Catalogs(catalog)
    <3>1. Entries(catalog) \subseteq EntrySet
      BY <2>1, EntryFacts
    <3> QED BY <2>1, <3>1 DEF WellFormed, CatalogSet, Catalogs, EntrySet
  <2>2. Catalogs(disk) /\ Catalogs(memory) /\ \A catalog \in late : Catalogs(catalog)
    BY <2>1 DEF IInv, Stored
  <2>3. job.at \in {None, "record", "intent", "prepare", "unprepared", "prepared", "decide",
                    "finalize", "complete", "acknowledge", "forget"}
    <3>1. NoJob.at = None
      BY DEF NoJob
    <3> QED BY <3>1 DEF IInv, Types, JobSet, Early, Final
  <2>4. agent.config \in [Sessions -> Configs \cup {None}]
    BY DEF IInv, Types, AgentSet
  <2>5. \A s \in Sessions :
          Cardinality({op \in Ops : finalizing[op] # NoFinalization /\ finalizing[op].session = s}) <= 1
    BY PendingIsSingle
  <2> QED BY <2>2, <2>3, <2>4, <2>5 DEF IInv, Types, TypeOK
<1> QED BY <1>1, InductiveInvariant, PTL
=============================================================================
