--------------------------- MODULE PersistenceProofs ---------------------------
(***************************************************************************)
(* Proofs about Persistence for any runs, any leads and any number of lost *)
(* connections: its types, that a save is all or nothing, that nobody      *)
(* inserts a person between another run's SELECT and INSERT, and what a run*)
(* that lost its leads has met.                                            *)
(***************************************************************************)
EXTENDS Persistence, TLAPS

Active == {"company", "write", "lead", "person", "insert", "metrics"}

\* The leads whose rows the save has inserted.
Passed(s) == IF step[s] \in {"person", "insert"} THEN lead[s] ELSE lead[s] - 1

\* Where a save can be: the failed flush leaves only the loop of the decision
\* makers and what follows it, and the metrics follow the last lead.
Position(s) ==
    /\ dead[s] => step[s] \in {"company", "person", "metrics"}
    /\ step[s] = "start" => lead[s] = 0
    /\ step[s] = "metrics" => lead[s] = Len(batch[s]) + 1

\* A company's row is locked by a run that has a lead there, from the write of
\* the company on.
Locking(s) ==
    /\ Locked(s) \subseteq DomainsOf(s)
    /\ step[s] \in {"lead", "person", "insert"} /\ ~dead[s] => lock[Domain(s)] = s

\* What a save has inserted is its own leads, all of them so far, in companies it
\* has locked.
Inserted(s) ==
    /\ \A r \in newRows[s] : r[1] = s /\ lock[r[2]] = s
    /\ step[s] \in Active /\ ~dead[s] =>
          \A i \in 1..Passed(s) : <<s, batch[s][i].domain>> \in newRows[s]

\* The run a decision maker's row comes from.
FromBatch(p, s) ==
    \E c \in ContactsOf(s, p.domain) : c.email = p.email /\ c.link = p.link

SharesDomain(s) == \E u \in Savers \ {s} : DomainsOf(s) \cap DomainsOf(u) # {}

\* What a save knows by itself.
OwnPart(s) ==
    /\ Position(s) /\ Locking(s) /\ Inserted(s)
    /\ \A p \in newPeople[s] : lock[p.domain] = s /\ FromBatch(p, s)
    /\ dead[s] => Unfit(s) \/ \E d \in DomainsOf(s) : LinkReused(d)

\* What it knows of the others.
SharedPart ==
    /\ \A p \in people : \E s \in Savers : FromBatch(p, s)
    /\ \A s \in Savers : step[s] = "write" /\ KeyTaken(s) => SharesDomain(s)

Sound ==
    /\ \A s \in Savers : OwnPart(s)
    /\ SharedPart
    /\ AllOrNothing /\ LookupStillHolds /\ LossesExplained

--------------------------------------------------------------------------------
(***************************************************************************)
(* The types.                                                              *)
(***************************************************************************)

\* What the loops read is a lead and a contact.
LEMMA BatchTypes ==
    ASSUME TypeOK, NEW s \in Savers
    PROVE  /\ batch[s] \in Seq(Leads) /\ Len(batch[s]) \in Nat /\ DOMAIN batch[s] = 1..Len(batch[s])
           /\ \A i \in DOMAIN batch[s] :
                /\ batch[s][i].domain \in Domains /\ batch[s][i].techs \in SUBSET Techs
                /\ batch[s][i].people \in Seq(Contacts)
                /\ Len(batch[s][i].people) \in Nat
                /\ DOMAIN batch[s][i].people = 1..Len(batch[s][i].people)
                /\ \A j \in DOMAIN batch[s][i].people : batch[s][i].people[j] \in Contacts
<1>1. batch[s] \in Seq(Leads)
  BY PersistenceAssumption DEF PersistenceAssumption, TypeOK
<1>2. Len(batch[s]) \in Nat /\ DOMAIN batch[s] = 1..Len(batch[s])
  BY <1>1
<1>3. ASSUME NEW i \in DOMAIN batch[s]
      PROVE  /\ batch[s][i].domain \in Domains /\ batch[s][i].techs \in SUBSET Techs
             /\ batch[s][i].people \in Seq(Contacts)
  <2>1. batch[s][i] \in Leads
    BY <1>1, <1>2
  <2> QED BY <2>1 DEF Leads
<1>4. \A q \in Seq(Contacts) :
        /\ Len(q) \in Nat /\ DOMAIN q = 1..Len(q)
        /\ \A j \in DOMAIN q : q[j] \in Contacts
  OBVIOUS
<1> QED BY <1>1, <1>2, <1>3, <1>4

Looping == {"company", "write", "lead", "person", "insert"}

\* The lead and the decision maker a save has come to are there.
Placed(s) ==
    /\ step[s] \in Looping => lead[s] \in DOMAIN batch[s]
    /\ step[s] \in {"person", "insert"} => contact[s] \in DOMAIN Lead(s).people

LEMMA TypePlaced == TypeOK => \A s \in Savers : Placed(s)
  BY DEF TypeOK, Placed, Looping

\* A step of the loops leaves the other saves where they are, and comes to the
\* next decision maker, the next lead or the metrics.
LEMMA LoopStep ==
    ASSUME TypeOK, NEW s \in Savers, Position(s), UNCHANGED batch,
           \/ step[s] = "start" /\ NextLead(s)
           \/ step[s] \in {"lead", "person", "insert"} /\ NextPerson(s)
    PROVE  /\ step' \in [Savers -> Steps] /\ lead' \in [Savers -> Nat] /\ contact' \in [Savers -> Nat]
           /\ \A u \in Savers : Placed(u)'
           /\ \A u \in Savers \ {s} : step'[u] = step[u] /\ lead'[u] = lead[u] /\ contact'[u] = contact[u]
           /\ step'[s] \in {"company", "person", "metrics"}
           /\ step'[s] = "person" => step[s] # "start" /\ lead'[s] = lead[s]
           /\ step'[s] # "person" => lead'[s] = lead[s] + 1
           /\ step'[s] = "metrics" => lead'[s] = Len(batch[s]) + 1
<1>1. /\ Len(batch[s]) \in Nat /\ DOMAIN batch[s] = 1..Len(batch[s])
      /\ lead[s] \in 0..Len(batch[s]) /\ lead[s] \in Nat
      /\ step[s] \in {"lead", "person", "insert"} => lead[s] \in DOMAIN batch[s]
  BY BatchTypes DEF TypeOK, Position
<1>2. CASE NextLead(s)
  <2>1. /\ step'[s] = IF lead[s] < Len(batch[s]) THEN "company" ELSE "metrics"
        /\ lead'[s] = lead[s] + 1 /\ contact'[s] = 0
        /\ \A u \in Savers \ {s} : step'[u] = step[u] /\ lead'[u] = lead[u] /\ contact'[u] = contact[u]
    BY <1>2 DEF NextLead, TypeOK
  <2>2. step' \in [Savers -> Steps] /\ lead' \in [Savers -> Nat] /\ contact' \in [Savers -> Nat]
    BY <1>2 DEF NextLead, TypeOK, Steps
  <2>3. Placed(s)'
    BY <1>1, <2>1 DEF Placed, Looping
  <2>4. \A u \in Savers \ {s} : Placed(u)'
    BY <2>1, TypePlaced DEF Placed, Lead
  <2> QED BY <1>1, <2>1, <2>2, <2>3, <2>4
<1>3. CASE contact[s] < Len(Lead(s).people) /\ step[s] # "start" /\ ~NextLead(s)
  <2>1. /\ contact' = [contact EXCEPT ![s] = @ + 1] /\ step' = [step EXCEPT ![s] = "person"]
        /\ lead' = lead /\ lead[s] \in DOMAIN batch[s]
    BY <1>1, <1>3 DEF NextPerson
  <2>2. step' \in [Savers -> Steps] /\ lead' \in [Savers -> Nat] /\ contact' \in [Savers -> Nat]
    BY <2>1 DEF TypeOK, Steps
  <2>3. /\ \A u \in Savers \ {s} : step'[u] = step[u] /\ lead'[u] = lead[u] /\ contact'[u] = contact[u]
        /\ step'[s] = "person" /\ lead'[s] = lead[s] /\ contact'[s] = contact[s] + 1 /\ contact[s] \in Nat
    BY <2>1 DEF TypeOK
  <2>4. Placed(s)'
    <3>1. /\ Len(Lead(s).people) \in Nat /\ DOMAIN Lead(s).people = 1..Len(Lead(s).people)
          /\ Lead(s)' = Lead(s)
      BY <2>1, BatchTypes DEF Lead
    <3> QED BY <1>1, <1>3, <2>1, <2>3, <3>1 DEF Placed, Looping
  <2>5. \A u \in Savers \ {s} : Placed(u)'
    BY <2>3, TypePlaced DEF Placed, Lead
  <2> QED BY <1>3, <2>2, <2>3, <2>4, <2>5
<1> QED BY <1>2, <1>3 DEF NextPerson

\* A save that goes to a step outside the loops, or stays where it is in them.
LEMMA PlacedStep ==
    ASSUME TypeOK, NEW s \in Savers, NEW to \in Steps, UNCHANGED <<batch, lead, contact>>,
           step' = [step EXCEPT ![s] = to],
           to \in Looping => step[s] \in Looping,
           to \in {"person", "insert"} => step[s] \in {"person", "insert"}
    PROVE  step' \in [Savers -> Steps] /\ \A u \in Savers : Placed(u)'
  BY TypePlaced DEF TypeOK, Placed, Lead

LEMMA EndTypes ==
    ASSUME TypeOK, NEW s \in Savers, EndTransaction(s)
    PROVE  /\ lock' \in [Domains -> Savers \cup {NoSaver}]
           /\ written' \in [Savers -> [Domains -> SUBSET SUBSET Techs]]
           /\ newPeople' \in [Savers -> SUBSET People]
           /\ newRows' \in [Savers -> SUBSET (Savers \X Domains)]
<1>1. lock' \in [Domains -> Savers \cup {NoSaver}]
  BY DEF TypeOK, EndTransaction, Release
<1>2. [d \in Domains |-> {}] \in [Domains -> SUBSET SUBSET Techs]
  OBVIOUS
<1>3. written' \in [Savers -> [Domains -> SUBSET SUBSET Techs]]
  BY <1>2 DEF TypeOK, EndTransaction
<1>4. newPeople' \in [Savers -> SUBSET People] /\ newRows' \in [Savers -> SUBSET (Savers \X Domains)]
  BY DEF TypeOK, EndTransaction
<1> QED BY <1>1, <1>3, <1>4

\* The end of a save.
LEMMA ForgetTypes ==
    ASSUME TypeOK, NEW s \in Savers, NEW to \in Ended,
           step' = [step EXCEPT ![s] = to], Forget(s), UNCHANGED batch
    PROVE  /\ step' \in [Savers -> Steps] /\ lead' \in [Savers -> Nat] /\ contact' \in [Savers -> Nat]
           /\ \A u \in Savers : Placed(u)'
           /\ found' \in [Savers -> SUBSET SUBSET Techs] /\ dead' \in [Savers -> BOOLEAN]
<1>1. step' \in [Savers -> Steps]
  BY DEF TypeOK, Steps
<1>2. lead' \in [Savers -> Nat] /\ contact' \in [Savers -> Nat]
  BY DEF Forget, TypeOK
<1>3. found' \in [Savers -> SUBSET SUBSET Techs] /\ dead' \in [Savers -> BOOLEAN]
  BY DEF Forget, TypeOK
<1>4. Placed(s)'
  BY DEF TypeOK, Placed, Looping, Ended
<1>5. ASSUME NEW u \in Savers \ {s} PROVE Placed(u)'
  <2>1. step'[u] = step[u] /\ lead'[u] = lead[u] /\ contact'[u] = contact[u]
    BY DEF Forget, TypeOK
  <2> QED BY <2>1, TypePlaced DEF Placed, Lead
<1> QED BY <1>1, <1>2, <1>3, <1>4, <1>5

LEMMA InitTypes == Init => TypeOK
<1> SUFFICES ASSUME Init PROVE TypeOK
  OBVIOUS
<1>1. written \in [Savers -> [Domains -> SUBSET SUBSET Techs]]
  BY DEF Init
<1>2. \A s \in Savers : Placed(s)
  BY DEF Init, Placed, Looping
<1>3. step \in [Savers -> Steps] /\ dead \in [Savers -> BOOLEAN]
  BY DEF Init, Steps
<1> QED BY <1>1, <1>2, <1>3 DEF Init, TypeOK, Placed, Looping

LEMMA StepTypes ==
    ASSUME TypeOK, \A s \in Savers : Position(s), [Next]_vars
    PROVE  TypeOK'
<1>1. ASSUME NEW s \in Savers, Start(s) PROVE TypeOK'
  <2>1. NextLead(s) /\ step[s] = "start" /\ UNCHANGED <<batch, database, lock, found, unsaved, dead, lost>>
    BY <1>1 DEF Start
  <2> QED BY <2>1, LoopStep DEF TypeOK, database, unsaved, Placed, Looping
<1>2. ASSUME NEW s \in Savers, ReadCompany(s) PROVE TypeOK'
  <2>1. Domain(s) \in Domains
    BY <1>2, BatchTypes, TypePlaced DEF ReadCompany, Domain, Lead, Placed, Looping
  <2>2. found' \in [Savers -> SUBSET SUBSET Techs]
    BY <1>2, <2>1 DEF ReadCompany, TypeOK
  <2>3. step' \in [Savers -> Steps] /\ \A u \in Savers : Placed(u)'
    BY <1>2, PlacedStep DEF ReadCompany, Steps, Looping
  <2> QED BY <1>2, <2>2, <2>3 DEF ReadCompany, TypeOK, database, unsaved, Placed, Looping
<1>3. ASSUME NEW s \in Savers, WriteCompany(s) PROVE TypeOK'
  <2>1. Domain(s) \in Domains /\ Lead(s).techs \in SUBSET Techs
    BY <1>3, BatchTypes, TypePlaced DEF WriteCompany, Domain, Lead, Placed, Looping
  <2>2. Merged(s) \in SUBSET Techs
    <3>1. found[s] \in SUBSET SUBSET Techs
      BY DEF TypeOK
    <3> QED BY <2>1, <3>1 DEF Merged
  <2>3. written' \in [Savers -> [Domains -> SUBSET SUBSET Techs]]
    <3>1. /\ {Merged(s)} \in SUBSET SUBSET Techs
          /\ \/ written' = [written EXCEPT ![s] = [@ EXCEPT ![Domain(s)] = {Merged(s)}]]
             \/ written' = written
      BY <1>3, <2>2 DEF WriteCompany
    <3>2. written[s] \in [Domains -> SUBSET SUBSET Techs]
      BY DEF TypeOK
    <3>3. [written[s] EXCEPT ![Domain(s)] = {Merged(s)}] \in [Domains -> SUBSET SUBSET Techs]
      BY <3>1, <3>2
    <3> QED BY <3>1, <3>3 DEF TypeOK
  <2>4. lock' \in [Domains -> Savers \cup {NoSaver}]
    BY <1>3 DEF WriteCompany, TypeOK
  <2>5. step' \in [Savers -> Steps] /\ \A u \in Savers : Placed(u)'
    BY <1>3, PlacedStep DEF WriteCompany, position, Steps, Looping
  <2> QED BY <1>3, <2>3, <2>4, <2>5 DEF WriteCompany, TypeOK, database, position, Placed, Looping
<1>4. ASSUME NEW s \in Savers, UpsertLead(s) PROVE TypeOK'
  <2>1. Domain(s) \in Domains
    BY <1>4, BatchTypes, TypePlaced DEF UpsertLead, Domain, Lead, Placed, Looping
  <2>2. newRows' \in [Savers -> SUBSET (Savers \X Domains)]
    BY <1>4, <2>1 DEF UpsertLead, TypeOK
  <2>3. NextPerson(s) /\ step[s] = "lead" /\ UNCHANGED <<batch, database, lock, found, written, newPeople, dead, lost>>
    BY <1>4 DEF UpsertLead
  <2> QED BY <2>2, <2>3, LoopStep DEF TypeOK, database, Placed, Looping
<1>5. ASSUME NEW s \in Savers, SelectPerson(s) PROVE TypeOK'
  <2>1. step[s] = "person" /\ UNCHANGED <<batch, database, lock, found, unsaved, dead, lost>>
    BY <1>5 DEF SelectPerson
  <2>2. CASE NextPerson(s)
    BY <2>1, <2>2, LoopStep DEF TypeOK, database, unsaved, Placed, Looping
  <2>3. CASE step' = [step EXCEPT ![s] = "insert"] /\ UNCHANGED <<lead, contact>>
    <3>1. step' \in [Savers -> Steps] /\ \A u \in Savers : Placed(u)'
      BY <2>1, <2>3, PlacedStep DEF Steps, Looping
    <3> QED BY <2>1, <2>3, <3>1 DEF TypeOK, database, unsaved, Placed, Looping
  <2> QED BY <1>5, <2>2, <2>3 DEF SelectPerson
<1>6. ASSUME NEW s \in Savers, InsertPerson(s) PROVE TypeOK'
  <2>1. /\ NextPerson(s) /\ step[s] = "insert" /\ UNCHANGED <<batch, database, lock, found, written, newRows, dead, lost>>
        /\ newPeople' = [newPeople EXCEPT ![s] = @ \cup {Person(s)}]
    BY <1>6 DEF InsertPerson, MayInsert
  <2>2. Domain(s) \in Domains /\ Contact(s) \in Contacts
    BY <2>1, BatchTypes, TypePlaced DEF Domain, Contact, Lead, Placed, Looping
  <2>3. Person(s) \in People
    BY <2>2 DEF Person, People, Contacts
  <2>4. newPeople' \in [Savers -> SUBSET People]
    BY <2>1, <2>3 DEF TypeOK
  <2> QED BY <2>1, <2>4, LoopStep DEF TypeOK, database, Placed, Looping
<1>7. ASSUME NEW s \in Savers, InsertClashes(s) \/ PersonRefused(s) PROVE TypeOK'
  <2>1. /\ NextPerson(s) /\ step[s] \in {"person", "insert"}
        /\ UNCHANGED <<batch, database, found, lost>>
        /\ EndTransaction(s) /\ dead' = [dead EXCEPT ![s] = TRUE]
    BY <1>7 DEF InsertClashes, PersonRefused, MayInsert, FlushFails
  <2>2. dead' \in [Savers -> BOOLEAN]
    BY <2>1 DEF TypeOK
  <2> QED BY <2>1, <2>2, LoopStep, EndTypes DEF TypeOK, database, Placed, Looping
<1>8. ASSUME NEW s \in Savers, Commit(s) PROVE TypeOK'
  <2>1. /\ Forget(s) /\ EndTransaction(s) /\ UNCHANGED <<batch, lost>>
        /\ step' = [step EXCEPT ![s] = "saved"] /\ "saved" \in Ended
    BY <1>8 DEF Commit, Forget, Ended
  <2>2. known' \subseteq Domains /\ people' \subseteq People
    BY <1>8 DEF Commit, TypeOK, Locked
  <2>3. rows' \subseteq Savers \X Domains /\ sessions' \subseteq Savers
    BY <1>8 DEF Commit, TypeOK
  <2>4. techs' \in [Domains -> SUBSET Techs]
    <3>1. techs' = [d \in Domains |-> IF written[s][d] # {} THEN UNION written[s][d] ELSE techs[d]]
      BY <1>8 DEF Commit
    <3>2. \A d \in Domains : UNION written[s][d] \in SUBSET Techs /\ techs[d] \in SUBSET Techs
      BY DEF TypeOK
    <3> QED BY <3>1, <3>2
  <2> QED BY <2>1, <2>2, <2>3, <2>4, ForgetTypes, EndTypes DEF TypeOK, Placed, Looping
<1>9. ASSUME NEW s \in Savers, Rollback(s), lost' \subseteq Savers PROVE TypeOK'
  <2>1. /\ Forget(s) /\ EndTransaction(s) /\ UNCHANGED <<batch, database>>
        /\ step' = [step EXCEPT ![s] = "failed"] /\ "failed" \in Ended
    BY <1>9 DEF Rollback, Forget, Ended
  <2> QED BY <1>9, <2>1, ForgetTypes, EndTypes DEF TypeOK, database, Placed, Looping
<1>10. ASSUME NEW s \in Savers, Work(s) \/ Crash(s) PROVE TypeOK'
  <2>1. ASSUME KeyTakenFails(s) \/ RowRefused(s) \/ DeadFails(s) \/ DeadlockFails(s) \/ Crash(s)
        PROVE  Rollback(s) /\ lost' \subseteq Savers
    BY <2>1 DEF KeyTakenFails, RowRefused, DeadFails, DeadlockFails, Crash, TypeOK
  <2> QED BY <1>10, <1>2, <1>3, <1>4, <1>5, <1>6, <1>7, <1>8, <1>9, <2>1 DEF Work
<1>11. CASE UNCHANGED vars
  BY <1>11 DEF vars, database, position, unsaved, TypeOK, Lead
<1> QED BY <1>1, <1>10, <1>11 DEF Next

--------------------------------------------------------------------------------
(***************************************************************************)
(* The invariant.  A step of one save leaves the others' own parts alone;  *)
(* what it does to the shared part is the matter of the lemmas below.      *)
(***************************************************************************)

\* A step of s does not move another save or touch its locks.
Frame(s) ==
    /\ UNCHANGED batch
    /\ \A u \in Savers \ {s} :
         /\ step'[u] = step[u] /\ lead'[u] = lead[u] /\ contact'[u] = contact[u]
         /\ dead'[u] = dead[u] /\ found'[u] = found[u]
         /\ newPeople'[u] = newPeople[u] /\ newRows'[u] = newRows[u]
         /\ \A d \in Domains : lock'[d] = u <=> lock[d] = u

LEMMA BatchKept ==
    ASSUME UNCHANGED batch
    PROVE  /\ \A s \in Savers : DomainsOf(s)' = DomainsOf(s) /\ SharesDomain(s)' = SharesDomain(s)
           /\ \A d : LinkReused(d)' = LinkReused(d)
           /\ \A s, p : FromBatch(p, s)' = FromBatch(p, s)
           /\ \A s : Unfit(s)' = Unfit(s)
  BY DEF DomainsOf, SharesDomain, LinkReused, ContactsOf, FromBatch, Unfit

LEMMA OwnDomain ==
    ASSUME TypeOK, NEW s \in Savers, step[s] \in Looping
    PROVE  Domain(s) \in Domains /\ Domain(s) \in DomainsOf(s)
  BY BatchTypes, TypePlaced DEF Domain, Lead, Placed, DomainsOf

LEMMA OthersKept ==
    ASSUME TypeOK, NEW s \in Savers, Frame(s), NEW u \in Savers \ {s}, OwnPart(u)
    PROVE  OwnPart(u)'
<1>1. /\ step'[u] = step[u] /\ lead'[u] = lead[u] /\ contact'[u] = contact[u] /\ dead'[u] = dead[u]
      /\ newPeople'[u] = newPeople[u] /\ newRows'[u] = newRows[u] /\ batch' = batch
      /\ \A d \in Domains : lock'[d] = u <=> lock[d] = u
  BY DEF Frame
<1>2. Position(u)'
  BY <1>1 DEF OwnPart, Position
<1>3. Locking(u)'
  <2>1. Locked(u)' = Locked(u)
    BY <1>1 DEF Locked
  <2>2. Domain(u)' = Domain(u) /\ (step[u] \in Looping => Domain(u) \in Domains)
    BY <1>1, OwnDomain DEF Domain, Lead
  <2> QED BY <1>1, <2>1, <2>2, BatchKept DEF OwnPart, Locking, Looping
<1>4. Inserted(u)'
  <2>1. \A r \in newRows[u] : r[2] \in Domains
    BY DEF TypeOK
  <2>2. Passed(u)' = Passed(u)
    BY <1>1 DEF Passed
  <2> QED BY <1>1, <2>1, <2>2 DEF OwnPart, Inserted
<1>5. \A p \in newPeople'[u] : lock'[p.domain] = u /\ FromBatch(p, u)'
  <2>1. \A p \in newPeople[u] : p.domain \in Domains
    BY DEF TypeOK, People
  <2> QED BY <1>1, <2>1, BatchKept DEF OwnPart
<1>6. dead'[u] => Unfit(u)' \/ \E d \in DomainsOf(u)' : LinkReused(d)'
  BY <1>1, BatchKept DEF OwnPart
<1> QED BY <1>2, <1>3, <1>4, <1>5, <1>6 DEF OwnPart

\* What a save looks up in the database stays as it was.
LEMMA LookupKept ==
    ASSUME NEW s \in Savers, step'[s] = step[s], UNCHANGED <<batch, people>>,
           lead'[s] = lead[s], contact'[s] = contact[s], newPeople'[s] = newPeople[s]
    PROVE  Matches(s)' = Matches(s)
  BY DEF Matches, SeenBy, Domain, Contact, Lead

\* A step of a save that has begun and does not end with it.
LEMMA WorkingStep ==
    ASSUME TypeOK, Sound, NEW s \in Savers, Frame(s), UNCHANGED <<database, lost>>,
           step[s] \notin Ended, step'[s] \notin Ended, OwnPart(s)',
           step'[s] = "write" => ~KeyTaken(s)',
           step'[s] = "insert" => Matches(s)' = {}
    PROVE  Sound'
<1>1. /\ UNCHANGED <<batch, known, people, rows, sessions>>
      /\ \A u \in Savers \ {s} :
           /\ step'[u] = step[u] /\ lead'[u] = lead[u] /\ contact'[u] = contact[u]
           /\ dead'[u] = dead[u] /\ found'[u] = found[u] /\ newPeople'[u] = newPeople[u]
  BY DEF Frame, database
<1>2. \A u \in Savers : OwnPart(u)'
  BY OthersKept DEF Sound
<1>3. SharedPart'
  <2>1. \A u \in Savers \ {s} : KeyTaken(u)' = KeyTaken(u)
    BY <1>1 DEF KeyTaken, Domain, Lead
  <2> QED BY <1>1, <2>1, BatchKept DEF Sound, SharedPart
<1>4. \A u \in Savers : (step'[u] = "saved" <=> step[u] = "saved") /\ (step'[u] = "failed" => step[u] = "failed")
  BY <1>1 DEF Ended
<1>5. AllOrNothing'
  BY <1>1, <1>4, BatchKept DEF Sound, AllOrNothing
<1>6. LookupStillHolds'
  BY <1>1, LookupKept DEF Sound, LookupStillHolds
<1>7. LossesExplained'
  BY <1>1, <1>4, BatchKept DEF Sound, LossesExplained, SharesDomain
<1> QED BY <1>2, <1>3, <1>5, <1>6, <1>7 DEF Sound

LEMMA StartSound ==
    ASSUME TypeOK, Sound, NEW s \in Savers, Start(s)
    PROVE  Sound'
<1>1. /\ step[s] = "start" /\ NextLead(s) /\ UNCHANGED <<batch, database, lock, found, unsaved, dead, lost>>
      /\ Position(s) /\ OwnPart(s) /\ ~dead[s] /\ lead[s] = 0
  BY DEF Start, Sound, OwnPart, Position
<1>2. /\ \A u \in Savers \ {s} : step'[u] = step[u] /\ lead'[u] = lead[u] /\ contact'[u] = contact[u]
      /\ step'[s] \in {"company", "metrics"} /\ lead'[s] = 1
      /\ step'[s] = "metrics" => lead'[s] = Len(batch[s]) + 1
  BY <1>1, LoopStep
<1>3. Frame(s)
  BY <1>1, <1>2 DEF Frame, unsaved
<1>4. OwnPart(s)'
  <2>1. Passed(s)' = 0
    BY <1>2 DEF Passed
  <2>2. Position(s)' /\ Locking(s)' /\ Inserted(s)'
    BY <1>1, <1>2, <2>1, BatchKept DEF OwnPart, Position, Locking, Locked, Inserted, unsaved
  <2> QED BY <1>1, <2>2, BatchKept DEF OwnPart, unsaved
<1> QED BY <1>1, <1>2, <1>3, <1>4, WorkingStep DEF Ended

LEMMA ReadSound ==
    ASSUME TypeOK, Sound, NEW s \in Savers, ReadCompany(s)
    PROVE  Sound'
<1>1. /\ step[s] = "company" /\ ~dead[s] /\ step' = [step EXCEPT ![s] = "write"]
      /\ UNCHANGED <<batch, database, lock, lead, contact, unsaved, dead, lost>>
      /\ OwnPart(s)
  BY DEF ReadCompany, Sound
<1>2. step'[s] = "write" /\ \A u \in Savers \ {s} : step'[u] = step[u] /\ found'[u] = found[u]
  BY <1>1 DEF ReadCompany, TypeOK
<1>3. Frame(s)
  BY <1>1, <1>2 DEF Frame, unsaved
<1>4. OwnPart(s)'
  <2>1. Passed(s)' = Passed(s)
    BY <1>1, <1>2 DEF Passed
  <2>2. Position(s)' /\ Locking(s)'
    BY <1>1, <1>2, BatchKept DEF OwnPart, Position, Locking, Locked
  <2>3. Inserted(s)'
    BY <1>1, <1>2, <2>1 DEF OwnPart, Inserted, Active, unsaved
  <2> QED BY <1>1, <2>2, <2>3, BatchKept DEF OwnPart, unsaved
<1>5. ~KeyTaken(s)'
  <2>1. found'[s] = {} => Domain(s) \notin known
    BY DEF ReadCompany, TypeOK
  <2>2. Domain(s)' = Domain(s) /\ known' = known
    BY <1>1 DEF Domain, Lead, database
  <2> QED BY <2>1, <2>2 DEF KeyTaken
<1> QED BY <1>1, <1>2, <1>3, <1>4, <1>5, WorkingStep DEF Ended

LEMMA WriteSound ==
    ASSUME TypeOK, Sound, NEW s \in Savers, WriteCompany(s)
    PROVE  Sound'
<1>1. /\ step[s] = "write" /\ lock[Domain(s)] \in {s, NoSaver} /\ step' = [step EXCEPT ![s] = "lead"]
      /\ lock' = [lock EXCEPT ![Domain(s)] = s]
      /\ UNCHANGED <<batch, database, lead, contact, found, newPeople, newRows, dead, lost>>
      /\ OwnPart(s)
  BY DEF WriteCompany, Waits, position, Sound
<1>2. step'[s] = "lead" /\ \A u \in Savers \ {s} : step'[u] = step[u]
  BY <1>1 DEF TypeOK
<1>3. /\ Domain(s) \in Domains /\ Domain(s) \in DomainsOf(s) /\ lock[Domain(s)] \in {s, NoSaver}
      /\ Domain(s)' = Domain(s)
  BY <1>1, OwnDomain DEF Looping, Domain, Lead
<1>4. \A d \in Domains : lock'[d] = IF d = Domain(s) THEN s ELSE lock[d]
  BY <1>1, <1>3 DEF TypeOK
<1>5. Frame(s)
  BY <1>1, <1>2, <1>3, <1>4, PersistenceAssumption DEF Frame, PersistenceAssumption
<1>6. OwnPart(s)'
  <2>1. Passed(s)' = Passed(s)
    BY <1>1, <1>2 DEF Passed
  <2>2. \A d \in Domains : lock[d] = s => lock'[d] = s
    BY <1>4
  <2>3. Position(s)'
    BY <1>1, <1>2 DEF OwnPart, Position
  <2>4. Locking(s)'
    BY <1>1, <1>2, <1>3, <1>4, BatchKept DEF OwnPart, Locking, Locked
  <2>5. Inserted(s)'
    <3>1. \A r \in newRows[s] : r[2] \in Domains
      BY DEF TypeOK
    <3> QED BY <1>1, <1>2, <2>1, <2>2, <3>1 DEF OwnPart, Inserted, Active
  <2>6. \A p \in newPeople'[s] : lock'[p.domain] = s /\ FromBatch(p, s)'
    <3>1. \A p \in newPeople[s] : p.domain \in Domains
      BY DEF TypeOK, People
    <3> QED BY <1>1, <2>2, <3>1, BatchKept DEF OwnPart
  <2> QED BY <1>1, <2>3, <2>4, <2>5, <2>6, BatchKept DEF OwnPart
<1> QED BY <1>1, <1>2, <1>5, <1>6, WorkingStep DEF Ended

\* A step of the loops passes no lead whose row was not inserted.
LEMMA LoopPassed ==
    ASSUME TypeOK, NEW s \in Savers, Position(s), UNCHANGED batch,
           step[s] \in {"lead", "person", "insert"}, NextPerson(s)
    PROVE  /\ Passed(s)' = lead[s] /\ lead[s] \in Nat
           /\ step[s] \in {"person", "insert"} => Passed(s) = lead[s]
           /\ Position(s)' <=> (dead'[s] => step'[s] \in {"company", "person", "metrics"})
           /\ step'[s] = "person" => Domain(s)' = Domain(s)
           /\ step'[s] \in {"company", "person", "metrics"}
           /\ \A u \in Savers \ {s} : step'[u] = step[u] /\ lead'[u] = lead[u] /\ contact'[u] = contact[u]
<1>1. /\ step'[s] \in {"company", "person", "metrics"} /\ lead[s] \in Nat
      /\ step'[s] = "person" => lead'[s] = lead[s]
      /\ step'[s] # "person" => lead'[s] = lead[s] + 1
      /\ step'[s] = "metrics" => lead'[s] = Len(batch[s]) + 1
      /\ \A u \in Savers \ {s} : step'[u] = step[u] /\ lead'[u] = lead[u] /\ contact'[u] = contact[u]
  BY LoopStep DEF TypeOK
<1>2. Passed(s)' = lead[s] /\ (step[s] \in {"person", "insert"} => Passed(s) = lead[s])
  BY <1>1 DEF Passed
<1> QED BY <1>1, <1>2 DEF Position, Domain, Lead

LEMMA UpsertLeadSound ==
    ASSUME TypeOK, Sound, NEW s \in Savers, UpsertLead(s)
    PROVE  Sound'
<1>1. /\ step[s] = "lead" /\ NextPerson(s)
      /\ newRows' = [newRows EXCEPT ![s] = @ \cup {<<s, Domain(s)>>}]
      /\ UNCHANGED <<batch, database, lock, found, written, newPeople, dead, lost>>
      /\ OwnPart(s) /\ Position(s) /\ ~dead[s]
  BY DEF UpsertLead, Sound, OwnPart, Position
<1>2. /\ Passed(s)' = lead[s] /\ lead[s] \in Nat
      /\ Position(s)' <=> (dead'[s] => step'[s] \in {"company", "person", "metrics"})
      /\ step'[s] = "person" => Domain(s)' = Domain(s)
      /\ step'[s] \in {"company", "person", "metrics"}
      /\ \A u \in Savers \ {s} : step'[u] = step[u] /\ lead'[u] = lead[u] /\ contact'[u] = contact[u]
  BY <1>1, LoopPassed
<1>3. /\ newRows'[s] = newRows[s] \cup {<<s, Domain(s)>>}
      /\ \A u \in Savers \ {s} : newRows'[u] = newRows[u]
  BY <1>1 DEF TypeOK
<1>4. Frame(s)
  BY <1>1, <1>2, <1>3 DEF Frame
<1>5. lock[Domain(s)] = s
  BY <1>1 DEF OwnPart, Locking
<1>6. Locking(s)'
  BY <1>1, <1>2, <1>5, BatchKept DEF OwnPart, Locking, Locked
<1>7. Inserted(s)'
  <2>1. \A r \in newRows'[s] : r[1] = s /\ lock'[r[2]] = s
    BY <1>1, <1>3, <1>5 DEF OwnPart, Inserted
  <2>2. Passed(s) = lead[s] - 1 /\ Domain(s) = batch[s][lead[s]].domain
    BY <1>1 DEF Passed, Domain, Lead
  <2>3. \A i \in 1..lead[s] : i = lead[s] \/ i \in 1..Passed(s)
    BY <1>2, <2>2
  <2>4. ASSUME NEW i \in 1..lead[s] PROVE <<s, batch[s][i].domain>> \in newRows'[s]
    <3>1. CASE i = lead[s]
      BY <1>3, <2>2, <3>1
    <3>2. CASE i \in 1..Passed(s)
      BY <1>1, <1>3, <3>2 DEF OwnPart, Inserted, Active
    <3> QED BY <2>3, <3>1, <3>2
  <2> QED BY <1>1, <1>2, <2>1, <2>4 DEF Inserted
<1>8. OwnPart(s)'
  BY <1>1, <1>2, <1>6, <1>7, BatchKept DEF OwnPart
<1> QED BY <1>1, <1>2, <1>4, <1>8, WorkingStep DEF Ended

LEMMA SelectSound ==
    ASSUME TypeOK, Sound, NEW s \in Savers, SelectPerson(s)
    PROVE  Sound'
<1>1. /\ step[s] = "person" /\ UNCHANGED <<batch, database, lock, found, unsaved, dead, lost>>
      /\ OwnPart(s) /\ Position(s)
  BY DEF SelectPerson, Sound, OwnPart
<1>2. CASE NextPerson(s)
  <2>1. /\ Passed(s)' = lead[s] /\ Passed(s) = lead[s]
        /\ Position(s)' <=> (dead'[s] => step'[s] \in {"company", "person", "metrics"})
        /\ step'[s] = "person" => Domain(s)' = Domain(s)
        /\ step'[s] \in {"company", "person", "metrics"}
        /\ \A u \in Savers \ {s} : step'[u] = step[u] /\ lead'[u] = lead[u] /\ contact'[u] = contact[u]
    BY <1>1, <1>2, LoopPassed
  <2>2. Frame(s)
    BY <1>1, <2>1 DEF Frame, unsaved
  <2>3. Locking(s)' /\ Inserted(s)'
    BY <1>1, <2>1, BatchKept DEF OwnPart, Locking, Locked, Inserted, Active, unsaved
  <2>4. OwnPart(s)'
    BY <1>1, <2>1, <2>3, BatchKept DEF OwnPart, unsaved
  <2> QED BY <1>1, <2>1, <2>2, <2>4, WorkingStep DEF Ended
<1>3. CASE /\ ~dead[s] /\ Matches(s) = {}
           /\ step' = [step EXCEPT ![s] = "insert"] /\ UNCHANGED <<lead, contact>>
  <2>1. step'[s] = "insert" /\ \A u \in Savers \ {s} : step'[u] = step[u]
    BY <1>3 DEF TypeOK
  <2>2. Frame(s)
    BY <1>1, <1>3, <2>1 DEF Frame, unsaved
  <2>3. Passed(s)' = Passed(s) /\ Domain(s)' = Domain(s)
    BY <1>1, <1>3, <2>1 DEF Passed, Domain, Lead
  <2>4. Position(s)'
    BY <1>1, <1>3, <2>1 DEF Position
  <2>5. Locking(s)'
    BY <1>1, <1>3, <2>1, <2>3, BatchKept DEF OwnPart, Locking, Locked
  <2>6. Inserted(s)'
    BY <1>1, <1>3, <2>1, <2>3 DEF OwnPart, Inserted, Active, unsaved
  <2>7. OwnPart(s)'
    BY <1>1, <2>4, <2>5, <2>6, BatchKept DEF OwnPart, unsaved
  <2>8. Matches(s)' = Matches(s)
    BY <1>1, <1>3 DEF Matches, SeenBy, Domain, Contact, Lead, database, unsaved
  <2> QED BY <1>1, <1>3, <2>1, <2>2, <2>7, <2>8, WorkingStep DEF Ended
<1> QED BY <1>2, <1>3 DEF SelectPerson

\* A decision maker comes from the lead it is inserted for.
LEMMA PersonFromBatch ==
    ASSUME TypeOK, NEW s \in Savers, step[s] \in {"person", "insert"}
    PROVE  /\ Contact(s) \in ContactsOf(s, Domain(s)) /\ FromBatch(Person(s), s)
           /\ Contact(s) \in Contacts /\ Domain(s) \in Domains /\ Domain(s) \in DomainsOf(s)
<1>1. lead[s] \in DOMAIN batch[s] /\ contact[s] \in DOMAIN Lead(s).people
  BY TypePlaced DEF Placed, Looping
<1>2. Contact(s) \in ContactsOf(s, Domain(s))
  BY <1>1 DEF ContactsOf, Contact, Domain, Lead
<1>3. Contact(s) \in Contacts
  BY <1>1, BatchTypes DEF Contact, Lead
<1> QED BY <1>2, <1>3, OwnDomain DEF FromBatch, Person, Looping

LEMMA InsertSound ==
    ASSUME TypeOK, Sound, NEW s \in Savers, InsertPerson(s)
    PROVE  Sound'
<1>1. /\ step[s] = "insert" /\ NextPerson(s)
      /\ newPeople' = [newPeople EXCEPT ![s] = @ \cup {Person(s)}]
      /\ UNCHANGED <<batch, database, lock, found, written, newRows, dead, lost>>
      /\ OwnPart(s) /\ Position(s) /\ ~dead[s]
  BY DEF InsertPerson, MayInsert, Sound, OwnPart, Position
<1>2. /\ Passed(s)' = lead[s] /\ Passed(s) = lead[s]
      /\ Position(s)' <=> (dead'[s] => step'[s] \in {"company", "person", "metrics"})
      /\ step'[s] = "person" => Domain(s)' = Domain(s)
      /\ step'[s] \in {"company", "person", "metrics"}
      /\ \A u \in Savers \ {s} : step'[u] = step[u] /\ lead'[u] = lead[u] /\ contact'[u] = contact[u]
  BY <1>1, LoopPassed
<1>3. /\ newPeople'[s] = newPeople[s] \cup {Person(s)}
      /\ \A u \in Savers \ {s} : newPeople'[u] = newPeople[u]
  BY <1>1 DEF TypeOK
<1>4. Frame(s)
  BY <1>1, <1>2, <1>3 DEF Frame
<1>5. Locking(s)' /\ Inserted(s)'
  BY <1>1, <1>2, BatchKept DEF OwnPart, Locking, Locked, Inserted, Active
<1>6. \A p \in newPeople'[s] : lock'[p.domain] = s /\ FromBatch(p, s)'
  <2>1. Person(s).domain = Domain(s) /\ lock[Domain(s)] = s
    BY <1>1 DEF Person, OwnPart, Locking
  <2>2. FromBatch(Person(s), s)
    BY <1>1, PersonFromBatch
  <2> QED BY <1>1, <1>3, <2>1, <2>2, BatchKept DEF OwnPart
<1>7. OwnPart(s)'
  BY <1>1, <1>2, <1>5, <1>6, BatchKept DEF OwnPart
<1> QED BY <1>1, <1>2, <1>4, <1>7, WorkingStep DEF Ended

--------------------------------------------------------------------------------

\* The end of a transaction gives up the locks of s, and no other.
LEMMA EndReleases ==
    ASSUME TypeOK, NEW s \in Savers, EndTransaction(s)
    PROVE  /\ Locked(s)' = {} /\ newPeople'[s] = {} /\ newRows'[s] = {}
           /\ \A u \in Savers \ {s} :
                /\ newPeople'[u] = newPeople[u] /\ newRows'[u] = newRows[u]
                /\ \A d \in Domains : lock'[d] = u <=> lock[d] = u
<1>1. \A d \in Domains : lock'[d] = IF lock[d] = s THEN NoSaver ELSE lock[d]
  BY DEF EndTransaction, Release
<1>2. NoSaver \notin Savers
  BY PersistenceAssumption DEF PersistenceAssumption
<1>3. Locked(s)' = {}
  BY <1>1, <1>2 DEF Locked
<1>4. newPeople'[s] = {} /\ newRows'[s] = {}
  BY DEF EndTransaction, TypeOK
<1>5. \A u \in Savers \ {s} : newPeople'[u] = newPeople[u] /\ newRows'[u] = newRows[u]
  BY DEF EndTransaction, TypeOK
<1> QED BY <1>1, <1>2, <1>3, <1>4, <1>5

\* A clash is with a row under the same LinkedIn URL and another email: an email
\* would have been found, and so would a URL that comes without one.
LEMMA ClashExplained ==
    ASSUME TypeOK, Sound, NEW s \in Savers, step[s] = "insert",
           NEW q \in SeenBy(s), Clash(Person(s), q)
    PROVE  \E d \in DomainsOf(s) : LinkReused(d)
<1>1. ~dead[s] /\ Matches(s) = {}
  BY DEF Sound, OwnPart, Position, LookupStillHolds
<1>2. /\ q.domain = Domain(s)
      /\ \/ Contact(s).email # Unknown /\ Contact(s).email = q.email
         \/ Contact(s).link # Unknown /\ Contact(s).link = q.link
  BY DEF Clash, Person
<1>3. Contact(s).email = Unknown /\ Contact(s).link # Unknown /\ Contact(s).link = q.link => FALSE
  BY <1>1, <1>2 DEF Matches
<1>4. ~(Contact(s).email # Unknown /\ Contact(s).email = q.email)
  BY <1>1, <1>2 DEF Matches
<1>5. /\ Contact(s).email # Unknown /\ Contact(s).email # q.email
      /\ Contact(s).link # Unknown /\ Contact(s).link = q.link
  BY <1>2, <1>3, <1>4
<1>6. PICK u \in Savers : FromBatch(q, u)
  BY DEF SeenBy, Sound, OwnPart, SharedPart
<1>7. PICK c \in ContactsOf(u, Domain(s)) : c.email = q.email /\ c.link = q.link
  BY <1>2, <1>6 DEF FromBatch
<1>8. Contact(s) \in ContactsOf(s, Domain(s)) /\ Domain(s) \in DomainsOf(s)
  BY PersonFromBatch
<1>9. LinkReused(Domain(s))
  BY <1>5, <1>7, <1>8 DEF LinkReused
<1> QED BY <1>8, <1>9

\* What is unfit where the save has come to is unfit in the run.
LEMMA UnfitHere ==
    ASSUME TypeOK, NEW s \in Savers
    PROVE  /\ step[s] \in {"write", "lead"} /\ Lead(s).unfit # {} => Unfit(s)
           /\ step[s] \in {"person", "insert"} /\ Contact(s).unfit => Unfit(s)
<1>1. step[s] \in Looping => lead[s] \in DOMAIN batch[s]
  BY TypePlaced DEF Placed
<1>2. step[s] \in {"person", "insert"} => contact[s] \in DOMAIN Lead(s).people
  BY TypePlaced DEF Placed
<1> QED BY <1>1, <1>2 DEF Unfit, Lead, Contact, Looping

\* A failed flush leaves the save in the loop, with a reason for what follows.
LEMMA FlushSound ==
    ASSUME TypeOK, Sound, NEW s \in Savers, step[s] \in {"person", "insert"}, FlushFails(s),
           Unfit(s) \/ \E d \in DomainsOf(s) : LinkReused(d)
    PROVE  Sound'
<1>1. /\ NextPerson(s) /\ EndTransaction(s) /\ dead' = [dead EXCEPT ![s] = TRUE]
      /\ UNCHANGED <<batch, database, found, lost>>
      /\ OwnPart(s) /\ Position(s)
  BY DEF FlushFails, Sound, OwnPart
<1>2. /\ Position(s)' <=> (dead'[s] => step'[s] \in {"company", "person", "metrics"})
      /\ step'[s] \in {"company", "person", "metrics"}
      /\ \A u \in Savers \ {s} : step'[u] = step[u] /\ lead'[u] = lead[u] /\ contact'[u] = contact[u]
  BY <1>1, LoopPassed
<1>3. dead'[s] /\ \A u \in Savers \ {s} : dead'[u] = dead[u]
  BY <1>1 DEF TypeOK
<1>4. Frame(s) /\ Locked(s)' = {} /\ newPeople'[s] = {} /\ newRows'[s] = {}
  BY <1>1, <1>2, <1>3, EndReleases DEF Frame
<1>5. OwnPart(s)'
  BY <1>1, <1>2, <1>3, <1>4, BatchKept DEF OwnPart, Locking, Inserted
<1> QED BY <1>1, <1>2, <1>4, <1>5, WorkingStep DEF Ended

LEMMA CommitSound ==
    ASSUME TypeOK, Sound, NEW s \in Savers, Commit(s)
    PROVE  Sound'
<1>1. /\ step[s] = "metrics" /\ ~dead[s] /\ step' = [step EXCEPT ![s] = "saved"]
      /\ known' = known \cup Locked(s) /\ people' = people \cup newPeople[s]
      /\ rows' = rows \cup newRows[s] /\ sessions' = sessions \cup {s}
      /\ Forget(s) /\ EndTransaction(s) /\ UNCHANGED <<batch, lost>>
      /\ OwnPart(s) /\ lead[s] = Len(batch[s]) + 1
  BY DEF Commit, Forget, Sound, OwnPart, Position
<1>2. /\ step'[s] = "saved" /\ ~dead'[s] /\ lead'[s] = 0
      /\ \A u \in Savers \ {s} :
           /\ step'[u] = step[u] /\ lead'[u] = lead[u] /\ contact'[u] = contact[u]
           /\ dead'[u] = dead[u] /\ found'[u] = found[u]
  BY <1>1 DEF Forget, TypeOK
<1>3. Frame(s) /\ Locked(s)' = {} /\ newPeople'[s] = {} /\ newRows'[s] = {}
  BY <1>1, <1>2, EndReleases DEF Frame
<1>4. OwnPart(s)'
  BY <1>1, <1>2, <1>3, BatchKept DEF OwnPart, Position, Locking, Inserted, Active
<1>5. \A u \in Savers : OwnPart(u)'
  BY <1>3, <1>4, OthersKept DEF Sound
<1>6. SharedPart'
  <2>1. \A p \in people' : \E u \in Savers : FromBatch(p, u)'
    BY <1>1, BatchKept DEF Sound, OwnPart, SharedPart
  <2>2. ASSUME NEW u \in Savers, step'[u] = "write", KeyTaken(u)'
        PROVE  SharesDomain(u)'
    <3>1. u # s /\ step[u] = "write" /\ found[u] = {} /\ Domain(u)' = Domain(u) /\ Domain(u) \in known'
      BY <1>1, <1>2, <2>2 DEF KeyTaken, Domain, Lead
    <3>2. CASE Domain(u) \in known
      BY <1>1, <3>1, <3>2, BatchKept DEF Sound, SharedPart, KeyTaken
    <3>3. CASE Domain(u) \in Locked(s)
      <4>1. Domain(u) \in DomainsOf(s) /\ Domain(u) \in DomainsOf(u)
        BY <1>1, <3>1, <3>3, OwnDomain DEF OwnPart, Locking, Looping
      <4> QED BY <1>1, <3>1, <4>1, BatchKept DEF SharesDomain
    <3> QED BY <1>1, <3>1, <3>2, <3>3
  <2> QED BY <2>1, <2>2 DEF SharedPart
<1>7. AllOrNothing'
  <2> SUFFICES ASSUME NEW u \in Savers
               PROVE  LET mine == {r[2] : r \in {q \in rows' : q[1] = u}} IN
                      /\ u \in sessions' <=> step'[u] = "saved"
                      /\ mine = IF step'[u] = "saved" THEN DomainsOf(u) ELSE {}
                      /\ mine \subseteq known'
    BY <1>1, BatchKept DEF AllOrNothing
  <2> DEFINE mine == {r[2] : r \in {q \in rows : q[1] = u}}
             nowMine == {r[2] : r \in {q \in rows' : q[1] = u}}
  <2>1. /\ u \in sessions <=> step[u] = "saved"
        /\ mine = IF step[u] = "saved" THEN DomainsOf(u) ELSE {}
        /\ mine \subseteq known
    BY DEF Sound, AllOrNothing
  <2>2. \A r \in newRows[s] : r[1] = s /\ r[2] \in Locked(s) /\ r[2] \in DomainsOf(s)
    <3>1. \A r \in newRows[s] : r[2] \in Domains
      BY DEF TypeOK
    <3> QED BY <1>1, <3>1 DEF OwnPart, Inserted, Locking, Locked
  <2>3. CASE u # s
    <3>1. nowMine = mine
      BY <1>1, <2>2, <2>3
    <3> QED BY <1>1, <1>2, <2>1, <2>3, <3>1
  <2>4. CASE u = s
    <3>1. mine = {}
      BY <1>1, <2>1, <2>4
    <3>2. \A q \in rows : q[1] # s
      BY <2>4, <3>1
    <3>3. nowMine = {r[2] : r \in newRows[s]}
      BY <1>1, <2>2, <2>4, <3>2
    <3>4. \A i \in DOMAIN batch[s] : <<s, batch[s][i].domain>> \in newRows[s]
      <4>1. DOMAIN batch[s] = 1..Passed(s)
        BY <1>1, BatchTypes DEF Passed
      <4> QED BY <1>1, <4>1 DEF OwnPart, Inserted, Active
    <3>5. ASSUME NEW i \in DOMAIN batch[s]
          PROVE  batch[s][i].domain \in {r[2] : r \in newRows[s]}
      <4>1. <<s, batch[s][i].domain>>[2] = batch[s][i].domain
        OBVIOUS
      <4> QED BY <3>4, <4>1
    <3>6. nowMine = DomainsOf(s)
      BY <2>2, <3>3, <3>5 DEF DomainsOf
    <3>7. nowMine \subseteq known'
      BY <1>1, <2>2, <3>3
    <3> QED BY <1>1, <1>2, <2>4, <3>6, <3>7
  <2> QED BY <2>3, <2>4
<1>8. LookupStillHolds'
  <2> SUFFICES ASSUME NEW u \in Savers, step'[u] = "insert", ~dead'[u]
               PROVE  Matches(u)' = {}
    BY DEF LookupStillHolds
  <2>1. u # s /\ step[u] = "insert" /\ ~dead[u]
    BY <1>2
  <2>2. Matches(u) = {} /\ lock[Domain(u)] = u
    BY <2>1 DEF Sound, LookupStillHolds, OwnPart, Locking
  <2>3. \A p \in newPeople[s] : p.domain # Domain(u)
    BY <1>1, <2>1, <2>2 DEF OwnPart
  <2>4. Domain(u)' = Domain(u) /\ Contact(u)' = Contact(u)
    BY <1>1, <1>2, <2>1 DEF Domain, Contact, Lead
  <2>5. SeenBy(u)' = SeenBy(u) \cup newPeople[s]
    BY <1>1, <1>3, <2>1 DEF SeenBy, Frame
  <2> QED BY <2>2, <2>3, <2>4, <2>5 DEF Matches
<1>9. LossesExplained'
  BY <1>1, <1>2, BatchKept DEF Sound, LossesExplained, SharesDomain
<1> QED BY <1>5, <1>6, <1>7, <1>8, <1>9 DEF Sound

LEMMA RollbackSound ==
    ASSUME TypeOK, Sound, NEW s \in Savers, Rollback(s), step[s] \notin Ended, lost \subseteq lost',
           s \in lost' \/ Unfit(s) \/ SharesDomain(s) \/ \E d \in DomainsOf(s) : LinkReused(d)
    PROVE  Sound'
<1>1. /\ step' = [step EXCEPT ![s] = "failed"] /\ UNCHANGED <<batch, known, people, rows, sessions>>
      /\ Forget(s) /\ EndTransaction(s) /\ OwnPart(s)
  BY DEF Rollback, Forget, database, Sound
<1>2. /\ step'[s] = "failed" /\ ~dead'[s]
      /\ \A u \in Savers \ {s} :
           /\ step'[u] = step[u] /\ lead'[u] = lead[u] /\ contact'[u] = contact[u]
           /\ dead'[u] = dead[u] /\ found'[u] = found[u]
  BY <1>1 DEF Forget, TypeOK
<1>3. Frame(s) /\ Locked(s)' = {} /\ newPeople'[s] = {} /\ newRows'[s] = {}
  BY <1>1, <1>2, EndReleases DEF Frame
<1>4. OwnPart(s)'
  BY <1>1, <1>2, <1>3, BatchKept DEF OwnPart, Position, Locking, Inserted, Active
<1>5. \A u \in Savers : OwnPart(u)'
  BY <1>3, <1>4, OthersKept DEF Sound
<1>6. SharedPart'
  <2>1. \A u \in Savers \ {s} : KeyTaken(u)' = KeyTaken(u)
    BY <1>1, <1>2 DEF KeyTaken, Domain, Lead
  <2> QED BY <1>1, <1>2, <2>1, BatchKept DEF Sound, SharedPart
<1>7. AllOrNothing'
  <2>1. \A u \in Savers : step'[u] = "saved" <=> step[u] = "saved"
    BY <1>2 DEF Ended
  <2> QED BY <1>1, <2>1, BatchKept DEF Sound, AllOrNothing
<1>8. LookupStillHolds'
  BY <1>1, <1>2, <1>3, LookupKept DEF Sound, LookupStillHolds, Frame
<1>9. LossesExplained'
  BY <1>1, <1>2, BatchKept DEF Sound, LossesExplained, SharesDomain
<1> QED BY <1>5, <1>6, <1>7, <1>8, <1>9 DEF Sound

\* Whoever waits for a company shares it with the run that locked it.
LEMMA WaiterShares ==
    ASSUME TypeOK, Sound, NEW s \in Savers, Waits(s)
    PROVE  SharesDomain(s)
<1>1. step[s] = "write" /\ lock[Domain(s)] \notin {s, NoSaver}
  BY DEF Waits
<1>2. Domain(s) \in Domains /\ Domain(s) \in DomainsOf(s)
  BY <1>1, OwnDomain DEF Looping
<1>3. lock[Domain(s)] \in Savers \ {s}
  BY <1>1, <1>2 DEF TypeOK
<1>4. Domain(s) \in DomainsOf(lock[Domain(s)])
  BY <1>2, <1>3 DEF Sound, OwnPart, Locking, Locked
<1> QED BY <1>2, <1>3, <1>4 DEF SharesDomain

LEMMA StepSound ==
    ASSUME TypeOK, Sound, [Next]_vars
    PROVE  Sound'
<1>1. ASSUME NEW s \in Savers, KeyTakenFails(s) PROVE Sound'
  <2>1. step[s] = "write" /\ KeyTaken(s) /\ Rollback(s) /\ lost' = lost
    BY <1>1 DEF KeyTakenFails
  <2>2. SharesDomain(s)
    BY <2>1 DEF Sound, SharedPart
  <2> QED BY <2>1, <2>2, RollbackSound DEF Ended
<1>2. ASSUME NEW s \in Savers, DeadFails(s) PROVE Sound'
  <2>1. dead[s] /\ step[s] \in {"company", "metrics"} /\ Rollback(s) /\ lost' = lost
    BY <1>2 DEF DeadFails
  <2>2. Unfit(s) \/ \E d \in DomainsOf(s) : LinkReused(d)
    BY <2>1 DEF Sound, OwnPart
  <2> QED BY <2>1, <2>2, RollbackSound DEF Ended
<1>3. ASSUME NEW s \in Savers, DeadlockFails(s) PROVE Sound'
  <2>1. Waits(s) /\ step[s] = "write" /\ Rollback(s) /\ lost' = lost
    BY <1>3 DEF DeadlockFails, InCycle, Waits
  <2> QED BY <2>1, WaiterShares, RollbackSound DEF Ended
<1>4. ASSUME NEW s \in Savers, Crash(s) PROVE Sound'
  BY <1>4, RollbackSound DEF Crash
<1>5. CASE UNCHANGED vars
  <2>1. UNCHANGED <<batch, database, lock, step, position, unsaved, dead, lost>>
    BY <1>5 DEF vars
  <2>2. \A s \in Savers : OwnPart(s)'
    BY <2>1, BatchKept
    DEF Sound, OwnPart, Position, Locking, Locked, Inserted, Passed, Domain, Lead, position, unsaved
  <2>3. SharedPart' /\ AllOrNothing'
    BY <2>1, BatchKept
    DEF Sound, SharedPart, KeyTaken, AllOrNothing, Domain, Lead, database, position
  <2>4. LookupStillHolds' /\ LossesExplained'
    BY <2>1, LookupKept, BatchKept
    DEF Sound, LookupStillHolds, LossesExplained, SharesDomain, database, position, unsaved
  <2> QED BY <2>2, <2>3, <2>4 DEF Sound
<1>6. ASSUME NEW s \in Savers, RowRefused(s) PROVE Sound'
  <2>1. /\ step[s] \notin Ended /\ Rollback(s) /\ lost' = lost
        /\ batch[s] \in BadQueries \/ (step[s] \in {"write", "lead"} /\ Lead(s).unfit # {})
    BY <1>6 DEF RowRefused, Fit, Ended
  <2>2. Unfit(s)
    BY <2>1, UnfitHere DEF Unfit
  <2> QED BY <2>1, <2>2, RollbackSound
<1>7. ASSUME NEW s \in Savers, PersonRefused(s) PROVE Sound'
  BY <1>7, UnfitHere, FlushSound DEF PersonRefused
<1>8. ASSUME NEW s \in Savers, InsertClashes(s) PROVE Sound'
  <2>1. step[s] = "insert" /\ FlushFails(s)
    BY <1>8 DEF InsertClashes, MayInsert
  <2>2. \E d \in DomainsOf(s) : LinkReused(d)
    BY <1>8, <2>1, ClashExplained DEF InsertClashes
  <2> QED BY <2>1, <2>2, FlushSound
<1> QED
  BY <1>1, <1>2, <1>3, <1>4, <1>5, <1>6, <1>7, <1>8, StartSound, ReadSound, WriteSound,
     UpsertLeadSound, SelectSound, InsertSound, CommitSound
  DEF Next, Work

LEMMA InitSound == Init => Sound
<1> SUFFICES ASSUME Init PROVE Sound
  OBVIOUS
<1>1. NoSaver \notin Savers
  BY PersistenceAssumption DEF PersistenceAssumption
<1>2. \A s \in Savers : OwnPart(s)
  BY <1>1 DEF Init, OwnPart, Position, Locking, Locked, Inserted, Active
<1>3. SharedPart /\ AllOrNothing /\ LookupStillHolds /\ LossesExplained
  BY DEF Init, SharedPart, AllOrNothing, LookupStillHolds, LossesExplained
<1> QED BY <1>2, <1>3 DEF Sound

LEMMA InvariantHolds == Spec => [](TypeOK /\ Sound)
<1>1. Init => TypeOK /\ Sound
  BY InitTypes, InitSound
<1>2. Sound => \A s \in Savers : Position(s)
  BY DEF Sound, OwnPart
<1>3. TypeOK /\ Sound /\ [Next]_vars => (TypeOK /\ Sound)'
  BY <1>2, StepTypes, StepSound
<1> QED BY <1>1, <1>3, PTL DEF Spec

\* The variables keep their types, for any runs, leads and lost connections.
THEOREM TypeCorrect == Spec => []TypeOK
  BY InvariantHolds, PTL

\* A run is in the database whole or not at all: whatever a save meets, its
\* session, its leads and their companies are committed together or not at all.
THEOREM SavesAreAtomic == Spec => []AllOrNothing
<1>1. Sound => AllOrNothing
  BY DEF Sound
<1> QED BY <1>1, InvariantHolds, PTL

\* Between the SELECT and the INSERT of a decision maker nobody inserts the same
\* person, although the code takes no lock for it.
THEOREM LookupsHoldUntilInserts == Spec => []LookupStillHolds
<1>1. Sound => LookupStillHolds
  BY DEF Sound
<1> QED BY <1>1, InvariantHolds, PTL

\* A run whose leads are not saved shares a company with another run, has a LinkedIn
\* URL that is not unique to a person or a value that is not fit to be saved, or had
\* no connection or lost it: repeated domains, emails and titles, swallowed
\* exceptions and the failed flushes of others cost it nothing by themselves.
THEOREM LossesAreExplained == Spec => []LossesExplained
<1>1. Sound => LossesExplained
  BY DEF Sound
<1> QED BY <1>1, InvariantHolds, PTL

================================================================================
