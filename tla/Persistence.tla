------------------------------- MODULE Persistence ------------------------------
(***************************************************************************)
(* The saving of finished runs, services/persistence_service.py, by several*)
(* processes and threads into one PostgreSQL database.                     *)
(*                                                                         *)
(* A save is one transaction: the session row, then for every lead its     *)
(* company, its lead row and its decision makers, then the stage metrics.  *)
(* PostgreSQL runs it at its default level, READ COMMITTED: each SELECT    *)
(* sees what is committed when it runs and the transaction's own writes;   *)
(* a written row stays locked until the transaction ends; whoever writes   *)
(* the same key waits; a cycle of waiters costs one of them its            *)
(* transaction.                                                            *)
(*                                                                         *)
(* A save writes under a session of its own (RunLifecycle,                 *)
(* SessionsNotShared), so runs meet in companies and decision makers only. *)
(* Of a company the merged list of technologies is kept, of a decision     *)
(* maker what finds it: domain, email, LinkedIn URL and title, with        *)
(* Unknown for NULL.  Nothing cleans what was crawled or answered before it*)
(* is saved, and a text with a NUL character in it is one PostgreSQL does  *)
(* not take: of each value it matters whether it is fit to be saved.       *)
(***************************************************************************)
EXTENDS Integers, Sequences, FiniteSets

CONSTANTS
    Savers,         \* the runs that are saved, and their sessions
    Domains,
    Techs,
    Emails, Links, Titles,
    Unknown,        \* NULL
    NoSaver,
    Batches,        \* the scored_leads a run may have
    BadQueries,     \* the batches of runs whose query is not fit to be saved
    MaxCrashes      \* bound on the saves whose process or connection is lost

\* A decision maker; and whether its name or its title is unfit.
Contacts == [email : Emails \cup {Unknown}, link : Links \cup {Unknown}, title : Titles,
             unfit : BOOLEAN]

\* A lead; and which of its two rows has an unfit value (the company's name is in
\* both, the evidence in the lead's only).
Leads == [domain : Domains, techs : SUBSET Techs, people : Seq(Contacts),
          unfit : SUBSET {"company", "lead"}]

ASSUME PersistenceAssumption ==
    /\ Unknown \notin Emails \cup Links
    /\ NoSaver \notin Savers
    /\ Batches \subseteq Seq(Leads)
    /\ BadQueries \subseteq Batches
    /\ MaxCrashes \in Nat

VARIABLES
    batch,          \* what each run saves
    known, techs,   \* committed: the companies, and their technologies
    people,         \* committed: the decision makers
    rows,           \* committed: the leads, as <<session, domain>>
    sessions,       \* committed: the sessions
    lock,           \* who has written each company's row and not ended yet
    step,           \* where each save is
    lead, contact,  \* the lead and the decision maker it has come to
    found,          \* what its last SELECT of a company returned, if anything
    written,        \* uncommitted: the technologies it wrote, for each company
    newPeople,      \* uncommitted: the decision makers it inserted
    newRows,        \* uncommitted: the leads it inserted
    dead,           \* a flush failed: SQLAlchemy's session is of no use
    lost            \* history: the saves that had no connection, or lost it or their process

database == <<known, techs, people, rows, sessions>>
position == <<lead, contact, found>>
unsaved == <<written, newPeople, newRows>>
vars == <<batch, database, lock, step, position, unsaved, dead, lost>>

Ended == {"saved", "failed"}
Steps == {"start", "company", "write", "lead", "person", "insert", "metrics"} \cup Ended

Lead(s) == batch[s][lead[s]]
Domain(s) == Lead(s).domain
Contact(s) == Lead(s).people[contact[s]]

--------------------------------------------------------------------------------

Init ==
    /\ batch \in [Savers -> Batches]
    /\ known \in SUBSET Domains
    /\ techs = [d \in Domains |-> {}]
    /\ people = {} /\ rows = {} /\ sessions = {}
    /\ lock = [d \in Domains |-> NoSaver]
    /\ step = [s \in Savers |-> "start"]
    /\ lead = [s \in Savers |-> 0]
    /\ contact = [s \in Savers |-> 0]
    /\ found = [s \in Savers |-> {}]
    /\ written = [s \in Savers |-> [d \in Domains |-> {}]]
    /\ newPeople = [s \in Savers |-> {}]
    /\ newRows = [s \in Savers |-> {}]
    /\ dead = [s \in Savers |-> FALSE]
    /\ lost = {}

\* The loops over the leads, and over the decision makers of one.
NextLead(s) ==
    /\ lead' = [lead EXCEPT ![s] = @ + 1]
    /\ contact' = [contact EXCEPT ![s] = 0]
    /\ step' = [step EXCEPT ![s] = IF lead[s] < Len(batch[s]) THEN "company" ELSE "metrics"]

NextPerson(s) ==
    IF contact[s] < Len(Lead(s).people)
      THEN /\ contact' = [contact EXCEPT ![s] = @ + 1]
           /\ step' = [step EXCEPT ![s] = "person"]
           /\ UNCHANGED lead
      ELSE NextLead(s)

\* save() finds an engine; the session row is inserted: the session is new.
Start(s) ==
    /\ step[s] = "start" /\ batch[s] \notin BadQueries
    /\ NextLead(s)
    /\ UNCHANGED <<batch, database, lock, found, unsaved, dead, lost>>

\* CompanyRepository.upsert: get() by primary key,
ReadCompany(s) ==
    /\ step[s] = "company" /\ ~dead[s]
    /\ found' = [found EXCEPT ![s] =
                   IF written[s][Domain(s)] # {} THEN written[s][Domain(s)]
                   ELSE IF Domain(s) \in known THEN {techs[Domain(s)]} ELSE {}]
    /\ step' = [step EXCEPT ![s] = "write"]
    /\ UNCHANGED <<batch, database, lock, lead, contact, unsaved, dead, lost>>

\* A row of the lead is sent to the database, which looks at its values first.
Fit(s, row) == row \notin Lead(s).unfit

\* The company's row is locked by another transaction.
Waits(s) == step[s] = "write" /\ Fit(s, "company") /\ lock[Domain(s)] \notin {s, NoSaver}

\* Another run inserted the company after this one had looked for it.
KeyTaken(s) == found[s] = {} /\ Domain(s) \in known

Merged(s) == (UNION found[s]) \cup Lead(s).techs

\* Seeded fault: a row the merge leaves as it was is not updated, and so not locked.
WriteCompanyIfChanged(s) ==
    /\ step[s] = "write" /\ Fit(s, "company") /\ ~Waits(s) /\ ~KeyTaken(s)
    /\ IF found[s] = {Merged(s)}
         THEN UNCHANGED <<written, lock>>
         ELSE /\ written' = [written EXCEPT ![s][Domain(s)] = {Merged(s)}]
              /\ lock' = [lock EXCEPT ![Domain(s)] = s]
    /\ step' = [step EXCEPT ![s] = "lead"]
    /\ UNCHANGED <<batch, database, position, newPeople, newRows, dead, lost>>

\* then INSERT, or UPDATE: updated_at makes sure that the row is written and
\* locked in every case.  SQLAlchemy includes the list of technologies when it
\* changed, be it only in the order, which the merge sorts.
WriteCompany(s) ==
    /\ step[s] = "write" /\ Fit(s, "company") /\ ~Waits(s) /\ ~KeyTaken(s)
    /\ \E listed \in BOOLEAN :
         /\ found[s] # {Merged(s)} => listed
         /\ found[s] # {} /\ Lead(s).techs = {} => ~listed
         /\ written' = IF listed THEN [written EXCEPT ![s][Domain(s)] = {Merged(s)}] ELSE written
    /\ lock' = [lock EXCEPT ![Domain(s)] = s]
    /\ step' = [step EXCEPT ![s] = "lead"]
    /\ UNCHANGED <<batch, database, position, newPeople, newRows, dead, lost>>

\* LeadRepository.upsert: the second lead of a domain overwrites the first.
UpsertLead(s) ==
    /\ step[s] = "lead" /\ Fit(s, "lead")
    /\ newRows' = [newRows EXCEPT ![s] = @ \cup {<<s, Domain(s)>>}]
    /\ NextPerson(s)
    /\ UNCHANGED <<batch, database, lock, found, written, newPeople, dead, lost>>

--------------------------------------------------------------------------------

\* DecisionMakerRepository.upsert: the rows its SELECT matches.
SeenBy(s) == people \cup newPeople[s]

\* Seeded fault: a known email is not looked for.
MatchesIgnoringEmail(s) ==
    {p \in SeenBy(s) : p.domain = Domain(s) /\ p.title = Contact(s).title}

Matches(s) ==
    {p \in SeenBy(s) :
        /\ p.domain = Domain(s)
        /\ IF Contact(s).email # Unknown THEN p.email = Contact(s).email
           ELSE IF Contact(s).link # Unknown THEN p.link = Contact(s).link
           ELSE p.title = Contact(s).title}

Person(s) == [domain |-> Domain(s), email |-> Contact(s).email,
              link |-> Contact(s).link, title |-> Contact(s).title]

\* The unique constraints uq_dm_domain_email and uq_dm_domain_linkedin.
Clash(p, q) ==
    /\ p.domain = q.domain
    /\ \/ p.email # Unknown /\ p.email = q.email
       \/ p.link # Unknown /\ p.link = q.link

\* One match is updated; several are an exception, like every error here
\* swallowed; none means an INSERT.  A SELECT by an unfit title raises too.
SelectPerson(s) ==
    /\ step[s] = "person"
    /\ \/ /\ ~dead[s] /\ Matches(s) = {}
          /\ step' = [step EXCEPT ![s] = "insert"] /\ UNCHANGED <<lead, contact>>
       \/ /\ dead[s] \/ Matches(s) # {} \/ Contact(s).unfit
          /\ NextPerson(s)
    /\ UNCHANGED <<batch, database, lock, found, unsaved, dead, lost>>

\* The INSERT waits for a transaction that inserted a clashing row.
MayInsert(s) ==
    /\ step[s] = "insert" /\ ~Contact(s).unfit
    /\ \A u \in Savers \ {s} : \A q \in newPeople[u] : ~Clash(Person(s), q)

InsertPerson(s) ==
    /\ MayInsert(s)
    /\ \A q \in SeenBy(s) : ~Clash(Person(s), q)
    /\ newPeople' = [newPeople EXCEPT ![s] = @ \cup {Person(s)}]
    /\ NextPerson(s)
    /\ UNCHANGED <<batch, database, lock, found, written, newRows, dead, lost>>

--------------------------------------------------------------------------------

Locked(s) == {d \in Domains : lock[d] = s}

\* Seeded fault: the connection goes back to the pool with its transaction open.
ReleaseForgotten(s) == UNCHANGED lock

Release(s) == lock' = [d \in Domains |-> IF lock[d] = s THEN NoSaver ELSE lock[d]]

\* The transaction ends: its locks and what it has not committed are gone.
EndTransaction(s) ==
    /\ Release(s)
    /\ written' = [written EXCEPT ![s] = [d \in Domains |-> {}]]
    /\ newPeople' = [newPeople EXCEPT ![s] = {}]
    /\ newRows' = [newRows EXCEPT ![s] = {}]

\* flush() raises and rolls the transaction back; the loop over the decision makers
\* swallows the exception and goes on with a session of no use.
FlushFails(s) ==
    /\ EndTransaction(s)
    /\ dead' = [dead EXCEPT ![s] = TRUE]
    /\ NextPerson(s)
    /\ UNCHANGED <<batch, database, found, lost>>

\* An IntegrityError.
InsertClashes(s) ==
    /\ MayInsert(s)
    /\ \E q \in SeenBy(s) : Clash(Person(s), q)
    /\ FlushFails(s)

\* An unfit name or title, in the UPDATE of the match or in the INSERT.
PersonRefused(s) ==
    /\ step[s] \in {"person", "insert"} /\ ~dead[s] /\ Contact(s).unfit
    /\ step[s] = "person" => Matches(s) # {}
    /\ FlushFails(s)

\* db_session.__exit__
Forget(s) ==
    /\ EndTransaction(s)
    /\ dead' = [dead EXCEPT ![s] = FALSE]
    /\ lead' = [lead EXCEPT ![s] = 0]
    /\ contact' = [contact EXCEPT ![s] = 0]
    /\ found' = [found EXCEPT ![s] = {}]

\* The metrics, rows of the run's own session, and the commit.
Commit(s) ==
    /\ step[s] = "metrics" /\ ~dead[s]
    /\ known' = known \cup Locked(s)
    /\ techs' = [d \in Domains |-> IF written[s][d] # {} THEN UNION written[s][d] ELSE techs[d]]
    /\ people' = people \cup newPeople[s]
    /\ rows' = rows \cup newRows[s]
    /\ sessions' = sessions \cup {s}
    /\ step' = [step EXCEPT ![s] = "saved"]
    /\ Forget(s)
    /\ UNCHANGED <<batch, lost>>

Rollback(s) ==
    /\ step' = [step EXCEPT ![s] = "failed"]
    /\ Forget(s)
    /\ UNCHANGED <<batch, database>>

\* Seeded fault: a lead whose company was inserted by another run is skipped.
KeyTakenSkipsLead(s) ==
    /\ step[s] = "write" /\ Fit(s, "company") /\ ~Waits(s) /\ KeyTaken(s)
    /\ NextLead(s)
    /\ UNCHANGED <<batch, database, lock, found, unsaved, dead, lost>>

\* save() catches the exception, rolls back and returns False: the key was taken;
KeyTakenFails(s) ==
    /\ step[s] = "write" /\ Fit(s, "company") /\ ~Waits(s) /\ KeyTaken(s)
    /\ Rollback(s)
    /\ UNCHANGED lost

\* the row of the session, of a company or of a lead has an unfit value;
RowRefused(s) ==
    /\ \/ step[s] = "start" /\ batch[s] \in BadQueries
       \/ step[s] = "write" /\ ~Fit(s, "company")
       \/ step[s] = "lead" /\ ~Fit(s, "lead")
    /\ Rollback(s)
    /\ UNCHANGED lost

\* the first statement outside the decision-maker loop after a failed flush;
DeadFails(s) ==
    /\ dead[s] /\ step[s] \in {"company", "metrics"}
    /\ Rollback(s)
    /\ UNCHANGED lost

\* a cycle of waiters, which PostgreSQL breaks by aborting one of them;
Holder(s) == lock[Domain(s)]

InCycle(s) == \E S \in SUBSET Savers : s \in S /\ (\A u \in S : Waits(u)) /\ {Holder(u) : u \in S} = S

DeadlockFails(s) ==
    /\ InCycle(s)
    /\ Rollback(s)
    /\ UNCHANGED lost

\* or the process or its connection is lost, or there is none to begin with: the
\* pool's timeout is over, or the server does not answer.
Crash(s) ==
    /\ Cardinality(lost) < MaxCrashes
    /\ lost' = lost \cup {s}
    /\ step[s] \notin Ended
    /\ Rollback(s)

--------------------------------------------------------------------------------

Work(s) ==
    \/ ReadCompany(s) \/ WriteCompany(s) \/ UpsertLead(s)
    \/ SelectPerson(s) \/ InsertPerson(s) \/ InsertClashes(s)
    \/ PersonRefused(s)
    \/ Commit(s) \/ KeyTakenFails(s) \/ RowRefused(s) \/ DeadFails(s) \/ DeadlockFails(s)

Next == \E s \in Savers : Start(s) \/ Work(s) \/ Crash(s)

\* A save that has begun goes on.
Spec == Init /\ [][Next]_vars /\ \A s \in Savers : WF_vars(Work(s))

--------------------------------------------------------------------------------

People == [domain : Domains, email : Emails \cup {Unknown}, link : Links \cup {Unknown}, title : Titles]

TypeOK ==
    /\ batch \in [Savers -> Batches]
    /\ known \subseteq Domains
    /\ techs \in [Domains -> SUBSET Techs]
    /\ people \subseteq People
    /\ rows \subseteq Savers \X Domains
    /\ sessions \subseteq Savers
    /\ lock \in [Domains -> Savers \cup {NoSaver}]
    /\ step \in [Savers -> Steps]
    /\ lead \in [Savers -> Nat]
    /\ contact \in [Savers -> Nat]
    /\ \A s \in Savers :
         /\ step[s] \in {"company", "write", "lead", "person", "insert"} => lead[s] \in DOMAIN batch[s]
         /\ step[s] \in {"person", "insert"} => contact[s] \in DOMAIN Lead(s).people
    /\ found \in [Savers -> SUBSET SUBSET Techs]
    /\ written \in [Savers -> [Domains -> SUBSET SUBSET Techs]]
    /\ newPeople \in [Savers -> SUBSET People]
    /\ newRows \in [Savers -> SUBSET (Savers \X Domains)]
    /\ dead \in [Savers -> BOOLEAN]
    /\ lost \subseteq Savers

DomainsOf(s) == {batch[s][i].domain : i \in DOMAIN batch[s]}

\* A run is in the database whole or not at all, whatever failed, clashed or was
\* swallowed on the way: its session row, a lead row for each of its domains, and
\* a company for each lead.
AllOrNothing ==
    \A s \in Savers :
        LET mine == {r[2] : r \in {q \in rows : q[1] = s}} IN
        /\ s \in sessions <=> step[s] = "saved"
        /\ mine = IF step[s] = "saved" THEN DomainsOf(s) ELSE {}
        /\ mine \subseteq known

\* DecisionMakerRepository.upsert looks first and inserts afterwards, without a
\* lock of its own.  No other run can insert the same person in between: the
\* company's row, written before and in every case, keeps the domain to one run.
LookupStillHolds == \A s \in Savers : step[s] = "insert" /\ ~dead[s] => Matches(s) = {}

ContactsOf(s, d) ==
    UNION {{batch[s][i].people[j] : j \in DOMAIN batch[s][i].people} :
             i \in {k \in DOMAIN batch[s] : batch[s][k].domain = d}}

\* The same LinkedIn URL under two emails or titles, found by this run or others.
LinkReused(d) ==
    \E s, u \in Savers : \E c \in ContactsOf(s, d), e \in ContactsOf(u, d) :
        c # e /\ c.link # Unknown /\ c.link = e.link

\* Some value of the run is unfit.
Unfit(s) ==
    \/ batch[s] \in BadQueries
    \/ \E i \in DOMAIN batch[s] :
         \/ batch[s][i].unfit # {}
         \/ \E j \in DOMAIN batch[s][i].people : batch[s][i].people[j].unfit

\* What a run whose leads are not saved has met: another run on one of its
\* companies, a LinkedIn URL that is not unique to a person, a value that is not fit
\* to be saved, or a connection it did not get or lost.  A run that has met none of
\* them is saved, with whatever domains, emails and titles repeated in it.
LossesExplained ==
    \A s \in Savers : step[s] = "failed" =>
        \/ s \in lost
        \/ Unfit(s)
        \/ \E u \in Savers \ {s} : DomainsOf(s) \cap DomainsOf(u) # {}
        \/ \E d \in DomainsOf(s) : LinkReused(d)

\* Every save that begins ends, although runs lock the same companies in the
\* order of their own leads.
SavesEnd == \A s \in Savers : step[s] # "start" ~> step[s] \in Ended

\* "Merge list signals rather than overwrite" (common/db/repositories/companies.py):
\* what a saved run learned about a company is in its row.
TechnologiesKept ==
    \A s \in Savers : step[s] = "saved" =>
        \A i \in DOMAIN batch[s] : batch[s][i].techs \subseteq techs[batch[s][i].domain]

================================================================================
