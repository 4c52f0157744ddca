------------------------------- MODULE SignIn -------------------------------
(***************************************************************************)
(* Sign-in by magic link (gateway auth.go, session.go): a link is sent to   *)
(* an address; following it marks the link, provisions the organisation of  *)
(* the address' domain and the user in one PostgreSQL transaction, and      *)
(* stores a session in Redis.  Requests run concurrently on any gateway,    *)
(* each statement reading what is committed at the time (READ COMMITTED);   *)
(* an insert of a key another open transaction has inserted waits for it.   *)
(***************************************************************************)
EXTENDS Naturals, FiniteSets

CONSTANTS
    Emails,      \* addresses
    DomainOf,    \* the domain of each address
    Links,       \* tokens
    AddressOf,   \* the address each token is sent to
    Requests,    \* GET /auth/verify requests, each served once
    MaxFaults    \* bound on PostgreSQL and Redis errors, gone clients, crashes

ASSUME SignInAssumption ==
    /\ AddressOf \in [Links -> Emails]
    /\ DOMAIN DomainOf = Emails
    /\ MaxFaults \in Nat

Domains == {DomainOf[m] : m \in Emails}
Roles == {"owner", "analyst"}

VARIABLES
    links,      \* each token: "none", "sent", "expired" or "used"
    orgs,       \* committed organisations, one per domain
    users,      \* committed users: [email, role]
    pc, link,   \* where each request is, and the token it carries
    newOrg,     \* requests whose open transaction has inserted their org
    newUser,    \* requests whose open transaction has inserted their user
    role,       \* the role the request has read or chosen
    sessions,   \* Redis: the session each request has stored, if it lives
    faults,
    known       \* history: requests whose user was committed when they began

vars == <<links, orgs, users, pc, link, newOrg, newUser, role, sessions, faults, known>>
store == <<orgs, users>>
txVars == <<newOrg, newUser, role>>

Address(r) == AddressOf[link[r]]
Domain(r) == DomainOf[Address(r)]
UsersOf(d) == {u \in users : DomainOf[u.email] = d}
NoSession == [email |-> "none", role |-> "none"]
Goto(r, l) == pc' = [pc EXCEPT ![r] = l]
At(r, l) == pc[r] = l
Ended == {"done", "denied", "conflict", "fault"}
-----------------------------------------------------------------------------
Init ==
    /\ links = [l \in Links |-> "none"]
    /\ orgs = {} /\ users = {}
    /\ pc = [r \in Requests |-> "idle"]
    /\ link \in [Requests -> Links]
    /\ newOrg = {} /\ newUser = {}
    /\ role = [r \in Requests |-> "none"]
    /\ sessions = [r \in Requests |-> NoSession]
    /\ faults = 0 /\ known = {}

\* POST /auth/magic-link: a token is stored and its link sent.
SendLink(l) ==
    /\ links[l] = "none"
    /\ links' = [links EXCEPT ![l] = "sent"]
    /\ UNCHANGED <<pc, link, sessions, faults, known>>
    /\ UNCHANGED store /\ UNCHANGED txVars

\* Fifteen minutes pass.
ExpireLink(l) ==
    /\ links[l] = "sent"
    /\ links' = [links EXCEPT ![l] = "expired"]
    /\ UNCHANGED <<pc, link, sessions, faults, known>>
    /\ UNCHANGED store /\ UNCHANGED txVars

\* The link is followed: its token is looked up.
Load(r) ==
    /\ At(r, "idle") /\ links[link[r]] # "none"
    /\ Goto(r, IF links[link[r]] = "sent" THEN "consume" ELSE "denied")
    /\ known' = IF \E u \in users : u.email = Address(r) THEN known \cup {r} ELSE known
    /\ UNCHANGED <<links, link, sessions, faults>>
    /\ UNCHANGED store /\ UNCHANGED txVars

\* The token is marked; an error here is logged and the sign-in goes on.
Fault == faults < MaxFaults /\ faults' = faults + 1
Consume(r) ==
    /\ At(r, "consume") /\ Goto(r, "org")
    /\ \/ links' = [links EXCEPT ![link[r]] = "used"] /\ UNCHANGED faults
       \/ Fault /\ UNCHANGED links
    /\ UNCHANGED <<link, sessions, known>>
    /\ UNCHANGED store /\ UNCHANGED txVars

\* The transaction ends without effect and gives up its locks.
RollBack(r) == newOrg' = newOrg \ {r} /\ newUser' = newUser \ {r}

\* Mutant: the organisation is inserted outside the transaction.
FindOrgAutocommit(r) ==
    /\ At(r, "org")
    /\ orgs' = orgs \cup {Domain(r)}
    /\ Goto(r, "user")
    /\ UNCHANGED <<links, users, link, sessions, faults, known>> /\ UNCHANGED txVars

\* SELECT the organisation, or else go on to insert it.
FindOrg(r) ==
    /\ At(r, "org")
    /\ Goto(r, IF Domain(r) \in orgs THEN "user" ELSE "insert org")
    /\ UNCHANGED <<links, link, sessions, faults, known>>
    /\ UNCHANGED store /\ UNCHANGED txVars

\* INSERT INTO orgs: waits for an open transaction that has inserted the same
\* domain, and fails when the domain has been committed meanwhile.
InsertOrg(r) ==
    /\ At(r, "insert org")
    /\ \A q \in newOrg : Domain(q) # Domain(r)
    /\ IF Domain(r) \in orgs
       THEN Goto(r, "conflict") /\ RollBack(r)
       ELSE Goto(r, "user") /\ newOrg' = newOrg \cup {r} /\ UNCHANGED newUser
    /\ UNCHANGED <<links, link, role, sessions, faults, known>> /\ UNCHANGED store

\* Mutant: the user is always inserted.
FindUserNever(r) ==
    /\ At(r, "user") /\ Goto(r, "role")
    /\ UNCHANGED <<links, link, sessions, faults, known>>
    /\ UNCHANGED store /\ UNCHANGED txVars

\* Mutant: the role of a known user is not read.
FindUserKeepsRole(r) ==
    /\ At(r, "user")
    /\ Goto(r, IF \E u \in users : u.email = Address(r) THEN "commit" ELSE "role")
    /\ UNCHANGED <<links, link, sessions, faults, known>>
    /\ UNCHANGED store /\ UNCHANGED txVars

\* SELECT the user: a known one keeps its role and only commits.
FindUser(r) ==
    /\ At(r, "user")
    /\ \/ \E u \in users : /\ u.email = Address(r)
                           /\ role' = [role EXCEPT ![r] = u.role]
                           /\ Goto(r, "commit")
       \/ /\ \A u \in users : u.email # Address(r)
          /\ Goto(r, "role") /\ UNCHANGED role
    /\ UNCHANGED <<links, link, newOrg, newUser, sessions, faults, known>>
    /\ UNCHANGED store

\* SELECT EXISTS: the first user of an organisation owns it.
ChooseRole(r) ==
    /\ At(r, "role") /\ Goto(r, "insert user")
    /\ role' = [role EXCEPT ![r] = IF UsersOf(Domain(r)) = {} THEN "owner" ELSE "analyst"]
    /\ UNCHANGED <<links, link, newOrg, newUser, sessions, faults, known>>
    /\ UNCHANGED store

\* INSERT INTO users: waits and fails like InsertOrg.
InsertUser(r) ==
    /\ At(r, "insert user")
    /\ \A q \in newUser : Address(q) # Address(r)
    /\ IF \E u \in users : u.email = Address(r)
       THEN Goto(r, "conflict") /\ RollBack(r)
       ELSE Goto(r, "commit") /\ newUser' = newUser \cup {r} /\ UNCHANGED newOrg
    /\ UNCHANGED <<links, link, role, sessions, faults, known>> /\ UNCHANGED store

\* The transaction's rows become visible together.
Publish(r) ==
    /\ orgs' = IF r \in newOrg THEN orgs \cup {Domain(r)} ELSE orgs
    /\ users' = IF r \in newUser
                THEN users \cup {[email |-> Address(r), role |-> role[r]]} ELSE users

\* Mutant: an error of the commit goes unnoticed.
CommitUnchecked(r) ==
    /\ At(r, "commit") /\ Goto(r, "session") /\ RollBack(r)
    /\ \/ Publish(r) /\ UNCHANGED faults
       \/ Fault /\ UNCHANGED store
    /\ UNCHANGED <<links, link, role, sessions, known>>

\* COMMIT; when its answer is lost the rows are there and the request fails.
Commit(r) ==
    /\ At(r, "commit") /\ RollBack(r) /\ Publish(r)
    /\ \/ Goto(r, "session") /\ UNCHANGED faults
       \/ Goto(r, "fault") /\ Fault
    /\ UNCHANGED <<links, link, role, sessions, known>>

\* The session is stored and its cookie set.
StoreSession(r) ==
    /\ At(r, "session") /\ Goto(r, "done")
    /\ sessions' = [sessions EXCEPT ![r] = [email |-> Address(r), role |-> role[r]]]
    /\ UNCHANGED <<links, link, faults, known>>
    /\ UNCHANGED store /\ UNCHANGED txVars

\* Mutant: an error answers 500 and leaves the transaction open.
BreakLeavesOpen(r) ==
    /\ pc[r] \notin Ended \cup {"idle", "consume"}
    /\ Fault /\ Goto(r, "fault")
    /\ UNCHANGED <<links, link, sessions, known>>
    /\ UNCHANGED store /\ UNCHANGED txVars

\* An error, a client that is gone or a crash: the transaction is rolled back
\* and the request fails, whatever it has already done to the link.
Break(r) ==
    /\ pc[r] \notin Ended \cup {"idle", "consume"}
    /\ Fault /\ Goto(r, "fault") /\ RollBack(r)
    /\ UNCHANGED <<links, link, role, sessions, known>> /\ UNCHANGED store

\* POST /auth/logout, or seven days.
EndSession(r) ==
    /\ sessions[r] # NoSession
    /\ sessions' = [sessions EXCEPT ![r] = NoSession]
    /\ UNCHANGED <<links, pc, link, faults, known>>
    /\ UNCHANGED store /\ UNCHANGED txVars
-----------------------------------------------------------------------------
Provision(r) == \/ FindOrg(r) \/ InsertOrg(r) \/ FindUser(r) \/ ChooseRole(r)
                \/ InsertUser(r) \/ Commit(r)
Verify(r) == Load(r) \/ Consume(r) \/ Provision(r) \/ StoreSession(r)

Next == \/ \E l \in Links : SendLink(l) \/ ExpireLink(l)
        \/ \E r \in Requests : Verify(r) \/ Break(r) \/ EndSession(r)

Spec == Init /\ [][Next]_vars

\* A request the server has begun is carried on.
FairSpec == Spec /\ \A r \in Requests : WF_vars(Verify(r) /\ ~At(r, "idle"))
-----------------------------------------------------------------------------
(* What sign-in must guarantee. *)

\* Every variable has its type.
TypeOK ==
    /\ links \in [Links -> {"none", "sent", "expired", "used"}]
    /\ orgs \subseteq Domains
    /\ users \subseteq [email : Emails, role : Roles]
    /\ pc \in [Requests -> {"idle", "consume", "org", "insert org", "user", "role",
                            "insert user", "commit", "session"} \cup Ended]
    /\ link \in [Requests -> Links]
    /\ newOrg \subseteq Requests /\ newUser \subseteq Requests
    /\ role \in [Requests -> Roles \cup {"none"}]
    /\ sessions \in [Requests -> {NoSession} \cup [email : Emails, role : Roles]]
    /\ faults \in 0 .. MaxFaults
    /\ known \subseteq Requests

\* auth.go:232, under concurrent first sign-ins: an organisation has exactly one
\* owner from the moment it exists, and a user has one row.
OneOwner ==
    /\ \A d \in orgs : Cardinality({u \in UsersOf(d) : u.role = "owner"}) = 1
    /\ \A u, v \in users : u.email = v.email => u = v

\* A live session names a stored user with its stored role.
SessionMatchesUser == \A r \in Requests : sessions[r] # NoSession => sessions[r] \in users

\* Who may do what is settled by what is stored, however sign-ins interleave.
IdentityHolds == OneOwner /\ SessionMatchesUser

\* A request that fails though nothing went wrong was the first sign-in of its
\* user and lost to another one of its organisation, which is stored.
ConflictExcused ==
    \A r \in Requests : At(r, "conflict") => r \notin known /\ UsersOf(Domain(r)) # {}

\* A followed link is answered: no request waits for ever on another's rows.
EveryRequestEnds == \A r \in Requests : ~At(r, "idle") ~> pc[r] \in Ended
-----------------------------------------------------------------------------
(* The inductive invariant behind IdentityHolds and ConflictExcused. *)

\* What is stored: users belong to stored organisations, each of which has one
\* owner, and an address has one row.
StoreInv ==
    /\ \A u \in users : DomainOf[u.email] \in orgs
    /\ \A d \in orgs : \E u \in UsersOf(d) : u.role = "owner"
    /\ \A u, v \in users : u.email = v.email => u = v
    /\ \A u, v \in users :
          /\ DomainOf[u.email] = DomainOf[v.email]
          /\ u.role = "owner" /\ v.role = "owner"
          => u = v

\* Unique keys: no two open transactions have inserted the same one.
LocksInv ==
    /\ \A q, r \in newOrg : Domain(q) = Domain(r) => q = r
    /\ \A q, r \in newUser : Address(q) = Address(r) => q = r

\* A request: what its transaction has inserted is in nobody else's store; its
\* user is to own the organisation exactly when it brings the organisation along,
\* and nothing but that user can be committed with a new organisation.
Found == {"user", "role", "insert user", "commit"}
UserOf(r) == [email |-> Address(r), role |-> role[r]]
RequestOK(r) ==
    /\ r \in newOrg => pc[r] \in Found /\ Domain(r) \notin orgs
    /\ r \in newUser => pc[r] = "commit" /\ \A u \in users : u.email # Address(r)
    /\ pc[r] \in Found /\ r \notin newOrg => Domain(r) \in orgs
    /\ pc[r] = "insert user" \/ r \in newUser
          => role[r] = IF r \in newOrg THEN "owner" ELSE "analyst"
    /\ pc[r] = "commit" /\ r \notin newUser => r \notin newOrg /\ UserOf(r) \in users
    /\ pc[r] = "session" => UserOf(r) \in users
    /\ sessions[r] # NoSession => sessions[r] \in users
    /\ r \in known => /\ pc[r] \notin {"insert org", "role", "insert user", "conflict"}
                      /\ \E u \in users : u.email = Address(r)
    /\ At(r, "conflict") => UsersOf(Domain(r)) # {}

IInv == TypeOK /\ StoreInv /\ LocksInv /\ \A r \in Requests : RequestOK(r)
=============================================================================
