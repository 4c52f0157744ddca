---------------------------- MODULE SignInProofs ----------------------------
(***************************************************************************)
(* Proofs about SignIn for any addresses, links and number of concurrent    *)
(* requests, and any bound on failures.                                     *)
(***************************************************************************)
EXTENDS SignIn, FiniteSetTheorems, TLAPS

-----------------------------------------------------------------------------
\* A request's link, its address and its domain do not change.
LEMMA AddressType ==
    ASSUME TypeOK, NEW r \in Requests
    PROVE  Address(r) \in Emails /\ Domain(r) \in Domains /\ Domain(r) = DomainOf[Address(r)]
BY SignInAssumption DEF SignInAssumption, TypeOK, Address, Domain, Domains

\* What a request's step leaves alone: links never change hands, committed rows
\* stay, and every other request is where it was.
LEMMA RequestFrame ==
    ASSUME TypeOK, NEW r \in Requests, Verify(r) \/ Break(r) \/ EndSession(r)
    PROVE  /\ link' = link /\ orgs \subseteq orgs' /\ users \subseteq users'
           /\ \A q \in Requests : q # r =>
                 /\ pc'[q] = pc[q] /\ role'[q] = role[q] /\ sessions'[q] = sessions[q]
                 /\ q \in newOrg' <=> q \in newOrg
                 /\ q \in newUser' <=> q \in newUser
                 /\ q \in known' <=> q \in known
<1> USE DEF Verify, Load, Consume, Provision, FindOrg, InsertOrg, FindUser, ChooseRole,
            InsertUser, Commit, StoreSession, Break, EndSession, RollBack, Publish,
            Goto, txVars, store
<1>1. link' = link /\ orgs \subseteq orgs' /\ users \subseteq users'
  OBVIOUS
<1>2. ASSUME NEW q \in Requests, q # r
      PROVE  pc'[q] = pc[q] /\ role'[q] = role[q] /\ sessions'[q] = sessions[q]
  BY <1>2 DEF TypeOK
<1>3. ASSUME NEW q \in Requests, q # r
      PROVE  /\ q \in newOrg' <=> q \in newOrg
             /\ q \in newUser' <=> q \in newUser
             /\ q \in known' <=> q \in known
  BY <1>3
<1> QED BY <1>1, <1>2, <1>3

\* A commit publishes what its transaction inserted; no other step touches the rows.
LEMMA OnlyCommitStores ==
    ASSUME NEW r \in Requests, Verify(r) \/ Break(r) \/ EndSession(r)
    PROVE  Commit(r) \/ (orgs' = orgs /\ users' = users)
BY DEF Verify, Load, Consume, Provision, FindOrg, InsertOrg, FindUser, ChooseRole,
       InsertUser, StoreSession, Break, EndSession, store

-----------------------------------------------------------------------------
\* The other requests: a commit takes away no key they have inserted, since only
\* one open transaction can have inserted it.
LEMMA OthersOK ==
    ASSUME IInv, NEW r \in Requests, Verify(r) \/ Break(r) \/ EndSession(r),
           NEW q \in Requests, q # r
    PROVE  RequestOK(q)'
<1>1. /\ link' = link /\ orgs \subseteq orgs' /\ users \subseteq users'
      /\ pc'[q] = pc[q] /\ role'[q] = role[q] /\ sessions'[q] = sessions[q]
      /\ q \in newOrg' <=> q \in newOrg
      /\ q \in newUser' <=> q \in newUser
      /\ q \in known' <=> q \in known
  BY RequestFrame DEF IInv
<1>2. Address(q)' = Address(q) /\ Domain(q)' = Domain(q) /\ UserOf(q)' = UserOf(q)
  BY <1>1 DEF Address, Domain, UserOf
<1>3. RequestOK(q)
  BY DEF IInv
<1>4. q \in newOrg => Domain(q) \notin orgs'
  <2>1. CASE Commit(r)
    <3>1. orgs' = IF r \in newOrg THEN orgs \cup {Domain(r)} ELSE orgs
      BY <2>1 DEF Commit, Publish
    <3>2. q \in newOrg /\ r \in newOrg => Domain(q) # Domain(r)
      BY DEF IInv, LocksInv
    <3> QED BY <1>3, <3>1, <3>2 DEF RequestOK
  <2>2. CASE orgs' = orgs
    BY <1>3, <2>2 DEF RequestOK
  <2> QED BY <2>1, <2>2, OnlyCommitStores
<1>5. q \in newUser => \A u \in users' : u.email # Address(q)
  <2>1. CASE Commit(r)
    <3>1. users' = IF r \in newUser THEN users \cup {UserOf(r)} ELSE users
      BY <2>1 DEF Commit, Publish, UserOf
    <3>2. q \in newUser /\ r \in newUser => UserOf(r).email # Address(q)
      BY DEF IInv, LocksInv, UserOf
    <3> QED BY <1>3, <3>1, <3>2 DEF RequestOK
  <2>2. CASE users' = users
    BY <1>3, <2>2 DEF RequestOK
  <2> QED BY <2>1, <2>2, OnlyCommitStores
<1>6. UsersOf(Domain(q)) # {} => UsersOf(Domain(q))' # {}
  BY <1>1, <1>2 DEF UsersOf
<1> QED BY <1>1, <1>2, <1>3, <1>4, <1>5, <1>6 DEF RequestOK, At

\* The request itself, before its transaction opens and after it has ended.
LEMMA OutsideOK ==
    ASSUME IInv, NEW r \in Requests,
           Load(r) \/ Consume(r) \/ StoreSession(r) \/ Break(r) \/ EndSession(r)
    PROVE  RequestOK(r)'
<1>1. UNCHANGED <<link, orgs, users, role>>
  BY DEF Load, Consume, StoreSession, Break, EndSession, store, txVars
<1>2. /\ Address(r)' = Address(r) /\ Domain(r)' = Domain(r) /\ UserOf(r)' = UserOf(r)
      /\ UsersOf(Domain(r))' = UsersOf(Domain(r))
  BY <1>1 DEF Address, Domain, UserOf, UsersOf
<1>3. RequestOK(r)
  BY DEF IInv
<1>4. CASE Load(r)
  <2>1. /\ pc[r] = "idle" /\ pc'[r] \in {"consume", "denied"} /\ UNCHANGED <<newOrg, newUser, sessions>>
        /\ r \in known' => r \in known \/ \E u \in users : u.email = Address(r)
    BY <1>4 DEF Load, At, Goto, IInv, TypeOK, txVars
  <2>2. r \notin newOrg /\ r \notin newUser
    BY <1>3, <2>1 DEF RequestOK, Found
  <2> QED BY <1>1, <1>2, <1>3, <2>1, <2>2 DEF RequestOK, Found, At
<1>5. CASE Consume(r)
  <2>1. /\ pc[r] = "consume" /\ pc'[r] = "org" /\ UNCHANGED <<newOrg, newUser, sessions, known>>
    BY <1>5 DEF Consume, At, Goto, IInv, TypeOK, txVars
  <2>2. r \notin newOrg /\ r \notin newUser
    BY <1>3, <2>1 DEF RequestOK, Found
  <2> QED BY <1>1, <1>2, <1>3, <2>1, <2>2 DEF RequestOK, Found, At
<1>6. CASE StoreSession(r)
  <2>1. /\ pc[r] = "session" /\ pc'[r] = "done" /\ UNCHANGED <<newOrg, newUser, known>>
        /\ sessions'[r] = UserOf(r)
    BY <1>6 DEF StoreSession, At, Goto, IInv, TypeOK, txVars, UserOf
  <2>2. r \notin newOrg /\ r \notin newUser
    BY <1>3, <2>1 DEF RequestOK, Found
  <2> QED BY <1>1, <1>2, <1>3, <2>1, <2>2 DEF RequestOK, Found, At
<1>7. CASE Break(r)
  <2>1. /\ pc'[r] = "fault" /\ r \notin newOrg' /\ r \notin newUser'
        /\ UNCHANGED <<sessions, known>>
    BY <1>7 DEF Break, RollBack, Goto, IInv, TypeOK
  <2> QED BY <1>1, <1>2, <1>3, <2>1 DEF RequestOK, Found, At
<1>8. CASE EndSession(r)
  <2>1. /\ UNCHANGED <<pc, newOrg, newUser, known>> /\ sessions'[r] = NoSession
    BY <1>8 DEF EndSession, IInv, TypeOK, txVars
  <2> QED BY <1>1, <1>2, <1>3, <2>1 DEF RequestOK, At
<1> QED BY <1>4, <1>5, <1>6, <1>7, <1>8

\* The request itself, inside its transaction and before the commit.
LEMMA InsideOK ==
    ASSUME IInv, NEW r \in Requests, Provision(r), ~Commit(r)
    PROVE  RequestOK(r)'
<1>1. UNCHANGED <<link, orgs, users, sessions, known>>
  BY DEF Provision, FindOrg, InsertOrg, FindUser, ChooseRole, InsertUser, store
<1>2. /\ Address(r)' = Address(r) /\ Domain(r)' = Domain(r)
      /\ UsersOf(Domain(r))' = UsersOf(Domain(r))
  BY <1>1 DEF Address, Domain, UsersOf
<1>3. RequestOK(r) /\ StoreInv
  BY DEF IInv
<1>4. Address(r) \in Emails /\ Domain(r) = DomainOf[Address(r)]
  BY AddressType DEF IInv
<1>5. \A u \in users : u.email = Address(r) => u \in UsersOf(Domain(r)) /\ Domain(r) \in orgs
  BY <1>3, <1>4 DEF StoreInv, UsersOf
<1>6. CASE FindOrg(r)
  <2>1. /\ pc[r] = "org" /\ UNCHANGED <<newOrg, newUser, role>>
        /\ pc'[r] = IF Domain(r) \in orgs THEN "user" ELSE "insert org"
    BY <1>6 DEF FindOrg, At, Goto, IInv, TypeOK, txVars
  <2>2. r \notin newOrg /\ r \notin newUser
    BY <1>3, <2>1 DEF RequestOK, Found
  <2>3. r \in known => Domain(r) \in orgs
    BY <1>3, <1>5 DEF RequestOK
  <2> QED BY <1>1, <1>2, <1>3, <2>1, <2>2, <2>3 DEF RequestOK, Found, At
<1>7. CASE InsertOrg(r)
  <2>1. /\ pc[r] = "insert org" /\ role' = role
        /\ \/ /\ Domain(r) \in orgs /\ pc'[r] = "conflict"
              /\ r \notin newOrg' /\ r \notin newUser'
           \/ /\ Domain(r) \notin orgs /\ pc'[r] = "user"
              /\ r \in newOrg' /\ newUser' = newUser
    BY <1>7 DEF InsertOrg, RollBack, At, Goto, IInv, TypeOK
  <2>2. r \notin newUser /\ r \notin known
    BY <1>3, <2>1 DEF RequestOK
  <2>3. Domain(r) \in orgs => UsersOf(Domain(r)) # {}
    BY <1>3 DEF StoreInv
  <2> QED BY <1>1, <1>2, <1>3, <2>1, <2>2, <2>3 DEF RequestOK, Found, At
<1>8. CASE FindUser(r)
  <2>1. /\ pc[r] = "user" /\ UNCHANGED <<newOrg, newUser>>
        /\ \/ pc'[r] = "commit" /\ \E u \in users : u.email = Address(r) /\ role'[r] = u.role
           \/ pc'[r] = "role" /\ \A u \in users : u.email # Address(r)
    BY <1>8 DEF FindUser, At, Goto, IInv, TypeOK
  <2>2. r \notin newUser
    BY <1>3, <2>1 DEF RequestOK
  <2>3. CASE pc'[r] = "commit" /\ \E u \in users : u.email = Address(r) /\ role'[r] = u.role
    <3>1. PICK u \in users : u.email = Address(r) /\ role'[r] = u.role
      BY <2>3
    <3>2. u = [email |-> u.email, role |-> u.role]
      BY DEF IInv, TypeOK
    <3>3. UserOf(r)' \in users'
      BY <1>1, <1>2, <3>1, <3>2 DEF UserOf
    <3>4. r \notin newOrg
      BY <1>3, <1>5, <3>1 DEF RequestOK
    <3> QED BY <1>1, <1>2, <1>3, <2>1, <2>2, <2>3, <3>3, <3>4 DEF RequestOK, Found, At
  <2>4. CASE pc'[r] = "role" /\ \A u \in users : u.email # Address(r)
    BY <1>1, <1>2, <1>3, <2>1, <2>2, <2>4 DEF RequestOK, Found, At
  <2> QED BY <2>1, <2>3, <2>4
<1>9. CASE ChooseRole(r)
  <2>1. /\ pc[r] = "role" /\ pc'[r] = "insert user" /\ UNCHANGED <<newOrg, newUser>>
        /\ role'[r] = IF UsersOf(Domain(r)) = {} THEN "owner" ELSE "analyst"
    BY <1>9 DEF ChooseRole, At, Goto, IInv, TypeOK
  <2>2. r \notin newUser /\ r \notin known
    BY <1>3, <2>1 DEF RequestOK
  <2>3. r \in newOrg => UsersOf(Domain(r)) = {}
    <3>1. r \in newOrg => Domain(r) \notin orgs
      BY <1>3 DEF RequestOK
    <3>2. \A u \in UsersOf(Domain(r)) : Domain(r) \in orgs
      BY <1>3 DEF StoreInv, UsersOf
    <3> QED BY <3>1, <3>2
  <2>4. r \notin newOrg => UsersOf(Domain(r)) # {}
    BY <1>3, <2>1 DEF RequestOK, StoreInv, Found
  <2> QED BY <1>1, <1>2, <1>3, <2>1, <2>2, <2>3, <2>4 DEF RequestOK, Found, At
<1>10. CASE InsertUser(r)
  <2>1. /\ pc[r] = "insert user" /\ role' = role
        /\ \/ /\ \E u \in users : u.email = Address(r)
              /\ pc'[r] = "conflict" /\ r \notin newOrg' /\ r \notin newUser'
           \/ /\ \A u \in users : u.email # Address(r)
              /\ pc'[r] = "commit" /\ newOrg' = newOrg /\ r \in newUser'
    BY <1>10 DEF InsertUser, RollBack, At, Goto, IInv, TypeOK
  <2>2. r \notin known
    BY <1>3, <2>1 DEF RequestOK
  <2>3. (\E u \in users : u.email = Address(r)) => UsersOf(Domain(r)) # {}
    BY <1>5
  <2> QED BY <1>1, <1>2, <1>3, <2>1, <2>2, <2>3 DEF RequestOK, Found, At
<1> QED BY <1>6, <1>7, <1>8, <1>9, <1>10 DEF Provision

\* The request itself, when it commits.
LEMMA CommitOK ==
    ASSUME IInv, NEW r \in Requests, Commit(r)
    PROVE  RequestOK(r)'
<1>1. /\ pc[r] = "commit" /\ pc'[r] \in {"session", "fault"}
      /\ r \notin newOrg' /\ r \notin newUser' /\ users \subseteq users'
      /\ UNCHANGED <<link, role, sessions, known>>
      /\ r \in newUser => UserOf(r) \in users'
  BY DEF Commit, Publish, RollBack, UserOf, At, Goto, IInv, TypeOK
<1>2. Address(r)' = Address(r) /\ UserOf(r)' = UserOf(r)
  BY <1>1 DEF Address, UserOf
<1>3. RequestOK(r)
  BY DEF IInv
<1>4. UserOf(r) \in users'
  BY <1>1, <1>3 DEF RequestOK
<1> QED BY <1>1, <1>2, <1>3, <1>4 DEF RequestOK, Found, At

-----------------------------------------------------------------------------
\* A commit adds a user whose address is new, and who owns its organisation only
\* when the organisation is new as well.
LEMMA StoreKept ==
    ASSUME IInv, NEW r \in Requests, Verify(r) \/ Break(r) \/ EndSession(r)
    PROVE  StoreInv'
<1>0. StoreInv /\ RequestOK(r) /\ Address(r) \in Emails /\ Domain(r) = DomainOf[Address(r)]
  BY AddressType DEF IInv
<1>1. CASE orgs' = orgs /\ users' = users
  BY <1>0, <1>1 DEF StoreInv, UsersOf
<1>2. CASE Commit(r)
  <2>1. /\ pc[r] = "commit"
        /\ orgs' = IF r \in newOrg THEN orgs \cup {Domain(r)} ELSE orgs
        /\ users' = IF r \in newUser THEN users \cup {UserOf(r)} ELSE users
    BY <1>2 DEF Commit, Publish, UserOf, At
  <2>2. CASE r \notin newUser
    <3>1. orgs' = orgs /\ users' = users
      BY <1>0, <2>1, <2>2 DEF RequestOK
    <3> QED BY <1>1, <3>1
  <2>3. CASE r \in newUser
    <3> DEFINE n == UserOf(r)
    <3>1. n.email = Address(r) /\ n.role = role[r] /\ users' = users \cup {n}
      BY <2>1, <2>3 DEF UserOf
    <3>2. \A u \in users : u.email # n.email
      BY <1>0, <2>3, <3>1 DEF RequestOK
    <3>3. /\ n.role = "owner" => r \in newOrg
          /\ r \in newOrg => n.role = "owner" /\ Domain(r) \notin orgs
      BY <1>0, <2>3, <3>1 DEF RequestOK
    <3>4. Domain(r) \in orgs'
      BY <1>0, <2>1, <2>3 DEF RequestOK, Found
    <3>5. n.role = "owner" => \A u \in users : DomainOf[u.email] # DomainOf[n.email]
      BY <1>0, <3>1, <3>3 DEF StoreInv
    <3>6. \A u \in users' : DomainOf[u.email] \in orgs'
      BY <1>0, <2>1, <3>1, <3>4 DEF StoreInv
    <3>7. \A d \in orgs' : \E u \in UsersOf(d)' : u.role = "owner"
      <4>1. ASSUME NEW d \in orgs PROVE \E u \in UsersOf(d)' : u.role = "owner"
        BY <1>0, <3>1 DEF StoreInv, UsersOf
      <4>2. ASSUME NEW d \in orgs', d \notin orgs PROVE \E u \in UsersOf(d)' : u.role = "owner"
        <5>1. d = Domain(r) /\ r \in newOrg
          BY <2>1, <4>2
        <5>2. n \in users' /\ DomainOf[n.email] = d /\ n.role = "owner"
          BY <1>0, <3>1, <3>3, <5>1
        <5> QED BY <5>2 DEF UsersOf
      <4> QED BY <4>1, <4>2
    <3>8. \A u, v \in users' : u.email = v.email => u = v
      BY <1>0, <3>1, <3>2 DEF StoreInv
    <3>9. \A u, v \in users' :
             /\ DomainOf[u.email] = DomainOf[v.email]
             /\ u.role = "owner" /\ v.role = "owner"
             => u = v
      BY <1>0, <3>1, <3>5 DEF StoreInv
    <3> QED BY <3>6, <3>7, <3>8, <3>9 DEF StoreInv
  <2> QED BY <2>2, <2>3
<1> QED BY <1>1, <1>2, OnlyCommitStores

\* An insert waits for whoever has inserted the same key.
LEMMA LocksKept ==
    ASSUME IInv, NEW r \in Requests, Verify(r) \/ Break(r) \/ EndSession(r)
    PROVE  LocksInv'
<1>1. link' = link
  BY RequestFrame DEF IInv
<1>2. \A q \in Requests : Address(q)' = Address(q) /\ Domain(q)' = Domain(q)
  BY <1>1 DEF Address, Domain
<1>4. \/ newOrg' \subseteq newOrg
      \/ newOrg' = newOrg \cup {r} /\ \A q \in newOrg : Domain(q) # Domain(r)
  BY DEF Verify, Load, Consume, Provision, FindOrg, InsertOrg, FindUser, ChooseRole,
     InsertUser, Commit, StoreSession, Break, EndSession, RollBack, txVars
<1>5. \/ newUser' \subseteq newUser
      \/ newUser' = newUser \cup {r} /\ \A q \in newUser : Address(q) # Address(r)
  BY DEF Verify, Load, Consume, Provision, FindOrg, InsertOrg, FindUser, ChooseRole,
     InsertUser, Commit, StoreSession, Break, EndSession, RollBack, txVars
<1>3. newOrg' \subseteq Requests /\ newUser' \subseteq Requests
  BY <1>4, <1>5 DEF IInv, TypeOK
<1>6. \A q, p \in newOrg' : Domain(q) = Domain(p) => q = p
  BY <1>4 DEF IInv, LocksInv
<1>7. \A q, p \in newUser' : Address(q) = Address(p) => q = p
  BY <1>5 DEF IInv, LocksInv
<1> QED BY <1>2, <1>3, <1>6, <1>7 DEF LocksInv

\* Types: a role is chosen before it is stored, and stored before a session has it.
LEMMA TypeKept ==
    ASSUME IInv, NEW r \in Requests, Verify(r) \/ Break(r) \/ EndSession(r)
    PROVE  TypeOK'
<1> USE DEF IInv, TypeOK, txVars, store
<1>0. Address(r) \in Emails /\ Domain(r) \in Domains /\ RequestOK(r) /\ MaxFaults \in Nat
  BY AddressType, SignInAssumption DEF SignInAssumption
<1>1. links' \in [Links -> {"none", "sent", "expired", "used"}] /\ link' = link
  BY DEF Verify, Load, Consume, Provision, FindOrg, InsertOrg, FindUser, ChooseRole,
     InsertUser, Commit, StoreSession, Break, EndSession
<1>2. orgs' \subseteq Domains /\ users' \subseteq [email : Emails, role : Roles]
  <2>1. CASE orgs' = orgs /\ users' = users
    BY <2>1
  <2>2. CASE Commit(r)
    <3>1. r \in newUser => role[r] \in Roles
      BY <1>0 DEF RequestOK, Roles
    <3>2. r \in newUser =>
             [email |-> Address(r), role |-> role[r]] \in [email : Emails, role : Roles]
      BY <1>0, <3>1
    <3>3. /\ orgs' \subseteq orgs \cup {Domain(r)}
          /\ \/ users' = users
             \/ /\ r \in newUser
                /\ users' = users \cup {[email |-> Address(r), role |-> role[r]]}
      BY <2>2 DEF Commit, Publish
    <3> QED BY <1>0, <3>2, <3>3
  <2> QED BY <2>1, <2>2, OnlyCommitStores
<1>3. pc' \in [Requests -> {"idle", "consume", "org", "insert org", "user", "role",
                            "insert user", "commit", "session"} \cup Ended]
  BY DEF Verify, Load, Consume, Provision, FindOrg, InsertOrg, FindUser, ChooseRole,
     InsertUser, Commit, StoreSession, Break, EndSession, Goto, Ended
<1>4. newOrg' \subseteq Requests /\ newUser' \subseteq Requests /\ known' \subseteq Requests
  BY DEF Verify, Load, Consume, Provision, FindOrg, InsertOrg, FindUser, ChooseRole,
     InsertUser, Commit, StoreSession, Break, EndSession, RollBack
<1>5. role' \in [Requests -> Roles \cup {"none"}]
  BY DEF Verify, Load, Consume, Provision, FindOrg, InsertOrg, FindUser, ChooseRole,
     InsertUser, Commit, StoreSession, Break, EndSession, Roles
<1>6. sessions' \in [Requests -> {NoSession} \cup [email : Emails, role : Roles]]
  <2>1. CASE StoreSession(r)
    <3>1. UserOf(r) \in [email : Emails, role : Roles]
      BY <1>0, <2>1 DEF RequestOK, StoreSession, At
    <3> QED BY <2>1, <3>1 DEF StoreSession, UserOf
  <2>2. CASE ~StoreSession(r)
    BY <2>2 DEF Verify, Load, Consume, Provision, FindOrg, InsertOrg, FindUser,
       ChooseRole, InsertUser, Commit, Break, EndSession
  <2> QED BY <2>1, <2>2
<1>7. faults' \in 0 .. MaxFaults
  <2>1. faults' = faults \/ Fault
    BY DEF Verify, Load, Consume, Provision, FindOrg, InsertOrg, FindUser, ChooseRole,
       InsertUser, Commit, StoreSession, Break, EndSession
  <2>2. faults \in 0 .. MaxFaults /\ MaxFaults \in Nat
    BY <1>0
  <2> QED BY ONLY <2>1, <2>2 DEF Fault
<1> QED BY <1>1, <1>2, <1>3, <1>4, <1>5, <1>6, <1>7

-----------------------------------------------------------------------------
\* The invariant holds throughout: open transactions, the store and the sessions
\* agree on who owns what, whatever the order of the statements.
THEOREM Invariance == Spec => []IInv
<1>1. Init => IInv
  <2> SUFFICES ASSUME Init PROVE IInv
    OBVIOUS
  <2>1. TypeOK
    BY SignInAssumption DEF SignInAssumption, Init, TypeOK
  <2>2. StoreInv /\ LocksInv
    BY DEF Init, StoreInv, LocksInv
  <2>3. ASSUME NEW r \in Requests PROVE RequestOK(r)
    BY DEF Init, RequestOK, Found, At
  <2> QED BY <2>1, <2>2, <2>3 DEF IInv
<1>2. IInv /\ [Next]_vars => IInv'
  <2> SUFFICES ASSUME IInv, [Next]_vars PROVE IInv'
    OBVIOUS
  <2>1. ASSUME NEW r \in Requests, Verify(r) \/ Break(r) \/ EndSession(r) PROVE IInv'
    <3>1. RequestOK(r)'
      BY <2>1, OutsideOK, InsideOK, CommitOK DEF Verify, Provision
    <3>2. \A q \in Requests : RequestOK(q)'
      BY <2>1, <3>1, OthersOK
    <3> QED BY <2>1, <3>2, TypeKept, StoreKept, LocksKept DEF IInv
  <2>2. ASSUME NEW l \in Links, SendLink(l) \/ ExpireLink(l) PROVE IInv'
    <3>1. /\ UNCHANGED <<orgs, users, pc, link, newOrg, newUser, role, sessions, faults, known>>
          /\ links' \in [Links -> {"none", "sent", "expired", "used"}]
      BY <2>2 DEF SendLink, ExpireLink, store, txVars, IInv, TypeOK
    <3>2. TypeOK'
      BY <3>1 DEF IInv, TypeOK
    <3>3. StoreInv' /\ LocksInv'
      BY <3>1 DEF IInv, StoreInv, LocksInv, UsersOf, Address, Domain
    <3>4. \A r \in Requests : RequestOK(r)'
      BY <3>1 DEF IInv, RequestOK, Found, At, UsersOf, UserOf, Address, Domain
    <3> QED BY <3>2, <3>3, <3>4 DEF IInv
  <2>3. CASE UNCHANGED vars
    <3>1. TypeOK'
      BY <2>3 DEF vars, IInv, TypeOK
    <3>2. StoreInv' /\ LocksInv'
      BY <2>3 DEF vars, IInv, StoreInv, LocksInv, UsersOf, Address, Domain
    <3>3. \A r \in Requests : RequestOK(r)'
      BY <2>3 DEF vars, IInv, RequestOK, Found, At, UsersOf, UserOf, Address, Domain
    <3> QED BY <3>1, <3>2, <3>3 DEF IInv
  <2> QED BY <2>1, <2>2, <2>3 DEF Next
<1> QED BY <1>1, <1>2, PTL DEF Spec

\* Every variable keeps its type.
THEOREM TypeCorrect == Spec => []TypeOK
<1>1. IInv => TypeOK
  BY DEF IInv
<1> QED BY <1>1, Invariance, PTL

\* An organisation has one owner from the moment it exists, an address has one row,
\* and a live session says what that row says.
THEOREM IdentityAlwaysHolds == Spec => []IdentityHolds
<1>1. IInv => OneOwner
  <2> SUFFICES ASSUME IInv PROVE OneOwner
    OBVIOUS
  <2>1. ASSUME NEW d \in orgs
        PROVE  Cardinality({u \in UsersOf(d) : u.role = "owner"}) = 1
    <3>1. PICK u \in UsersOf(d) : u.role = "owner"
      BY DEF IInv, StoreInv
    <3>2. \A v \in UsersOf(d) : v.role = "owner" => v = u
      BY <3>1 DEF IInv, StoreInv, UsersOf
    <3>3. {v \in UsersOf(d) : v.role = "owner"} = {u}
      BY <3>1, <3>2
    <3> QED BY <3>3, FS_Singleton
  <2>2. \A u, v \in users : u.email = v.email => u = v
    BY DEF IInv, StoreInv
  <2> QED BY <2>1, <2>2 DEF OneOwner
<1>2. IInv => SessionMatchesUser
  BY DEF IInv, RequestOK, SessionMatchesUser
<1> QED BY <1>1, <1>2, Invariance, PTL DEF IdentityHolds

\* The loser of a race is told so only when it was new and somebody of its
\* organisation is stored, so that following the link's successor succeeds.
THEOREM ConflictExcusedHolds == Spec => []ConflictExcused
<1>1. IInv => ConflictExcused
  BY DEF IInv, RequestOK, ConflictExcused, At
<1> QED BY <1>1, Invariance, PTL
=============================================================================
