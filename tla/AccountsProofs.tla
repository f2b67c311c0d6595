---------------------------- MODULE AccountsProofs ----------------------------
(***************************************************************************)
(* Proofs about Accounts, for any number of workers, requests and names:   *)
(* an admin is left, the default password is never served unmarked, a      *)
(* session is current, and everything is within its type.                  *)
(***************************************************************************)
EXTENDS Accounts, FiniteSetTheorems, TLAPS

-----------------------------------------------------------------------------
(* The inductive invariant *)

Row == [name : Names, admin : BOOLEAN, pw : Nat, epoch : Nat, must : BOOLEAN]

Phases == {"booting", "seeding", "flagging", "committing", "serving"}

Labels == {"idle", "issuing", "changing", "forced", "creating", "counting", "deleting"}

IsToken(t) ==
    /\ t = [id |-> t.id, epoch |-> t.epoch, proof |-> t.proof, excused |-> t.excused]
    /\ t.epoch \in Nat
    /\ t.excused \in BOOLEAN

IsRequest(q) ==
    /\ q = [home |-> q.home, id |-> q.id, epoch |-> q.epoch, proof |-> q.proof,
            name |-> q.name, admin |-> q.admin, counted |-> q.counted]
    /\ q.epoch \in Nat
    /\ q.name \in Names
    /\ q.admin \in BOOLEAN

Tabled ==
    /\ users \in [Existing -> Row]
    /\ \A t \in tokens : IsToken(t)
    /\ passwords \in Nat
    /\ raced \in BOOLEAN
    /\ overtaken \subseteq Requests

Booted ==
    /\ phase \in [Workers -> Phases]
    /\ flagged = [w \in Workers |-> flagged[w]]

Requested ==
    /\ pc \in [Requests -> Labels]
    /\ req = [r \in Requests |-> req[r]]
    /\ \A r \in Requests : IsRequest(req[r])

\* A request that is under way is served by a worker that has booted ...
HomesServe ==
    \A r \in Requests : pc[r] # "idle" => req[r].home \in Serving

\* ... which goes on only when there are accounts, and whoever there is, one is an admin ...
SeededOnce ==
    ~raced =>
        /\ Existing # {} => AdminsOf(users) # {}
        /\ \A w \in Workers : phase[w] \notin {"booting", "seeding"} => Existing # {}

\* ... because a deletion has counted one that it does not delete.
DeletersLeaveOne ==
    \A r \in Requests : pc[r] = "deleting" => \E a \in req[r].counted : a # req[r].id

Defaults == {i \in Existing : users[i].pw = Default}
Unmarked == {i \in Defaults : ~users[i].must}
Missed == Unmarked \ skipped

\* There is one account with the default password at most, which each worker that is
\* about to serve has found, or been kept from marking.
DefaultsAreFound ==
    ~raced =>
        /\ \A i, j \in Defaults : i = j
        /\ \A w \in Workers :
              /\ phase[w] = "committing" =>
                    Missed \subseteq flagged[w] /\ \A i, j \in flagged[w] : i = j
              /\ phase[w] = "serving" => Missed = {}

\* The tokens of an account are of its epoch at most, and those of its epoch are of its
\* password, but for the excused ones ...
TokensAreOld ==
    \A t \in tokens :
        t.id \in Existing /\ ~t.excused =>
            /\ t.epoch <= users[t.id].epoch
            /\ t.epoch = users[t.id].epoch => t.proof = users[t.id].pw

\* ... because whoever is about to get one was shown that password, if not overtaken.
IssuersKnow ==
    \A r \in Requests :
        pc[r] = "issuing" /\ r \notin overtaken /\ req[r].id \in Existing =>
            req[r].proof = users[req[r].id].pw

IInv ==
    /\ Tabled
    /\ Booted
    /\ Requested
    /\ HomesServe
    /\ SeededOnce
    /\ DeletersLeaveOne
    /\ DefaultsAreFound
    /\ TokensAreOld
    /\ IssuersKnow

-----------------------------------------------------------------------------
(* The operators the actions are built from *)

\* What a request has read before it has read anything.
LEMMA NoReqIsRequest == IsRequest(NoReq)
BY AccountsAssumption DEF AccountsAssumption, IsRequest, NoReq

\* A handler that goes on changes its own request.
LEMMA EnterMoves ==
    ASSUME Requested, NEW r \in Requests, NEW label \in Labels, NEW what, IsRequest(what),
           Enter(r, label, what)
    PROVE  /\ Requested'
           /\ pc'[r] = label /\ req'[r] = what
           /\ \A s \in Requests \ {r} : pc'[s] = pc[s] /\ req'[s] = req[s]
<1>1. /\ pc' \in [Requests -> Labels]
      /\ pc'[r] = label
      /\ \A s \in Requests \ {r} : pc'[s] = pc[s]
  BY DEF Enter, Requested
<1>2. /\ req' = [s \in Requests |-> IF s = r THEN what ELSE req[s]]
  BY DEF Enter, Requested
<1>3. /\ req' = [s \in Requests |-> req'[s]]
      /\ req'[r] = what
      /\ \A s \in Requests \ {r} : req'[s] = req[s]
  BY <1>2
<1>4. \A s \in Requests : IsRequest(req'[s])
  BY <1>3 DEF Requested
<1> QED
  BY <1>1, <1>3, <1>4 DEF Requested, IsRequest

\* A handler that ends leaves nothing behind.
LEMMA LeaveMoves ==
    ASSUME Requested, NEW r \in Requests, Leave(r)
    PROVE  /\ Requested'
           /\ pc'[r] = "idle"
           /\ \A s \in Requests \ {r} : pc'[s] = pc[s] /\ req'[s] = req[s]
<1>1. "idle" \in Labels
  BY DEF Labels
<1>2. Enter(r, "idle", NoReq)
  BY DEF Leave
<1> QED
  BY <1>1, <1>2, NoReqIsRequest, EnterMoves

\* An excused token is the token it was, excused if it is of that id, and that epoch or later.
LEMMA ExcuseKeeps ==
    ASSUME Tabled, NEW id, NEW epoch
    PROVE  \A u \in Excuse(id, epoch) :
              /\ IsToken(u)
              /\ \E t \in tokens :
                    /\ u.id = t.id /\ u.epoch = t.epoch /\ u.proof = t.proof
                    /\ u.excused <=> (t.excused \/ (t.id = id /\ t.epoch >= epoch))
<1> TAKE u \in Excuse(id, epoch)
<1>1. PICK t \in tokens :
         u = [t EXCEPT !.excused = @ \/ (t.id = id /\ t.epoch >= epoch)]
  BY DEF Excuse
<1>2. IsToken(t)
  BY DEF Tabled
<1>3. u = [id |-> t.id, epoch |-> t.epoch, proof |-> t.proof,
           excused |-> (t.excused \/ (t.id = id /\ t.epoch >= epoch))]
  BY <1>1, <1>2 DEF IsToken
<1>4. /\ u.id = t.id /\ u.epoch = t.epoch /\ u.proof = t.proof
      /\ u.excused = (t.excused \/ (t.id = id /\ t.epoch >= epoch))
  BY <1>3
<1>5. IsToken(u)
  BY <1>3, <1>4, <1>2 DEF IsToken
<1> QED
  BY <1>4, <1>5

\* A change of a password leaves the tokens as they are, or excuses some.
LEMMA ChangeKeepsTokens ==
    ASSUME Tabled, NEW r \in Requests, NEW i, NEW epoch, ExcuseOverlap(r, i, epoch)
    PROVE  \A u \in tokens' :
              /\ IsToken(u)
              /\ \E t \in tokens :
                    /\ u.id = t.id /\ u.epoch = t.epoch /\ u.proof = t.proof
                    /\ u.excused <=>
                          \/ t.excused
                          \/ users[i].epoch # req[r].epoch /\ t.id = i /\ t.epoch >= epoch
<1>1. CASE users[i].epoch = req[r].epoch
  BY <1>1 DEF ExcuseOverlap, Tabled
<1>2. CASE users[i].epoch # req[r].epoch
  BY <1>2, ExcuseKeeps DEF ExcuseOverlap
<1> QED
  BY <1>1, <1>2

\* A row is added, and the others stay as they are.
LEMMA InsertAdds ==
    ASSUME Tabled, NEW name \in Names, NEW password \in Nat, NEW admin \in BOOLEAN,
           Insert(name, password, admin)
    PROVE  /\ users' \in [Existing' -> Row]
           /\ \A t \in tokens' : IsToken(t)
           /\ Existing' = Existing \cup {FreshId}
           /\ \A i \in Existing : users'[i] = users[i]
           /\ FreshId \notin Existing =>
                 /\ users'[FreshId].pw = password
                 /\ users'[FreshId].admin = admin
                 /\ users'[FreshId].epoch = 0
<1> DEFINE new == [name |-> name, admin |-> admin, pw |-> password, epoch |-> 0,
                   must |-> FALSE]
<1>1. users' = [i \in Existing \cup {FreshId} |-> IF i \in Existing THEN users[i] ELSE new]
  BY DEF Insert
<1>2. new \in Row /\ new.pw = password /\ new.admin = admin /\ new.epoch = 0
  BY DEF Row
<1>3. \A i \in Existing : users[i] \in Row
  BY DEF Tabled
<1> HIDE DEF new
<1>4. DOMAIN users' = Existing \cup {FreshId}
  BY <1>1
<1>5. Existing' = Existing \cup {FreshId}
  BY <1>4 DEF Existing
<1>6. \A i \in Existing : users'[i] = users[i]
  BY <1>1
<1>7. FreshId \notin Existing => users'[FreshId] = new
  BY <1>1
<1>8. users' \in [Existing' -> Row]
  BY <1>1, <1>2, <1>3, <1>5
<1>9. \A t \in tokens' : IsToken(t)
  BY ExcuseKeeps DEF Insert
<1> QED
  BY <1>2, <1>5, <1>6, <1>7, <1>8, <1>9

\* A row is deleted, and the others stay as they are.
LEMMA DeleteTakesOne ==
    ASSUME Tabled, NEW r \in Requests, CommitDelete(r)
    PROVE  /\ users' \in [Existing' -> Row]
           /\ Existing' = Existing \ {req[r].id}
           /\ \A i \in Existing' : users'[i] = users[i]
<1>1. users' = [i \in Existing \ {req[r].id} |-> users[i]]
  BY DEF CommitDelete
<1>2. Existing' = Existing \ {req[r].id}
  BY <1>1 DEF Existing
<1>3. \A i \in Existing : users[i] \in Row
  BY DEF Tabled
<1> QED
  BY <1>1, <1>2, <1>3

\* A change of a password writes one row, with a password nobody had before.
LEMMA ChangeWritesOne ==
    ASSUME Tabled, Requested, NEW r \in Requests, CommitChange(r)
    PROVE  /\ users' \in [Existing' -> Row]
           /\ Existing' = Existing
           /\ \A i \in Existing \ {req[r].id} : users'[i] = users[i]
           /\ req[r].id \in Existing
           /\ users'[req[r].id].epoch = req[r].epoch + 1
           /\ users'[req[r].id].pw = passwords + 1
           /\ users'[req[r].id].admin = users[req[r].id].admin
<1> DEFINE i == req[r].id
           row == [users[i] EXCEPT !.pw = passwords + 1, !.epoch = req[r].epoch + 1,
                                   !.must = @ /\ pc[r] = "changing"]
<1>1. i \in Existing /\ users[i] \in Row
  BY DEF CommitChange, Tabled
<1>2. users' = [users EXCEPT ![i] = row]
  BY DEF CommitChange
<1>3. passwords + 1 \in Nat /\ req[r].epoch + 1 \in Nat
  BY DEF Tabled, Requested, IsRequest
<1>4. /\ row \in Row
      /\ row.pw = passwords + 1
      /\ row.epoch = req[r].epoch + 1
      /\ row.admin = users[i].admin
  BY <1>1, <1>3 DEF Row
<1> HIDE DEF row
<1>5. Existing' = Existing
  BY <1>2 DEF Existing
<1>6. users \in [Existing -> Row]
  BY DEF Tabled
<1>7. /\ users' \in [Existing -> Row]
      /\ users'[i] = row
      /\ \A j \in Existing \ {i} : users'[j] = users[j]
  BY <1>1, <1>2, <1>4, <1>6
<1> QED
  BY <1>1, <1>4, <1>5, <1>7

\* Marking accounts changes nothing else about them.
LEMMA FlagMarks ==
    ASSUME Tabled, NEW w \in Workers, FlagDefaults(w)
    PROVE  /\ users' \in [Existing' -> Row]
           /\ Existing' = Existing
           /\ \A i \in Existing :
                 /\ users'[i].pw = users[i].pw
                 /\ users'[i].admin = users[i].admin
                 /\ users'[i].epoch = users[i].epoch
                 /\ users[i].must => users'[i].must
                 /\ flagged[w] \subseteq Existing /\ i \in flagged[w] => users'[i].must
<1>1. CASE flagged[w] \subseteq Existing
  <2> DEFINE row(i) == [users[i] EXCEPT !.must = @ \/ i \in flagged[w]]
  <2>1. users' = [i \in Existing |-> row(i)]
    BY <1>1 DEF FlagDefaults
  <2>2. \A i \in Existing :
           /\ row(i) \in Row
           /\ row(i).pw = users[i].pw
           /\ row(i).admin = users[i].admin
           /\ row(i).epoch = users[i].epoch
           /\ row(i).must = (users[i].must \/ i \in flagged[w])
    BY DEF Tabled, Row
  <2> HIDE DEF row
  <2>3. Existing' = Existing
    BY <2>1 DEF Existing
  <2> QED
    BY <2>1, <2>2, <2>3
<1>2. CASE ~(flagged[w] \subseteq Existing)
  <2>1. users' = users
    BY <1>2 DEF FlagDefaults
  <2> QED
    BY <1>2, <2>1 DEF Existing, Tabled
<1> QED
  BY <1>1, <1>2

-----------------------------------------------------------------------------
(* Steps that read *)

\* The handlers' steps that only read the tables, or commit nothing.
Read(r) ==
    \/ \E w \in Workers : Begin(r, w)
    \/ CountAdmins(r)
    \/ Fail(r)

\* A reading step goes to no commit but these, with what it has read.
LEMMA ReadMoves ==
    ASSUME Tabled, Requested, HomesServe, NEW r \in Requests, Read(r)
    PROVE  /\ Requested'
           /\ \A s \in Requests \ {r} : pc'[s] = pc[s] /\ req'[s] = req[s]
           /\ pc'[r] # "idle" => req'[r].home \in Serving
           /\ pc'[r] = "deleting" =>
                 \/ /\ pc[r] = "counting" /\ Cardinality(AdminsOf(users)) > 1
                    /\ req'[r].counted = AdminsOf(users)
                 \/ \E a \in AdminsOf(users) : a \in req'[r].counted /\ a # req'[r].id
           /\ pc'[r] = "issuing" =>
                 req'[r].id \in Existing /\ req'[r].proof = users[req'[r].id].pw
           /\ overtaken' = overtaken \/ overtaken' = overtaken \ {r}
           /\ pc'[r] # "idle" => overtaken' = overtaken
           /\ UNCHANGED <<users, tokens, phase, flagged, passwords, raced, skipped>>
<1> USE DEF Labels
<1>1. ASSUME NEW w \in Workers, NEW i \in Existing, VerifyPassword(r, w, i)
      PROVE  /\ Requested'
             /\ \A s \in Requests \ {r} : pc'[s] = pc[s] /\ req'[s] = req[s]
             /\ req'[r].home \in Serving
             /\ pc'[r] = "issuing"
             /\ req'[r].id \in Existing /\ req'[r].proof = users[req'[r].id].pw
  <2>0. PICK what : what = [NoReq EXCEPT !.home = w, !.id = i, !.proof = users[i].pw]
    OBVIOUS
  <2>1. /\ IsRequest(what)
        /\ what.home = w /\ what.id = i /\ what.proof = users[i].pw
    <3>1. what = [home |-> w, id |-> i, epoch |-> NoReq.epoch,
                  proof |-> users[i].pw, name |-> NoReq.name,
                  admin |-> NoReq.admin, counted |-> NoReq.counted]
      BY <2>0, NoReqIsRequest DEF IsRequest
    <3> QED
      BY <3>1, NoReqIsRequest DEF IsRequest
  <2>2. Enter(r, "issuing", what) /\ w \in Serving
    BY <2>0, <1>1 DEF VerifyPassword, Start
  <2> QED
    BY <2>1, <2>2, EnterMoves
<1>2. ASSUME NEW w \in Workers, NEW t \in tokens, LoadForChange(r, w, t)
      PROVE  /\ Requested'
             /\ \A s \in Requests \ {r} : pc'[s] = pc[s] /\ req'[s] = req[s]
             /\ req'[r].home \in Serving
             /\ pc'[r] \notin {"deleting", "issuing"}
  <2> DEFINE label == IF users[t.id].must THEN "forced" ELSE "changing"
  <2>0. PICK what :
           what = [NoReq EXCEPT !.home = w, !.id = t.id, !.epoch = users[t.id].epoch]
    OBVIOUS
  <2>1. users[t.id].epoch \in Nat
    BY <1>2 DEF LoadForChange, Accepted, Tabled, Row
  <2>2. IsRequest(what) /\ what.home = w
    <3>1. what = [home |-> w, id |-> t.id, epoch |-> users[t.id].epoch,
                  proof |-> NoReq.proof, name |-> NoReq.name,
                  admin |-> NoReq.admin, counted |-> NoReq.counted]
      BY <2>0, <2>1, NoReqIsRequest DEF IsRequest
    <3> QED
      BY <3>1, <2>1, NoReqIsRequest DEF IsRequest
  <2>3. Enter(r, label, what) /\ w \in Serving
    BY <2>0, <1>2 DEF LoadForChange, Start
  <2>4. label \in Labels /\ label \notin {"deleting", "issuing"}
    OBVIOUS
  <2> HIDE DEF label
  <2> QED
    BY <2>2, <2>3, <2>4, EnterMoves
<1>3. ASSUME NEW w \in Workers, NEW t \in tokens, NEW name \in Names, NEW admin \in BOOLEAN,
             CheckName(r, w, t, name, admin)
      PROVE  /\ Requested'
             /\ \A s \in Requests \ {r} : pc'[s] = pc[s] /\ req'[s] = req[s]
             /\ req'[r].home \in Serving
             /\ pc'[r] = "creating"
  <2>0. PICK what : what = [NoReq EXCEPT !.home = w, !.name = name, !.admin = admin]
    OBVIOUS
  <2>1. IsRequest(what) /\ what.home = w
    <3>1. what = [home |-> w, id |-> NoReq.id, epoch |-> NoReq.epoch,
                  proof |-> NoReq.proof, name |-> name,
                  admin |-> admin, counted |-> NoReq.counted]
      BY <2>0, NoReqIsRequest DEF IsRequest
    <3> QED
      BY <3>1, NoReqIsRequest DEF IsRequest
  <2>2. Enter(r, "creating", what) /\ w \in Serving
    BY <2>0, <1>3 DEF CheckName, AsAdmin, Start
  <2> QED
    BY <2>1, <2>2, EnterMoves
<1>4. ASSUME NEW w \in Workers, NEW t \in tokens, NEW i \in Existing, LoadTarget(r, w, t, i)
      PROVE  /\ Requested'
             /\ \A s \in Requests \ {r} : pc'[s] = pc[s] /\ req'[s] = req[s]
             /\ req'[r].home \in Serving
             /\ t.id \in AdminsOf(users) /\ t.id \in req'[r].counted /\ t.id # req'[r].id
             /\ pc'[r] # "issuing"
  <2> DEFINE label == IF users[i].admin THEN "counting" ELSE "deleting"
  <2>0. PICK what : what = [NoReq EXCEPT !.home = w, !.id = i, !.counted = AdminsOf(users)]
    OBVIOUS
  <2>1. IsRequest(what) /\ what.home = w /\ what.id = i /\ what.counted = AdminsOf(users)
    <3>1. what = [home |-> w, id |-> i, epoch |-> NoReq.epoch,
                  proof |-> NoReq.proof, name |-> NoReq.name,
                  admin |-> NoReq.admin, counted |-> AdminsOf(users)]
      BY <2>0, NoReqIsRequest DEF IsRequest
    <3> QED
      BY <3>1, NoReqIsRequest DEF IsRequest
  <2>2. Enter(r, label, what) /\ w \in Serving
    BY <2>0, <1>4 DEF LoadTarget, AsAdmin, Start
  <2>3. label \in Labels /\ label # "issuing"
    OBVIOUS
  <2>4. t.id \in AdminsOf(users) /\ t.id # i
    BY <1>4 DEF LoadTarget, AsAdmin, Accepted, AdminsOf, Existing
  <2> HIDE DEF label
  <2> QED
    BY <2>1, <2>2, <2>3, <2>4, EnterMoves
<1>5. ASSUME CountAdmins(r)
      PROVE  /\ Requested'
             /\ \A s \in Requests \ {r} : pc'[s] = pc[s] /\ req'[s] = req[s]
             /\ pc'[r] # "idle" => req'[r].home \in Serving
             /\ pc'[r] = "deleting" =>
                   /\ pc[r] = "counting" /\ Cardinality(AdminsOf(users)) > 1
                   /\ req'[r].counted = AdminsOf(users)
             /\ pc'[r] # "issuing"
  <2>1. CASE Cardinality(AdminsOf(users)) > 1
    <3>0. PICK what : what = [req[r] EXCEPT !.counted = AdminsOf(users)]
      OBVIOUS
    <3>1. IsRequest(req[r]) /\ req[r].home \in Serving /\ pc[r] = "counting"
      BY <1>5 DEF CountAdmins, Requested, HomesServe
    <3>2. IsRequest(what) /\ what.home = req[r].home /\ what.counted = AdminsOf(users)
      <4>1. what = [home |-> req[r].home, id |-> req[r].id, epoch |-> req[r].epoch,
                    proof |-> req[r].proof, name |-> req[r].name,
                    admin |-> req[r].admin, counted |-> AdminsOf(users)]
        BY <3>0, <3>1 DEF IsRequest
      <4> QED
        BY <4>1, <3>1 DEF IsRequest
    <3>3. Enter(r, "deleting", what)
      BY <3>0, <1>5, <2>1 DEF CountAdmins
    <3> QED
      BY <2>1, <3>1, <3>2, <3>3, EnterMoves
  <2>2. CASE ~(Cardinality(AdminsOf(users)) > 1)
    <3>1. Leave(r)
      BY <1>5, <2>2 DEF CountAdmins
    <3> QED
      BY <3>1, LeaveMoves
  <2> QED
    BY <2>1, <2>2
<1>6. ASSUME Fail(r)
      PROVE  /\ Requested'
             /\ \A s \in Requests \ {r} : pc'[s] = pc[s] /\ req'[s] = req[s]
             /\ pc'[r] = "idle"
  <2>1. Leave(r)
    BY <1>6 DEF Fail
  <2> QED
    BY <2>1, LeaveMoves
<1>7. UNCHANGED <<users, tokens, phase, flagged, passwords, raced, skipped>>
  BY DEF Read, Begin, VerifyPassword, LoadForChange, CheckName, LoadTarget, CountAdmins,
         Fail
<1>8. overtaken' = overtaken \/ (overtaken' = overtaken \ {r} /\ Fail(r))
  BY DEF Read, Begin, VerifyPassword, LoadForChange, CheckName, LoadTarget, CountAdmins,
         Fail
<1> QED
  BY <1>1, <1>2, <1>3, <1>4, <1>5, <1>6, <1>7, <1>8 DEF Read, Begin

\* A step is a reading one, or one of these.
LEMMA NextSplits ==
    ASSUME Next
    PROVE  \/ \E w \in Workers :
                 \/ SeedNeeded(w) \/ SeedAdmin(w) \/ FindDefaults(w)
                 \/ FlagDefaults(w) \/ FlagFails(w) \/ Restart(w)
           \/ \E r \in Requests :
                 \/ Read(r) \/ LoginUser(r) \/ CommitChange(r)
                 \/ CommitUser(r) \/ CommitDelete(r)
BY DEF Next, GoOn, Read

-----------------------------------------------------------------------------
(* The conjuncts, one at a time *)

\* The tables keep their shape: rows typed, tokens and history too.
LEMMA TabledStep ==
    ASSUME Tabled, Requested, HomesServe, [Next]_vars
    PROVE  Tabled'
<1>1. ASSUME NEW w \in Workers, SeedAdmin(w)
      PROVE  Tabled'
  <2>1. CASE Named(SeedName)
    BY <1>1, <2>1 DEF SeedAdmin, Seed, Boot, Tabled, Existing
  <2>2. CASE ~Named(SeedName)
    <3>1. /\ Insert(SeedName, Default, TRUE) /\ raced' \in BOOLEAN
          /\ passwords' = passwords
          /\ overtaken' \subseteq Requests
      BY <1>1, <2>2 DEF SeedAdmin, Seed, Insert, Issuing, Boot, Tabled
    <3>2. SeedName \in Names /\ Default \in Nat
      BY AccountsAssumption DEF AccountsAssumption, Default
    <3> QED
      BY <3>1, <3>2, InsertAdds DEF Tabled
  <2> QED
    BY <2>1, <2>2
<1>2. ASSUME NEW w \in Workers, FlagDefaults(w)
      PROVE  Tabled'
  BY <1>2, FlagMarks DEF FlagDefaults, Boot, Tabled
<1>3. ASSUME NEW r \in Requests, LoginUser(r)
      PROVE  Tabled'
  <2>1. \A t \in tokens' : IsToken(t)
    <3> DEFINE i == req[r].id
               new == [id |-> i, epoch |-> users[i].epoch, proof |-> req[r].proof,
                       excused |-> r \in overtaken]
    <3>1. i \in Existing => IsToken(new)
      BY DEF IsToken, Tabled, Row
    <3>2. tokens' = tokens \/ (i \in Existing /\ tokens' = tokens \cup {new})
      BY <1>3 DEF LoginUser
    <3> QED
      BY <3>1, <3>2 DEF Tabled
  <2> QED
    BY <1>3, <2>1 DEF LoginUser, Tabled, Existing
<1>4. ASSUME NEW r \in Requests, CommitChange(r)
      PROVE  Tabled'
  <2>1. \A t \in tokens' : IsToken(t)
    BY <1>4, ChangeKeepsTokens DEF CommitChange
  <2>2. /\ passwords' = passwords + 1 /\ raced' = raced
        /\ passwords \in Nat /\ raced \in BOOLEAN
        /\ overtaken' \subseteq Requests
    BY <1>4 DEF CommitChange, Issuing, Tabled
  <2> QED
    BY <1>4, <2>1, <2>2, ChangeWritesOne DEF Tabled
<1>5. ASSUME NEW r \in Requests, CommitUser(r)
      PROVE  Tabled'
  <2>1. req[r].name \in Names /\ req[r].admin \in BOOLEAN
    BY DEF Requested, IsRequest
  <2>2. /\ Insert(req[r].name, passwords + 1, req[r].admin) /\ passwords + 1 \in Nat
        /\ overtaken' \subseteq Requests
    BY <1>5 DEF CommitUser, Insert, Issuing, Tabled
  <2> QED
    BY <1>5, <2>1, <2>2, InsertAdds DEF CommitUser, Tabled
<1>6. ASSUME NEW r \in Requests, CommitDelete(r)
      PROVE  Tabled'
  BY <1>6, DeleteTakesOne DEF CommitDelete, Tabled
<1>7. ASSUME NEW r \in Requests, Read(r)
      PROVE  Tabled'
  BY <1>7, ReadMoves DEF Tabled, Existing
<1>8. ASSUME NEW w \in Workers,
             SeedNeeded(w) \/ FindDefaults(w) \/ FlagFails(w) \/ Restart(w)
      PROVE  Tabled'
  BY <1>8 DEF SeedNeeded, FindDefaults, FlagFails, Restart, Boot, Tabled, Existing
<1>9. CASE UNCHANGED vars
  BY <1>9 DEF vars, Tabled, Existing
<1> QED
  BY <1>1, <1>2, <1>3, <1>4, <1>5, <1>6, <1>7, <1>8, <1>9, NextSplits

\* The workers boot phase by phase.
LEMMA BootedStep ==
    ASSUME Booted, Tabled, Requested, HomesServe, [Next]_vars
    PROVE  Booted'
<1>1. ASSUME NEW w \in Workers,
             \/ SeedNeeded(w) \/ SeedAdmin(w) \/ FindDefaults(w)
             \/ FlagDefaults(w) \/ FlagFails(w) \/ Restart(w)
      PROVE  Booted'
  <2>1. phase' \in [Workers -> Phases]
    BY <1>1 DEF SeedNeeded, SeedAdmin, FindDefaults, FlagDefaults, FlagFails, Restart, Boot,
                Booted, Phases
  <2>2. \/ flagged' = flagged
        \/ \E set : flagged' = [flagged EXCEPT ![w] = set]
    BY <1>1 DEF SeedNeeded, SeedAdmin, FindDefaults, FlagDefaults, FlagFails, Restart
  <2>3. flagged' = [v \in Workers |-> flagged'[v]]
    BY <2>2 DEF Booted
  <2> QED
    BY <2>1, <2>3 DEF Booted
<1>2. ASSUME NEW r \in Requests,
             Read(r) \/ LoginUser(r) \/ CommitChange(r) \/ CommitUser(r) \/ CommitDelete(r)
      PROVE  Booted'
  <2>1. UNCHANGED <<phase, flagged>>
    BY <1>2, ReadMoves DEF LoginUser, CommitChange, CommitUser, CommitDelete
  <2> QED
    BY <2>1 DEF Booted
<1>3. CASE UNCHANGED vars
  BY <1>3 DEF vars, Booted
<1> QED
  BY <1>1, <1>2, <1>3, NextSplits

\* What each step does to the requests and to who serves them.
LEMMA RequestsStep ==
    ASSUME Tabled, Booted, Requested, HomesServe, [Next]_vars
    PROVE  Requested' /\ HomesServe'
<1>1. ASSUME NEW w \in Workers,
             \/ SeedNeeded(w) \/ SeedAdmin(w)
             \/ FindDefaults(w) \/ FlagDefaults(w) \/ FlagFails(w)
      PROVE  Requested' /\ HomesServe'
  <2>1. UNCHANGED <<pc, req>>
    BY <1>1 DEF SeedNeeded, SeedAdmin, FindDefaults, FlagDefaults, FlagFails, Boot
  <2>2. \A v \in Serving : v \in Serving'
    BY <1>1 DEF SeedNeeded, SeedAdmin, FindDefaults, FlagDefaults, FlagFails, Boot, Booted,
                Serving
  <2> QED
    BY <2>1, <2>2 DEF Requested, HomesServe
<1>2. ASSUME NEW w \in Workers, Restart(w)
      PROVE  Requested' /\ HomesServe'
  <2>1. /\ pc' = [r \in Requests |-> IF req[r].home = w THEN "idle" ELSE pc[r]]
        /\ req' = [r \in Requests |-> IF req[r].home = w THEN NoReq ELSE req[r]]
    BY <1>2 DEF Restart
  <2>2. Requested'
    <3>1. pc' \in [Requests -> Labels]
      BY <2>1 DEF Requested, Labels
    <3>2. req' = [r \in Requests |-> req'[r]]
      BY <2>1
    <3>3. \A r \in Requests : IsRequest(req'[r])
      BY <2>1, NoReqIsRequest DEF Requested
    <3> QED
      BY <3>1, <3>2, <3>3 DEF Requested, IsRequest
  <2>3. \A v \in Serving \ {w} : v \in Serving'
    BY <1>2 DEF Restart, Booted, Serving
  <2>4. \A r \in Requests :
           pc'[r] # "idle" => /\ pc[r] # "idle" /\ req'[r] = req[r]
                              /\ req[r].home # w
    BY <2>1
  <2> QED
    BY <2>2, <2>3, <2>4 DEF HomesServe
<1>3. ASSUME NEW r \in Requests, LoginUser(r) \/ CommitUser(r) \/ CommitDelete(r)
      PROVE  Requested' /\ HomesServe'
  <2>1. Leave(r) /\ Serving' = Serving
    BY <1>3 DEF LoginUser, CommitUser, CommitDelete, Serving
  <2> QED
    BY <2>1, LeaveMoves DEF HomesServe
<1>4. ASSUME NEW r \in Requests, CommitChange(r)
      PROVE  Requested' /\ HomesServe'
  <2>0. PICK what : what = [req[r] EXCEPT !.proof = passwords', !.epoch = 0]
    OBVIOUS
  <2>1. IsRequest(req[r]) /\ pc[r] # "idle" /\ req[r].home \in Serving
    BY <1>4 DEF CommitChange, Requested, HomesServe
  <2>2. IsRequest(what) /\ what.home = req[r].home
    <3>1. what = [home |-> req[r].home, id |-> req[r].id, epoch |-> 0,
                  proof |-> passwords', name |-> req[r].name,
                  admin |-> req[r].admin, counted |-> req[r].counted]
      BY <2>0, <2>1 DEF IsRequest
    <3> QED
      BY <3>1, <2>1 DEF IsRequest
  <2>3. Enter(r, "issuing", what) /\ Serving' = Serving /\ "issuing" \in Labels
    BY <2>0, <1>4 DEF CommitChange, Serving, Labels
  <2> QED
    BY <2>1, <2>2, <2>3, EnterMoves DEF HomesServe
<1>5. ASSUME NEW r \in Requests, Read(r)
      PROVE  Requested' /\ HomesServe'
  <2>1. Serving' = Serving
    BY <1>5, ReadMoves DEF Serving
  <2> QED
    BY <1>5, <2>1, ReadMoves DEF HomesServe
<1>6. CASE UNCHANGED vars
  BY <1>6 DEF vars, Requested, HomesServe, Serving
<1> QED
  BY <1>1, <1>2, <1>3, <1>4, <1>5, <1>6, NextSplits

\* Who counts more than one admin counts one that it does not delete.
LEMMA TwoAdmins ==
    ASSUME NEW S, Cardinality(S) > 1, NEW id
    PROVE  \E a \in S : a # id
<1> SUFFICES ASSUME \A a \in S : a = id
             PROVE  FALSE
    OBVIOUS
<1>1. S = {} \/ S = {id}
  OBVIOUS
<1>2. Cardinality({}) = 0 /\ Cardinality({id}) = 1
  BY FS_EmptySet, FS_Singleton
<1> QED
  BY <1>1, <1>2

\* A deletion is reached by a count, or past an admin who deletes somebody else.
LEMMA DeletersLeaveOneStep ==
    ASSUME Tabled, Requested, HomesServe, DeletersLeaveOne, [Next]_vars
    PROVE  DeletersLeaveOne'
<1>1. ASSUME NEW w \in Workers,
             \/ SeedNeeded(w) \/ SeedAdmin(w)
             \/ FindDefaults(w) \/ FlagDefaults(w) \/ FlagFails(w)
      PROVE  DeletersLeaveOne'
  <2>1. UNCHANGED <<pc, req>>
    BY <1>1 DEF SeedNeeded, SeedAdmin, FindDefaults, FlagDefaults, FlagFails, Boot
  <2> QED
    BY <2>1 DEF DeletersLeaveOne
<1>2. ASSUME NEW w \in Workers, Restart(w)
      PROVE  DeletersLeaveOne'
  <2>1. \A r \in Requests : pc'[r] # "idle" => pc'[r] = pc[r] /\ req'[r] = req[r]
    BY <1>2 DEF Restart
  <2>2. \A r \in Requests : pc'[r] = "deleting" => pc[r] = "deleting" /\ req'[r] = req[r]
    BY <2>1
  <2> QED
    BY <2>2 DEF DeletersLeaveOne
<1>3. ASSUME NEW r \in Requests, LoginUser(r) \/ CommitUser(r) \/ CommitDelete(r)
      PROVE  DeletersLeaveOne'
  <2>1. Leave(r)
    BY <1>3 DEF LoginUser, CommitUser, CommitDelete
  <2> QED
    BY <2>1, LeaveMoves DEF DeletersLeaveOne
<1>4. ASSUME NEW r \in Requests, CommitChange(r)
      PROVE  DeletersLeaveOne'
  <2>1. PICK what : Enter(r, "issuing", what)
    BY <1>4 DEF CommitChange
  <2>2. pc'[r] = "issuing" /\ \A s \in Requests \ {r} : pc'[s] = pc[s] /\ req'[s] = req[s]
    BY <2>1 DEF Enter, Requested
  <2> QED
    BY <2>2 DEF DeletersLeaveOne
<1>5. ASSUME NEW r \in Requests, Read(r)
      PROVE  DeletersLeaveOne'
  <2>1. /\ \A s \in Requests \ {r} : pc'[s] = pc[s] /\ req'[s] = req[s]
        /\ pc'[r] = "deleting" =>
              \/ /\ Cardinality(AdminsOf(users)) > 1
                 /\ req'[r].counted = AdminsOf(users)
              \/ \E a \in AdminsOf(users) : a \in req'[r].counted /\ a # req'[r].id
    BY <1>5, ReadMoves
  <2>2. pc'[r] = "deleting" => \E a \in req'[r].counted : a # req'[r].id
    BY <2>1, TwoAdmins
  <2> QED
    BY <2>1, <2>2 DEF DeletersLeaveOne
<1>6. CASE UNCHANGED vars
  BY <1>6 DEF vars, DeletersLeaveOne
<1> QED
  BY <1>1, <1>2, <1>3, <1>4, <1>5, <1>6, NextSplits

\* An admin is never the one that is missed, unless a deletion is raced.
LEMMA SeededOnceStep ==
    ASSUME Tabled, Booted, Requested, HomesServe, DeletersLeaveOne, SeededOnce, [Next]_vars
    PROVE  SeededOnce'
<1> USE DEF AdminsOf, Existing
<1>1. ASSUME NEW w \in Workers, SeedNeeded(w)
      PROVE  SeededOnce'
  BY <1>1 DEF SeedNeeded, Boot, Booted, SeededOnce
<1>2. ASSUME NEW w \in Workers, SeedAdmin(w)
      PROVE  SeededOnce'
  <2>1. \A v \in Workers : phase'[v] \notin {"booting", "seeding"} =>
           v = w \/ phase[v] \notin {"booting", "seeding"}
    BY <1>2 DEF SeedAdmin, Boot, Booted
  <2>2. CASE Named(SeedName)
    <3>1. Existing # {} /\ UNCHANGED <<users, raced>>
      BY <1>2, <2>2 DEF SeedAdmin, Seed, Named
    <3> QED
      BY <2>1, <3>1 DEF SeededOnce
  <2>3. CASE ~Named(SeedName)
    <3>1. /\ Insert(SeedName, Default, TRUE)
          /\ raced' = (raced \/ Existing # {})
      BY <1>2, <2>3 DEF SeedAdmin, Seed
    <3>2. SeedName \in Names /\ Default \in Nat
      BY AccountsAssumption DEF AccountsAssumption, Default
    <3>3. /\ Existing' = Existing \cup {FreshId}
          /\ FreshId \notin Existing => users'[FreshId].admin = TRUE
      BY <3>1, <3>2, InsertAdds
    <3>4. ~raced' => Existing' # {} /\ AdminsOf(users') # {}
      BY <3>1, <3>3
    <3> QED
      BY <3>4 DEF SeededOnce
  <2> QED
    BY <2>2, <2>3
<1>3. ASSUME NEW w \in Workers, FindDefaults(w) \/ FlagFails(w)
      PROVE  SeededOnce'
  BY <1>3 DEF FindDefaults, FlagFails, Boot, Booted, SeededOnce
<1>4. ASSUME NEW w \in Workers, FlagDefaults(w)
      PROVE  SeededOnce'
  <2>1. /\ phase[w] = "committing" /\ phase' = [phase EXCEPT ![w] = "serving"]
        /\ raced' = raced
    BY <1>4 DEF FlagDefaults, Boot
  <2>2. Existing' = Existing /\ AdminsOf(users') = AdminsOf(users)
    BY <1>4, FlagMarks
  <2> QED
    BY <2>1, <2>2 DEF SeededOnce, Booted
<1>5. ASSUME NEW w \in Workers, Restart(w)
      PROVE  SeededOnce'
  BY <1>5 DEF Restart, Booted, SeededOnce
<1>6. ASSUME NEW r \in Requests, CommitChange(r)
      PROVE  SeededOnce'
  <2>1. Existing' = Existing /\ AdminsOf(users') = AdminsOf(users)
    BY <1>6, ChangeWritesOne
  <2>2. UNCHANGED <<phase, raced>>
    BY <1>6 DEF CommitChange
  <2> QED
    BY <2>1, <2>2 DEF SeededOnce
<1>7. ASSUME NEW r \in Requests, CommitUser(r)
      PROVE  SeededOnce'
  <2>1. req[r].name \in Names /\ req[r].admin \in BOOLEAN
    BY DEF Requested, IsRequest
  <2>2. /\ Insert(req[r].name, passwords + 1, req[r].admin) /\ passwords + 1 \in Nat
        /\ UNCHANGED <<phase, raced>>
    BY <1>7 DEF CommitUser, Tabled
  <2>3. Existing \subseteq Existing' /\ \A i \in Existing : users'[i] = users[i]
    BY <2>1, <2>2, InsertAdds
  <2>4. PICK w \in Workers : phase[w] = "serving"
    BY <1>7 DEF CommitUser, HomesServe, Serving
  <2>5. ~raced => AdminsOf(users) # {}
    BY <2>4 DEF SeededOnce
  <2> QED
    BY <2>2, <2>3, <2>5 DEF SeededOnce
<1>8. ASSUME NEW r \in Requests, CommitDelete(r)
      PROVE  SeededOnce'
  <2>1. /\ pc[r] = "deleting" /\ UNCHANGED phase
        /\ raced' = (raced \/ ~(req[r].counted \subseteq AdminsOf(users)))
    BY <1>8 DEF CommitDelete
  <2>2. PICK a \in req[r].counted : a # req[r].id
    BY <2>1 DEF DeletersLeaveOne
  <2>3. /\ Existing' = Existing \ {req[r].id}
        /\ \A i \in Existing' : users'[i] = users[i]
    BY <1>8, DeleteTakesOne
  <2>4. ~raced' => a \in AdminsOf(users)
    BY <2>1
  <2>5. ~raced' => a \in Existing' /\ a \in AdminsOf(users')
    BY <2>2, <2>3, <2>4
  <2> QED
    BY <2>5 DEF SeededOnce
<1>9. ASSUME NEW r \in Requests, Read(r) \/ LoginUser(r)
      PROVE  SeededOnce'
  <2>1. UNCHANGED <<users, phase, raced>>
    BY <1>9, ReadMoves DEF LoginUser
  <2> QED
    BY <2>1 DEF SeededOnce
<1>10. CASE UNCHANGED vars
  BY <1>10 DEF vars, SeededOnce
<1> QED
  BY <1>1, <1>2, <1>3, <1>4, <1>5, <1>6, <1>7, <1>8, <1>9, <1>10, NextSplits

\* With no account of the default password more, what the workers found is enough.
LEMMA FewerDefaults ==
    ASSUME DefaultsAreFound, ~raced' => ~raced,
           Defaults' \subseteq Defaults, Missed' \subseteq Missed,
           UNCHANGED <<phase, flagged>>
    PROVE  DefaultsAreFound'
BY DEF DefaultsAreFound

\* The default password is found before it is served.
LEMMA DefaultsAreFoundStep ==
    ASSUME Tabled, Booted, Requested, HomesServe, SeededOnce, DefaultsAreFound, [Next]_vars
    PROVE  DefaultsAreFound'
<1> USE DEF Defaults, Unmarked, Missed, Default
<1>1. ASSUME NEW w \in Workers, SeedNeeded(w)
      PROVE  DefaultsAreFound'
  <2>1. UNCHANGED <<users, flagged, raced, skipped>> /\ Existing' = Existing
    BY <1>1 DEF SeedNeeded, Existing
  <2>2. \A v \in Workers : phase'[v] \in {"committing", "serving"} => phase'[v] = phase[v]
    BY <1>1 DEF SeedNeeded, Boot, Booted
  <2> QED
    BY <2>1, <2>2 DEF DefaultsAreFound
<1>2. ASSUME NEW w \in Workers, SeedAdmin(w)
      PROVE  DefaultsAreFound'
  <2>1. \A v \in Workers : phase'[v] \in {"committing", "serving"} => phase'[v] = phase[v]
    BY <1>2 DEF SeedAdmin, Boot, Booted
  <2>2. UNCHANGED <<flagged, skipped>>
    BY <1>2 DEF SeedAdmin
  <2>3. CASE Named(SeedName)
    <3>1. UNCHANGED <<users, raced>> /\ Existing' = Existing
      BY <1>2, <2>3 DEF SeedAdmin, Seed, Existing
    <3> QED
      BY <2>1, <2>2, <3>1 DEF DefaultsAreFound
  <2>4. CASE ~Named(SeedName)
    <3>1. /\ Insert(SeedName, Default, TRUE)
          /\ raced' = (raced \/ Existing # {})
      BY <1>2, <2>4 DEF SeedAdmin, Seed
    <3>2. SeedName \in Names /\ 0 \in Nat
      BY AccountsAssumption DEF AccountsAssumption
    <3>3. Existing' = Existing \cup {FreshId}
      BY <3>1, <3>2, InsertAdds
    <3> SUFFICES ASSUME ~raced'
                 PROVE  DefaultsAreFound'
        BY DEF DefaultsAreFound
    <3>4. Existing = {} /\ ~raced
      BY <3>1
    <3>5. \A v \in Workers : phase'[v] \notin {"committing", "serving"}
      BY <2>1, <3>4 DEF SeededOnce
    <3> QED
      BY <3>3, <3>4, <3>5 DEF DefaultsAreFound
  <2> QED
    BY <2>3, <2>4
<1>3. ASSUME NEW w \in Workers, FindDefaults(w)
      PROVE  DefaultsAreFound'
  <2>1. /\ UNCHANGED <<users, raced, skipped>> /\ Existing' = Existing
        /\ phase[w] = "flagging" /\ phase' = [phase EXCEPT ![w] = "committing"]
        /\ flagged' = [flagged EXCEPT ![w] = Unmarked]
    BY <1>3 DEF FindDefaults, Boot, Existing
  <2>2. /\ phase'[w] = "committing" /\ flagged'[w] = Unmarked
        /\ \A v \in Workers \ {w} : phase'[v] = phase[v] /\ flagged'[v] = flagged[v]
    BY <2>1 DEF Booted
  <2> QED
    BY <2>1, <2>2 DEF DefaultsAreFound
<1>4. ASSUME NEW w \in Workers, FlagDefaults(w)
      PROVE  DefaultsAreFound'
  <2>1. /\ raced' = raced
        /\ phase[w] = "committing" /\ phase' = [phase EXCEPT ![w] = "serving"]
        /\ flagged' = [flagged EXCEPT ![w] = {}]
    BY <1>4 DEF FlagDefaults, Boot
  <2>2. /\ phase'[w] = "serving"
        /\ \A v \in Workers \ {w} : phase'[v] = phase[v] /\ flagged'[v] = flagged[v]
    BY <2>1 DEF Booted
  <2>3. /\ Defaults' = Defaults /\ Missed' \subseteq Missed
        /\ flagged[w] \subseteq Existing => Missed' \subseteq Missed \ flagged[w]
    <3>1. /\ Defaults' = Defaults /\ Unmarked' \subseteq Unmarked
          /\ flagged[w] \subseteq Existing => Unmarked' \subseteq Unmarked \ flagged[w]
      BY <1>4, FlagMarks
    <3>2. skipped' = IF flagged[w] \subseteq Existing THEN skipped \ flagged[w] ELSE skipped
      BY <1>4 DEF FlagDefaults
    <3> QED
      BY <3>1, <3>2
  <2>4. ~raced => Missed \subseteq flagged[w] /\ \A i, j \in flagged[w] : i = j
    BY <2>1 DEF DefaultsAreFound
  <2>5. ~raced => Missed' = {}
    <3>1. CASE flagged[w] \subseteq Existing
      BY <2>3, <2>4, <3>1
    <3>2. CASE ~(flagged[w] \subseteq Existing)
      <4>1. PICK x \in flagged[w] : x \notin Existing
        BY <3>2
      <4>2. ~raced => Missed = {}
        BY <2>4, <4>1
      <4> QED
        BY <2>3, <4>2
    <3> QED
      BY <3>1, <3>2
  <2> QED
    BY <2>1, <2>2, <2>3, <2>5 DEF DefaultsAreFound
<1>5. ASSUME NEW w \in Workers, Restart(w)
      PROVE  DefaultsAreFound'
  <2>1. /\ UNCHANGED <<users, raced, skipped>> /\ Existing' = Existing
        /\ phase'[w] = "booting"
        /\ \A v \in Workers \ {w} : phase'[v] = phase[v] /\ flagged'[v] = flagged[v]
    BY <1>5 DEF Restart, Booted, Existing
  <2> QED
    BY <2>1 DEF DefaultsAreFound
<1>6. ASSUME NEW r \in Requests, CommitChange(r)
      PROVE  DefaultsAreFound'
  <2>1. UNCHANGED <<phase, flagged, raced, skipped>>
    BY <1>6 DEF CommitChange
  <2>2. passwords + 1 # 0
    BY DEF Tabled
  <2>3. Defaults' \subseteq Defaults /\ Missed' \subseteq Missed
    BY <1>6, <2>1, <2>2, ChangeWritesOne
  <2> QED
    BY <2>1, <2>3, FewerDefaults
<1>7. ASSUME NEW r \in Requests, CommitUser(r)
      PROVE  DefaultsAreFound'
  <2>1. req[r].name \in Names /\ req[r].admin \in BOOLEAN
    BY DEF Requested, IsRequest
  <2>2. /\ Insert(req[r].name, passwords + 1, req[r].admin)
        /\ passwords + 1 \in Nat /\ passwords + 1 # 0
        /\ UNCHANGED <<phase, flagged, raced, skipped>>
    BY <1>7 DEF CommitUser, Tabled
  <2>3. Defaults' \subseteq Defaults /\ Missed' \subseteq Missed
    BY <2>1, <2>2, InsertAdds
  <2> QED
    BY <2>2, <2>3, FewerDefaults
<1>8. ASSUME NEW r \in Requests, CommitDelete(r)
      PROVE  DefaultsAreFound'
  <2>1. /\ UNCHANGED <<phase, flagged>> /\ (~raced' => ~raced)
        /\ skipped' = skipped \ {req[r].id}
    BY <1>8 DEF CommitDelete
  <2>2. Defaults' \subseteq Defaults /\ Missed' \subseteq Missed
    BY <1>8, <2>1, DeleteTakesOne
  <2> QED
    BY <2>1, <2>2, FewerDefaults
<1>9. ASSUME NEW r \in Requests, Read(r) \/ LoginUser(r)
      PROVE  DefaultsAreFound'
  <2>1. UNCHANGED <<users, phase, flagged, raced, skipped>>
    <3>1. CASE Read(r)
      BY <3>1, ReadMoves
    <3> QED
      BY <1>9, <3>1 DEF LoginUser
  <2> QED
    BY <2>1, FewerDefaults DEF Existing
<1>10. CASE UNCHANGED vars
  BY <1>10, FewerDefaults DEF vars, Existing
<1>11. ASSUME NEW w \in Workers, FlagFails(w)
       PROVE  DefaultsAreFound'
  <2>1. /\ UNCHANGED <<users, raced>> /\ Existing' = Existing
        /\ phase' = [phase EXCEPT ![w] = "serving"]
        /\ flagged' = [flagged EXCEPT ![w] = {}]
        /\ skipped' = skipped \cup Unmarked
    BY <1>11 DEF FlagFails, Boot, Existing
  <2>2. /\ phase'[w] = "serving"
        /\ \A v \in Workers \ {w} : phase'[v] = phase[v] /\ flagged'[v] = flagged[v]
    BY <2>1 DEF Booted
  <2>3. Missed' = {}
    BY <2>1
  <2> QED
    BY <2>1, <2>2, <2>3 DEF DefaultsAreFound
<1> QED
  BY <1>1, <1>2, <1>3, <1>4, <1>5, <1>6, <1>7, <1>8, <1>9, <1>10, <1>11,
     NextSplits

\* No token is of a later epoch than its account, and no account gets an epoch back,
\* but where a change is overtaken by another, or an id is used again.
LEMMA TokensAreOldStep ==
    ASSUME Tabled, Requested, HomesServe, TokensAreOld, IssuersKnow, [Next]_vars
    PROVE  TokensAreOld'
<1> USE DEF TokensAreOld
<1>1. ASSUME NEW name \in Names, NEW password \in Nat, NEW admin \in BOOLEAN,
             Insert(name, password, admin)
      PROVE  TokensAreOld'
  <2> SUFFICES ASSUME NEW u \in tokens', u.id \in Existing', ~u.excused
               PROVE  /\ u.epoch <= users'[u.id].epoch
                      /\ u.epoch = users'[u.id].epoch => u.proof = users'[u.id].pw
      OBVIOUS
  <2>1. /\ Existing' = Existing \cup {FreshId}
        /\ \A i \in Existing : users'[i] = users[i]
    BY <1>1, InsertAdds
  <2>2. u \in Excuse(FreshId, 0)
    BY <1>1 DEF Insert
  <2>3. PICK t \in tokens :
           /\ u.id = t.id /\ u.epoch = t.epoch /\ u.proof = t.proof
           /\ u.excused <=> (t.excused \/ (t.id = FreshId /\ t.epoch >= 0))
    BY <2>2, ExcuseKeeps
  <2>4. t.epoch >= 0
    BY DEF Tabled, IsToken
  <2>5. u.id \in Existing
    BY <2>1, <2>3, <2>4
  <2> QED
    BY <2>1, <2>3, <2>5
<1>2. ASSUME NEW w \in Workers, SeedAdmin(w)
      PROVE  TokensAreOld'
  <2>1. CASE Named(SeedName)
    BY <1>2, <2>1 DEF SeedAdmin, Seed, Existing
  <2>2. CASE ~Named(SeedName)
    <3>1. Insert(SeedName, Default, TRUE) /\ SeedName \in Names /\ Default \in Nat
      BY <1>2, <2>2, AccountsAssumption DEF SeedAdmin, Seed, AccountsAssumption, Default
    <3> QED
      BY <1>1, <3>1
  <2> QED
    BY <2>1, <2>2
<1>3. ASSUME NEW w \in Workers, FlagDefaults(w)
      PROVE  TokensAreOld'
  <2>1. tokens' = tokens
    BY <1>3 DEF FlagDefaults
  <2> QED
    BY <1>3, <2>1, FlagMarks
<1>4. ASSUME NEW r \in Requests, LoginUser(r)
      PROVE  TokensAreOld'
  <2> DEFINE i == req[r].id
  <2>1. UNCHANGED users /\ Existing' = Existing
    BY <1>4 DEF LoginUser, Existing
  <2>2. PICK new : new = [id |-> i, epoch |-> users[i].epoch, proof |-> req[r].proof,
                          excused |-> r \in overtaken]
    OBVIOUS
  <2>3. /\ new.id = i /\ new.epoch = users[i].epoch /\ new.proof = req[r].proof
        /\ new.excused <=> r \in overtaken
    BY <2>2
  <2>4. tokens' = tokens \/ (i \in Existing /\ tokens' = tokens \cup {new})
    BY <1>4, <2>2 DEF LoginUser
  <2>5. i \in Existing => users[i].epoch \in Nat
    BY DEF Tabled, Row
  <2>6. i \in Existing /\ r \notin overtaken => req[r].proof = users[i].pw
    BY <1>4 DEF LoginUser, IssuersKnow
  <2> HIDE DEF i
  <2>7. \A t \in tokens' : t \in tokens \/ (t = new /\ i \in Existing)
    BY <2>4
  <2>8. i \in Existing => users[i].epoch <= users[i].epoch
    BY <2>5
  <2> QED
    BY <2>1, <2>3, <2>6, <2>7, <2>8
<1>5. ASSUME NEW r \in Requests, CommitChange(r)
      PROVE  TokensAreOld'
  <2> DEFINE i == req[r].id
  <2> SUFFICES ASSUME NEW u \in tokens', u.id \in Existing', ~u.excused
               PROVE  /\ u.epoch <= users'[u.id].epoch
                      /\ u.epoch = users'[u.id].epoch => u.proof = users'[u.id].pw
      OBVIOUS
  <2>1. /\ Existing' = Existing /\ i \in Existing
        /\ \A j \in Existing \ {i} : users'[j] = users[j]
        /\ users'[i].epoch = req[r].epoch + 1
    BY <1>5, ChangeWritesOne
  <2>2. PICK t \in tokens :
           /\ u.id = t.id /\ u.epoch = t.epoch /\ u.proof = t.proof
           /\ u.excused <=>
                 \/ t.excused
                 \/ users[i].epoch # req[r].epoch /\ t.id = i /\ t.epoch >= req[r].epoch + 1
    BY <1>5, ChangeKeepsTokens DEF CommitChange
  <2>3. t.epoch \in Nat /\ users[i].epoch \in Nat /\ req[r].epoch \in Nat
    BY <2>1 DEF Tabled, IsToken, Row, Requested, IsRequest
  <2>4. CASE u.id = i
    <3>1. t.epoch <= users[i].epoch
      BY <2>1, <2>2, <2>4
    <3>2. t.epoch < req[r].epoch + 1
      BY <2>2, <2>3, <2>4, <3>1
    <3> QED
      BY <2>1, <2>2, <2>3, <2>4, <3>2
  <2>5. CASE u.id # i
    BY <2>1, <2>2, <2>5
  <2> QED
    BY <2>4, <2>5
<1>6. ASSUME NEW r \in Requests, CommitUser(r)
      PROVE  TokensAreOld'
  <2>1. req[r].name \in Names /\ req[r].admin \in BOOLEAN
    BY DEF Requested, IsRequest
  <2>2. Insert(req[r].name, passwords + 1, req[r].admin) /\ passwords + 1 \in Nat
    BY <1>6 DEF CommitUser, Tabled
  <2> QED
    BY <1>1, <2>1, <2>2
<1>7. ASSUME NEW r \in Requests, CommitDelete(r)
      PROVE  TokensAreOld'
  <2>1. tokens' = tokens
    BY <1>7 DEF CommitDelete
  <2> QED
    BY <1>7, <2>1, DeleteTakesOne
<1>8. ASSUME NEW r \in Requests, Read(r)
      PROVE  TokensAreOld'
  <2>1. UNCHANGED <<users, tokens>>
    BY <1>8, ReadMoves
  <2> QED
    BY <2>1 DEF Existing
<1>9. ASSUME NEW w \in Workers,
             SeedNeeded(w) \/ FindDefaults(w) \/ FlagFails(w) \/ Restart(w)
      PROVE  TokensAreOld'
  BY <1>9 DEF SeedNeeded, FindDefaults, FlagFails, Restart, Existing
<1>10. CASE UNCHANGED vars
  BY <1>10 DEF vars, Existing
<1> QED
  BY <1>2, <1>3, <1>4, <1>5, <1>6, <1>7, <1>8, <1>9, <1>10, NextSplits

\* Whoever writes a password overtakes those who were shown the one before.
LEMMA IssuersKnowStep ==
    ASSUME Tabled, Requested, HomesServe, IssuersKnow, [Next]_vars
    PROVE  IssuersKnow'
<1> USE DEF IssuersKnow
<1>1. ASSUME NEW name \in Names, NEW password \in Nat, NEW admin \in BOOLEAN,
             Insert(name, password, admin),
             NEW s \in Requests, pc[s] = "issuing", s \notin overtaken',
             req[s].id \in Existing'
      PROVE  req[s].proof = users'[req[s].id].pw
  <2>1. /\ Existing' = Existing \cup {FreshId}
        /\ \A i \in Existing : users'[i] = users[i]
    BY <1>1, InsertAdds
  <2>2. s \notin overtaken /\ req[s].id # FreshId
    BY <1>1 DEF Insert, Issuing
  <2> QED
    BY <1>1, <2>1, <2>2
<1>2. ASSUME NEW w \in Workers, SeedAdmin(w)
      PROVE  IssuersKnow'
  <2>1. UNCHANGED <<pc, req>>
    BY <1>2 DEF SeedAdmin, Boot
  <2>2. CASE Named(SeedName)
    BY <1>2, <2>1, <2>2 DEF SeedAdmin, Seed, Existing
  <2>3. CASE ~Named(SeedName)
    <3>1. Insert(SeedName, Default, TRUE) /\ SeedName \in Names /\ Default \in Nat
      BY <1>2, <2>3, AccountsAssumption DEF SeedAdmin, Seed, AccountsAssumption, Default
    <3> QED
      BY <1>1, <2>1, <3>1
  <2> QED
    BY <2>2, <2>3
<1>3. ASSUME NEW w \in Workers, FlagDefaults(w)
      PROVE  IssuersKnow'
  <2>1. UNCHANGED <<pc, req, overtaken>>
    BY <1>3 DEF FlagDefaults, Boot
  <2> QED
    BY <1>3, <2>1, FlagMarks
<1>4. ASSUME NEW r \in Requests, LoginUser(r)
      PROVE  IssuersKnow'
  <2>1. Leave(r) /\ UNCHANGED users /\ Existing' = Existing /\ overtaken' = overtaken \ {r}
    BY <1>4 DEF LoginUser, Existing
  <2> QED
    BY <2>1, LeaveMoves
<1>5. ASSUME NEW r \in Requests, CommitChange(r)
      PROVE  IssuersKnow'
  <2> DEFINE i == req[r].id
  <2>1. /\ Existing' = Existing /\ i \in Existing
        /\ \A j \in Existing \ {i} : users'[j] = users[j]
        /\ users'[i].pw = passwords + 1
    BY <1>5, ChangeWritesOne
  <2>2. /\ overtaken' = overtaken \cup Issuing(i)
        /\ passwords' = passwords + 1
    BY <1>5 DEF CommitChange
  <2>3. PICK what : /\ what = [req[r] EXCEPT !.proof = passwords', !.epoch = 0]
                    /\ Enter(r, "issuing", what)
    BY <1>5 DEF CommitChange
  <2>4. IsRequest(req[r])
    BY DEF Requested
  <2>5. what.id = i /\ what.proof = passwords + 1
    <3>1. what = [home |-> req[r].home, id |-> req[r].id, epoch |-> 0,
                  proof |-> passwords', name |-> req[r].name,
                  admin |-> req[r].admin, counted |-> req[r].counted]
      BY <2>3, <2>4 DEF IsRequest
    <3> QED
      BY <2>2, <3>1
  <2>6. /\ req'[r] = what
        /\ \A s \in Requests \ {r} : pc'[s] = pc[s] /\ req'[s] = req[s]
    BY <2>3 DEF Enter, Requested
  <2>7. ASSUME NEW s \in Requests \ {r}, pc[s] = "issuing", s \notin overtaken',
               req[s].id \in Existing
        PROVE  req[s].proof = users'[req[s].id].pw
    <3>1. s \notin overtaken /\ req[s].id # i
      BY <2>2, <2>7 DEF Issuing
    <3> QED
      BY <2>1, <2>7, <3>1
  <2> QED
    BY <2>1, <2>5, <2>6, <2>7
<1>6. ASSUME NEW r \in Requests, CommitUser(r)
      PROVE  IssuersKnow'
  <2>1. req[r].name \in Names /\ req[r].admin \in BOOLEAN
    BY DEF Requested, IsRequest
  <2>2. /\ Insert(req[r].name, passwords + 1, req[r].admin) /\ passwords + 1 \in Nat
        /\ Leave(r)
    BY <1>6 DEF CommitUser, Tabled
  <2> QED
    BY <1>1, <2>1, <2>2, LeaveMoves
<1>7. ASSUME NEW r \in Requests, CommitDelete(r)
      PROVE  IssuersKnow'
  <2>1. Leave(r) /\ UNCHANGED overtaken
    BY <1>7 DEF CommitDelete
  <2> QED
    BY <1>7, <2>1, LeaveMoves, DeleteTakesOne
<1>8. ASSUME NEW r \in Requests, Read(r)
      PROVE  IssuersKnow'
  <2>1. /\ UNCHANGED users /\ Existing' = Existing
        /\ \A s \in Requests \ {r} :
              /\ pc'[s] = pc[s] /\ req'[s] = req[s]
              /\ s \in overtaken' <=> s \in overtaken
        /\ pc'[r] = "issuing" => req'[r].proof = users[req'[r].id].pw
    BY <1>8, ReadMoves DEF Existing
  <2> QED
    BY <2>1
<1>9. ASSUME NEW w \in Workers, SeedNeeded(w) \/ FindDefaults(w) \/ FlagFails(w)
      PROVE  IssuersKnow'
  BY <1>9 DEF SeedNeeded, FindDefaults, FlagFails, Boot, Existing
<1>10. ASSUME NEW w \in Workers, Restart(w)
       PROVE  IssuersKnow'
  <2>1. UNCHANGED users /\ Existing' = Existing
    BY <1>10 DEF Restart, Existing
  <2>2. \A s \in Requests :
           pc'[s] = "issuing" =>
               /\ pc[s] = "issuing" /\ req'[s] = req[s]
               /\ s \in overtaken' <=> s \in overtaken
    BY <1>10 DEF Restart
  <2> QED
    BY <2>1, <2>2
<1>11. CASE UNCHANGED vars
  BY <1>11 DEF vars, Existing
<1> QED
  BY <1>2, <1>3, <1>4, <1>5, <1>6, <1>7, <1>8, <1>9, <1>10, <1>11, NextSplits

-----------------------------------------------------------------------------
(* How many ids, and how high a password and an epoch, there can be *)

Seeders == {w \in Workers : phase[w] \in {"booting", "seeding"}}

\* A row is inserted under a new password, or by a worker that has still to seed.
LastId == passwords + restarts + Cardinality(Workers) - Cardinality(Seeders)

Known(q, k, p) ==
    /\ q.home \in Workers \cup {None} /\ q.id \in 0 .. k /\ q.counted \subseteq 1 .. k
    /\ q.epoch \in 0 .. p /\ q.proof \in 0 .. p

\* No id is above k, no password and no epoch above p.
Within(k, p) ==
    /\ \A i \in Existing : i \in 1 .. k /\ users[i].pw \in 0 .. p /\ users[i].epoch \in 0 .. p
    /\ \A t \in tokens : t.id \in 1 .. k /\ t.epoch \in 0 .. p /\ t.proof \in 0 .. p
    /\ \A w \in Workers : flagged[w] \subseteq 1 .. k
    /\ \A r \in Requests : Known(req[r], k, p)
    /\ skipped \subseteq 1 .. k

IdInv ==
    /\ passwords \in 0 .. MaxPasswords /\ restarts \in 0 .. MaxRestarts
    /\ Within(LastId, passwords)

\* A set of natural numbers has a least one: what an induction over them comes down to.
LEMMA LeastNumber ==
    ASSUME NEW B \in SUBSET Nat, B # {}
    PROVE  \E n \in B : \A m \in B : n <= m
<1> DEFINE R == {p \in Nat \X Nat : p[1] < p[2]}
<1>1. IsWellFoundedOn(R, Nat)
  BY NatLessThanWellFounded DEF OpToRel
<1> HIDE DEF R
<1>2. \E n \in B : \A m \in B : ~(<<m, n>> \in R)
  BY <1>1, WFMin
<1>3. \A m, n \in B : ~(<<m, n>> \in R) => n <= m
  BY DEF R
<1> QED
  BY <1>2, <1>3

\* The highest id that is below a bound exists, and the next one is fresh.
LEMMA FreshIdIsNext ==
    ASSUME NEW k \in Nat, Existing \subseteq 1 .. k
    PROVE  FreshId \in 1 .. (k + 1) /\ FreshId \notin Existing
<1>1. CASE Existing = {}
  BY <1>1 DEF FreshId
<1>2. CASE Existing # {}
  <2> DEFINE bounds == {n \in Nat : \A i \in Existing : i <= n}
  <2>1. k \in bounds /\ bounds \in SUBSET Nat
    OBVIOUS
  <2>2. PICK n \in bounds : \A m \in bounds : n <= m
    <3> HIDE DEF bounds
    <3> QED
      BY <2>1, LeastNumber
  <2>3. n \in Nat /\ \A i \in Existing : i \in Nat /\ i > 0 /\ i <= n
    OBVIOUS
  <2>4. n > 0
    <3>1. PICK i \in Existing : TRUE
      BY <1>2
    <3>2. i \in Nat /\ i > 0 /\ i <= n
      BY <2>3
    <3> QED
      BY <2>3, <3>2
  <2>5. n \in Existing
    <3>1. SUFFICES ASSUME n \notin Existing
                   PROVE  FALSE
      OBVIOUS
    <3>2. \A i \in Existing : i <= n - 1
      BY <2>3, <3>1
    <3>3. n - 1 \in bounds
      BY <2>3, <2>4, <3>2
    <3> QED
      BY <2>2, <2>3, <3>3
  <2>6. PICK top \in Existing : top = Max(Existing) /\ \A i \in Existing : top >= i
    BY <2>3, <2>5 DEF Max
  <2>7. FreshId = top + 1
    BY <1>2, <2>6 DEF FreshId
  <2> QED
    BY <2>3, <2>6, <2>7
<1> QED
  BY <1>1, <1>2

\* The workers that have still to seed are some of them.
LEMMA SeedersAreFew ==
    /\ IsFiniteSet(Seeders) /\ Cardinality(Seeders) \in Nat /\ Cardinality(Workers) \in Nat
    /\ Cardinality(Seeders) <= Cardinality(Workers)
<1>1. IsFiniteSet(Workers) /\ Seeders \subseteq Workers
  BY AccountsAssumption DEF Seeders
<1> QED
  BY <1>1, FS_Subset, FS_CardinalityType

\* Whoever has less has less than more.
LEMMA WithinGrows ==
    ASSUME NEW j \in Nat, NEW k \in Nat, NEW p \in Nat, NEW q \in Nat, j <= k, p <= q,
           Within(j, p)
    PROVE  Within(k, q)
<1>1. 0 .. j \subseteq 0 .. k /\ 1 .. j \subseteq 1 .. k /\ 0 .. p \subseteq 0 .. q
  OBVIOUS
<1> QED
  BY <1>1 DEF Within, Known

\* What the steps do to the bounds.
LEMMA LastIdStep ==
    ASSUME Booted, IdInv, [Next]_vars
    PROVE  \E j, k, p, q \in Nat :
              /\ j = LastId /\ k = LastId' /\ p = passwords /\ q = passwords'
              /\ j <= k /\ p <= q /\ passwords' \in 0 .. MaxPasswords
              /\ restarts' \in 0 .. MaxRestarts
              /\ \A w \in Workers : SeedAdmin(w) => k = j + 1
              /\ \A r \in Requests : CommitUser(r) \/ CommitChange(r) => q = p + 1 /\ k = j + 1
<1>1. PICK p \in Nat, e \in Nat, s \in Nat, n \in Nat :
         /\ p = passwords /\ e = restarts /\ s = Cardinality(Seeders)
         /\ n = Cardinality(Workers) /\ s <= n
  BY SeedersAreFew, AccountsAssumption DEF IdInv
<1>2. PICK j \in Nat : j = LastId /\ j = p + e + n - s
  <2>1. p + e + n - s \in Nat
    BY <1>1
  <2> QED
    BY <1>1, <2>1 DEF LastId
<1>3. MaxPasswords \in Nat /\ MaxRestarts \in Nat /\ p <= MaxPasswords /\ e <= MaxRestarts
  BY <1>1, AccountsAssumption DEF IdInv
<1>4. IsFiniteSet(Seeders)
  BY SeedersAreFew
<1>5. ASSUME NEW v \in Workers, SeedAdmin(v)
      PROVE  Cardinality(Seeders)' = s - 1 /\ passwords' = p /\ restarts' = e /\ s > 0
  <2>1. Seeders' = Seeders \ {v} /\ v \in Seeders
    BY <1>5 DEF SeedAdmin, Boot, Seeders, Booted
  <2>2. Cardinality(Seeders') = s - 1 /\ s > 0
    BY <1>1, <1>4, <2>1, FS_RemoveElement, FS_CardinalityType, FS_EmptySet
  <2> QED
    BY <1>1, <1>5, <2>2 DEF SeedAdmin, Boot
<1>6. ASSUME NEW r \in Requests, CommitUser(r) \/ CommitChange(r)
      PROVE  /\ Cardinality(Seeders)' = s /\ passwords' = p + 1 /\ restarts' = e
             /\ p < MaxPasswords
  <2>1. Seeders' = Seeders
    BY <1>6 DEF CommitUser, CommitChange, Seeders
  <2> QED
    BY <1>1, <1>6, <2>1 DEF CommitUser, CommitChange
<1>7. ASSUME NEW v \in Workers, Restart(v)
      PROVE  \E m \in Nat : /\ Cardinality(Seeders)' = m /\ m <= s + 1
                            /\ passwords' = p /\ restarts' = e + 1 /\ e < MaxRestarts
  <2>1. Seeders' \subseteq Seeders \cup {v}
    BY <1>7 DEF Restart, Seeders, Booted
  <2>2. /\ IsFiniteSet(Seeders \cup {v}) /\ Cardinality(Seeders \cup {v}) <= s + 1
        /\ Cardinality(Seeders \cup {v}) \in Nat
    BY <1>1, <1>4, FS_AddElement, FS_CardinalityType
  <2>3. Cardinality(Seeders') \in Nat /\ Cardinality(Seeders') <= s + 1
    BY <1>1, <2>1, <2>2, FS_Subset, FS_CardinalityType
  <2> QED
    BY <1>1, <1>7, <2>3 DEF Restart
<1>8. ASSUME \/ \E w \in Workers :
                SeedNeeded(w) \/ FindDefaults(w) \/ FlagDefaults(w) \/ FlagFails(w)
             \/ \E r \in Requests : Read(r) \/ LoginUser(r) \/ CommitDelete(r)
             \/ UNCHANGED vars
      PROVE  \E m \in Nat : /\ Cardinality(Seeders)' = m /\ m <= s
                            /\ passwords' = p /\ restarts' = e
  <2>1. Seeders' \subseteq Seeders
    BY <1>8 DEF SeedNeeded, FindDefaults, FlagDefaults, FlagFails, Boot, Read, Begin,
                VerifyPassword, LoadForChange, CheckName, LoadTarget, CountAdmins, Fail, LoginUser,
                CommitDelete, vars, Seeders, Booted
  <2>2. passwords' = passwords /\ restarts' = restarts
    BY <1>8 DEF SeedNeeded, FindDefaults, FlagDefaults, FlagFails, Boot, Read, Begin,
                VerifyPassword, LoadForChange, CheckName, LoadTarget, CountAdmins, Fail, LoginUser,
                CommitDelete, vars
  <2>3. Cardinality(Seeders') \in Nat /\ Cardinality(Seeders') <= s
    BY <1>1, <1>4, <2>1, FS_Subset, FS_CardinalityType
  <2> QED
    BY <1>1, <2>2, <2>3
<1>9. PICK m \in Nat, q \in Nat, f \in Nat :
         /\ m = Cardinality(Seeders)' /\ q = passwords' /\ f = restarts'
         /\ p <= q /\ q <= MaxPasswords /\ f <= MaxRestarts
         /\ m - s <= (q - p) + (f - e) /\ m <= n
  <2>1. CASE \E v \in Workers : SeedAdmin(v)
    <3>1. s - 1 \in Nat /\ s - 1 <= n
      BY <1>1, <1>5, <2>1
    <3> QED
      BY <1>1, <1>3, <1>5, <2>1, <3>1
  <2>2. CASE \E r \in Requests : CommitUser(r) \/ CommitChange(r)
    BY <1>1, <1>3, <1>6, <2>2
  <2>3. CASE \E v \in Workers : Restart(v)
    <3>1. PICK m \in Nat : /\ Cardinality(Seeders)' = m /\ m <= s + 1
                           /\ passwords' = p /\ restarts' = e + 1 /\ e < MaxRestarts
      BY <1>7, <2>3
    <3>2. m <= n
      <4>1. Seeders' \subseteq Workers /\ IsFiniteSet(Workers)
        BY AccountsAssumption DEF Seeders
      <4> QED
        BY <1>1, <3>1, <4>1, FS_Subset, FS_CardinalityType
    <3> QED
      BY <1>1, <1>3, <3>1, <3>2
  <2>4. CASE \/ \E w \in Workers :
                SeedNeeded(w) \/ FindDefaults(w) \/ FlagDefaults(w) \/ FlagFails(w)
             \/ \E r \in Requests : Read(r) \/ LoginUser(r) \/ CommitDelete(r)
             \/ UNCHANGED vars
    <3>1. PICK m \in Nat : /\ Cardinality(Seeders)' = m /\ m <= s
                           /\ passwords' = p /\ restarts' = e
      BY <1>8, <2>4
    <3> QED
      BY <1>1, <1>3, <3>1
  <2> QED
    BY <2>1, <2>2, <2>3, <2>4, NextSplits
<1>10. PICK k \in Nat : k = q + f + n - m /\ j <= k
  BY <1>1, <1>2, <1>9
<1>11. k = LastId'
  BY <1>1, <1>9, <1>10 DEF LastId
<1>12. passwords' \in 0 .. MaxPasswords /\ restarts' \in 0 .. MaxRestarts
  <2>1. q \in 0 .. MaxPasswords /\ f \in 0 .. MaxRestarts
    BY <1>3, <1>9
  <2> QED
    BY <1>9, <2>1, Zenon
<1>13. \A w \in Workers : SeedAdmin(w) => k = j + 1
  <2> SUFFICES ASSUME NEW w \in Workers, SeedAdmin(w)
               PROVE  k = j + 1
    OBVIOUS
  <2>1. m = s - 1 /\ q = p /\ f = e
    BY <1>5, <1>9
  <2> QED
    BY <1>1, <1>2, <1>10, <2>1
<1>14. \A r \in Requests : CommitUser(r) \/ CommitChange(r) => q = p + 1 /\ k = j + 1
  <2> SUFFICES ASSUME NEW r \in Requests, CommitUser(r) \/ CommitChange(r)
               PROVE  q = p + 1 /\ k = j + 1
    OBVIOUS
  <2>1. m = s /\ q = p + 1 /\ f = e
    BY <1>6, <1>9
  <2> QED
    BY <1>1, <1>2, <1>10, <2>1
<1> QED
  BY <1>1, <1>2, <1>9, <1>10, <1>11, <1>12, <1>13, <1>14

\* A handler that goes on knows no more than what it knew or has read.
LEMMA EnterKnows ==
    ASSUME Requested, NEW k, NEW p, Within(k, p), NEW r \in Requests, NEW label, NEW what,
           Known(what, k, p), Enter(r, label, what)
    PROVE  \A s \in Requests : Known(req'[s], k, p)
<1>1. req' = [s \in Requests |-> IF s = r THEN what ELSE req[s]]
  BY DEF Enter, Requested
<1> QED
  BY <1>1 DEF Within

\* One that ends knows nothing.
LEMMA LeaveKnows ==
    ASSUME Requested, NEW k \in Nat, NEW p \in Nat, Within(k, p), NEW r \in Requests, Leave(r)
    PROVE  \A s \in Requests : Known(req'[s], k, p)
<1>1. Known(NoReq, k, p)
  BY DEF Known, NoReq, Default
<1> QED
  BY <1>1, EnterKnows DEF Leave

\* A step that only reads.
LEMMA ReadKnows ==
    ASSUME Tabled, Requested, HomesServe, NEW k \in Nat, NEW p \in Nat, Within(k, p),
           NEW r \in Requests, Read(r)
    PROVE  Within(k, p)'
<1>a. AdminsOf(users) \subseteq 1 .. k
  BY DEF AdminsOf, Within, Existing
<1>1. ASSUME NEW w \in Workers, NEW i \in Existing, VerifyPassword(r, w, i)
      PROVE  \A s \in Requests : Known(req'[s], k, p)
  <2>1. PICK what : what = [NoReq EXCEPT !.home = w, !.id = i, !.proof = users[i].pw]
    OBVIOUS
  <2>2. Known(what, k, p)
    <3>1. what.home = w /\ what.id = i /\ what.proof = users[i].pw /\ what.epoch = 0
          /\ what.counted = {}
      BY <2>1 DEF NoReq
    <3> QED
      BY <3>1 DEF Known, Within
  <2>3. Enter(r, "issuing", what)
    BY <1>1, <2>1 DEF VerifyPassword
  <2> QED
    BY <2>2, <2>3, EnterKnows
<1>2. ASSUME NEW w \in Workers, NEW t \in tokens, LoadForChange(r, w, t)
      PROVE  \A s \in Requests : Known(req'[s], k, p)
  <2>1. PICK what :
           what = [NoReq EXCEPT !.home = w, !.id = t.id, !.epoch = users[t.id].epoch]
    OBVIOUS
  <2>2. Known(what, k, p)
    <3>1. what.home = w /\ what.id = t.id /\ what.epoch = users[t.id].epoch /\ what.proof = 0
          /\ what.counted = {}
      BY <2>1 DEF NoReq, Default
    <3>2. t.id \in Existing
      BY <1>2 DEF LoadForChange, Accepted
    <3> QED
      BY <3>1, <3>2 DEF Known, Within
  <2>3. PICK label : Enter(r, label, what)
    BY <1>2, <2>1 DEF LoadForChange
  <2> QED
    BY <2>2, <2>3, EnterKnows
<1>3. ASSUME NEW w \in Workers, NEW t \in tokens, NEW name \in Names, NEW admin \in BOOLEAN,
             CheckName(r, w, t, name, admin)
      PROVE  \A s \in Requests : Known(req'[s], k, p)
  <2>1. PICK what : what = [NoReq EXCEPT !.home = w, !.name = name, !.admin = admin]
    OBVIOUS
  <2>2. Known(what, k, p)
    <3>1. what.home = w /\ what.id = 0 /\ what.epoch = 0 /\ what.proof = 0 /\ what.counted = {}
      BY <2>1 DEF NoReq, Default
    <3> QED
      BY <3>1 DEF Known
  <2>3. Enter(r, "creating", what)
    BY <1>3, <2>1 DEF CheckName
  <2> QED
    BY <2>2, <2>3, EnterKnows
<1>4. ASSUME NEW w \in Workers, NEW t \in tokens, NEW i \in Existing, LoadTarget(r, w, t, i)
      PROVE  \A s \in Requests : Known(req'[s], k, p)
  <2>1. PICK what : what = [NoReq EXCEPT !.home = w, !.id = i, !.counted = AdminsOf(users)]
    OBVIOUS
  <2>2. Known(what, k, p)
    <3>1. what.home = w /\ what.id = i /\ what.epoch = 0 /\ what.proof = 0
          /\ what.counted = AdminsOf(users)
      BY <2>1 DEF NoReq, Default
    <3> QED
      BY <1>a, <3>1 DEF Known, Within
  <2>3. PICK label : Enter(r, label, what)
    BY <1>4, <2>1 DEF LoadTarget
  <2> QED
    BY <2>2, <2>3, EnterKnows
<1>5. ASSUME CountAdmins(r)
      PROVE  \A s \in Requests : Known(req'[s], k, p)
  <2>1. PICK what : what = [req[r] EXCEPT !.counted = AdminsOf(users)]
    OBVIOUS
  <2>2. Known(what, k, p)
    <3>1. req[r] = [home |-> req[r].home, id |-> req[r].id, epoch |-> req[r].epoch,
                    proof |-> req[r].proof, name |-> req[r].name, admin |-> req[r].admin,
                    counted |-> req[r].counted]
      BY DEF Requested, IsRequest
    <3>2. what.home = req[r].home /\ what.id = req[r].id /\ what.epoch = req[r].epoch
          /\ what.proof = req[r].proof /\ what.counted = AdminsOf(users)
      BY <2>1, <3>1
    <3> QED
      BY <1>a, <3>2 DEF Known, Within
  <2>3. Leave(r) \/ Enter(r, "deleting", what)
    BY <1>5, <2>1 DEF CountAdmins
  <2> QED
    BY <2>2, <2>3, EnterKnows, LeaveKnows
<1>6. ASSUME Fail(r)
      PROVE  \A s \in Requests : Known(req'[s], k, p)
  BY <1>6, LeaveKnows DEF Fail
<1>7. \A s \in Requests : Known(req'[s], k, p)
  BY <1>1, <1>2, <1>3, <1>4, <1>5, <1>6 DEF Read, Begin
<1>8. UNCHANGED <<users, tokens, flagged, skipped>>
  BY ReadMoves
<1> QED
  BY <1>7, <1>8 DEF Within, Existing

\* A row that is inserted has the next id, and no token changes its id or epoch.
LEMMA InsertKnows ==
    ASSUME Tabled, NEW j \in Nat, NEW k \in Nat, NEW p \in Nat, Within(j, p), Within(k, p),
           k = j + 1, NEW name \in Names, NEW password \in 0 .. p, NEW admin \in BOOLEAN,
           Insert(name, password, admin)
    PROVE  /\ \A i \in Existing' :
                 i \in 1 .. k /\ users'[i].pw \in 0 .. p /\ users'[i].epoch \in 0 .. p
           /\ \A t \in tokens' : t.id \in 1 .. k /\ t.epoch \in 0 .. p /\ t.proof \in 0 .. p
<1>1. FreshId \in 1 .. k /\ FreshId \notin Existing
  <2>1. Existing \subseteq 1 .. j
    BY DEF Within
  <2> QED
    BY <2>1, FreshIdIsNext
<1>2. /\ Existing' = Existing \cup {FreshId}
      /\ \A i \in Existing : users'[i] = users[i]
      /\ users'[FreshId].pw = password /\ users'[FreshId].epoch = 0
  <2>1. password \in Nat
    OBVIOUS
  <2> QED
    BY <1>1, <2>1, InsertAdds
<1>3. tokens' = Excuse(FreshId, 0)
  BY DEF Insert
<1>4. 0 \in 0 .. p
  OBVIOUS
<1> QED
  BY <1>1, <1>2, <1>3, <1>4, ExcuseKeeps DEF Within

\* Every step keeps the bounds.
LEMMA IdInvStep ==
    ASSUME Tabled, Booted, Requested, HomesServe, IdInv, [Next]_vars
    PROVE  IdInv'
<1>1. PICK j \in Nat, k \in Nat, p \in Nat, q \in Nat :
         /\ j = LastId /\ k = LastId' /\ p = passwords /\ q = passwords'
         /\ j <= k /\ p <= q /\ passwords' \in 0 .. MaxPasswords
         /\ restarts' \in 0 .. MaxRestarts
         /\ \A w \in Workers : SeedAdmin(w) => k = j + 1
         /\ \A r \in Requests : CommitUser(r) \/ CommitChange(r) => q = p + 1 /\ k = j + 1
  BY LastIdStep
<1>2. Within(j, p)
  BY <1>1 DEF IdInv
<1>3. Within(k, q) /\ Within(j, q)
  <2>1. j <= j
    OBVIOUS
  <2> QED
    BY <1>1, <1>2, <2>1, WithinGrows
<1>4. ASSUME NEW w \in Workers, SeedAdmin(w)
      PROVE  Within(k, q)'
  <2>1. UNCHANGED <<flagged, req, skipped>> /\ k = j + 1
    BY <1>1, <1>4 DEF SeedAdmin, Boot
  <2>2. CASE Named(SeedName)
    <3>1. UNCHANGED <<users, tokens>>
      BY <1>4, <2>2 DEF SeedAdmin, Seed
    <3> QED
      BY <1>3, <2>1, <3>1 DEF Within, Existing
  <2>3. CASE ~Named(SeedName)
    <3>1. Insert(SeedName, Default, TRUE) /\ SeedName \in Names
      BY <1>4, <2>3, AccountsAssumption DEF SeedAdmin, Seed
    <3>2. Default \in 0 .. q
      BY DEF Default
    <3>3. /\ \A i \in Existing' :
                i \in 1 .. k /\ users'[i].pw \in 0 .. q /\ users'[i].epoch \in 0 .. q
          /\ \A t \in tokens' : t.id \in 1 .. k /\ t.epoch \in 0 .. q /\ t.proof \in 0 .. q
      BY <1>3, <2>1, <3>1, <3>2, InsertKnows
    <3> QED
      BY <1>3, <2>1, <3>3 DEF Within
  <2> QED
    BY <2>2, <2>3
<1>5. ASSUME NEW w \in Workers, FlagDefaults(w)
      PROVE  Within(k, q)'
  <2>1. /\ flagged' = [flagged EXCEPT ![w] = {}] /\ UNCHANGED <<tokens, req>>
        /\ skipped' \subseteq skipped
    BY <1>5 DEF FlagDefaults, Boot
  <2>2. \A v \in Workers : flagged'[v] \subseteq flagged[v]
    BY <2>1 DEF Booted
  <2>3. /\ Existing' = Existing
        /\ \A i \in Existing : users'[i].pw = users[i].pw /\ users'[i].epoch = users[i].epoch
    BY <1>5, FlagMarks
  <2> QED
    BY <1>3, <2>1, <2>2, <2>3 DEF Within
<1>6. ASSUME NEW w \in Workers, SeedNeeded(w) \/ FindDefaults(w) \/ FlagFails(w)
      PROVE  Within(k, q)'
  <2>1. UNCHANGED <<users, tokens, req>>
    BY <1>6 DEF SeedNeeded, FindDefaults, FlagFails, Boot
  <2>2. /\ \A v \in Workers : flagged'[v] \subseteq flagged[v] \cup Existing
        /\ skipped' \subseteq skipped \cup Existing
    BY <1>6 DEF SeedNeeded, FindDefaults, FlagFails, Booted
  <2> QED
    BY <1>3, <2>1, <2>2 DEF Within, Existing
<1>7. ASSUME NEW w \in Workers, Restart(w)
      PROVE  Within(k, q)'
  <2>1. UNCHANGED <<users, tokens, skipped>>
    BY <1>7 DEF Restart
  <2>2. \A v \in Workers : flagged'[v] \subseteq flagged[v]
    BY <1>7 DEF Restart, Booted
  <2>3. \A r \in Requests : req'[r] = NoReq \/ req'[r] = req[r]
    BY <1>7 DEF Restart
  <2>4. Known(NoReq, k, q)
    BY DEF Known, NoReq, Default
  <2> QED
    BY <1>3, <2>1, <2>2, <2>3, <2>4 DEF Within, Existing
<1>8. ASSUME NEW r \in Requests, Read(r)
      PROVE  Within(k, q)'
  BY <1>3, <1>8, ReadKnows
<1>9. ASSUME NEW r \in Requests, LoginUser(r)
      PROVE  Within(k, q)'
  <2>1. Leave(r) /\ UNCHANGED <<users, flagged, skipped>>
    BY <1>9 DEF LoginUser
  <2>2. \A t \in tokens' : t.id \in 1 .. k /\ t.epoch \in 0 .. q /\ t.proof \in 0 .. q
    <3> DEFINE i == req[r].id
               new == [id |-> i, epoch |-> users[i].epoch, proof |-> req[r].proof,
                       excused |-> r \in overtaken]
    <3>1. tokens' = tokens \/ (i \in Existing /\ tokens' = tokens \cup {new})
      BY <1>9 DEF LoginUser
    <3>2. i \in Existing => /\ new.id \in 1 .. k /\ new.epoch \in 0 .. q
                            /\ new.proof \in 0 .. q
      BY <1>3 DEF Within, Known
    <3> QED
      BY <1>3, <3>1, <3>2 DEF Within
  <2>3. \A s \in Requests : Known(req'[s], k, q)
    BY <1>3, <2>1, LeaveKnows
  <2> QED
    BY <1>3, <2>1, <2>2, <2>3 DEF Within, Existing
<1>10. ASSUME NEW r \in Requests, CommitChange(r)
       PROVE  Within(k, q)'
  <2>1. q = p + 1 /\ UNCHANGED <<flagged, skipped>>
    BY <1>1, <1>10 DEF CommitChange
  <2>2. req[r].epoch + 1 \in 0 .. q /\ p + 1 \in 0 .. q
    BY <1>2, <2>1 DEF Within, Known
  <2>3. \A i \in Existing' :
           i \in 1 .. k /\ users'[i].pw \in 0 .. q /\ users'[i].epoch \in 0 .. q
    <3>1. /\ Existing' = Existing
          /\ \A i \in Existing \ {req[r].id} : users'[i] = users[i]
          /\ users'[req[r].id].epoch = req[r].epoch + 1
          /\ users'[req[r].id].pw = passwords + 1
      BY <1>10, ChangeWritesOne
    <3> QED
      BY <1>1, <1>3, <2>2, <3>1 DEF Within
  <2>4. \A t \in tokens' : t.id \in 1 .. k /\ t.epoch \in 0 .. q /\ t.proof \in 0 .. q
    BY <1>3, <1>10, ChangeKeepsTokens DEF CommitChange, Within
  <2>5. \A s \in Requests : Known(req'[s], k, q)
    <3>1. PICK what : what = [req[r] EXCEPT !.proof = passwords', !.epoch = 0]
      OBVIOUS
    <3>2. req[r] = [home |-> req[r].home, id |-> req[r].id, epoch |-> req[r].epoch,
                    proof |-> req[r].proof, name |-> req[r].name, admin |-> req[r].admin,
                    counted |-> req[r].counted]
      BY DEF Requested, IsRequest
    <3>3. what.home = req[r].home /\ what.id = req[r].id /\ what.epoch = 0
          /\ what.proof = q /\ what.counted = req[r].counted
      BY <1>1, <3>1, <3>2
    <3>4. Known(what, k, q)
      BY <1>3, <3>3 DEF Known, Within
    <3>5. Enter(r, "issuing", what)
      BY <1>10, <3>1 DEF CommitChange
    <3> QED
      BY <1>3, <3>4, <3>5, EnterKnows
  <2> QED
    BY <1>3, <2>1, <2>3, <2>4, <2>5 DEF Within
<1>11. ASSUME NEW r \in Requests, CommitUser(r)
       PROVE  Within(k, q)'
  <2>1. Leave(r) /\ UNCHANGED <<flagged, skipped>> /\ k = j + 1
    BY <1>1, <1>11 DEF CommitUser
  <2>2. Insert(req[r].name, q, req[r].admin) /\ q \in 0 .. q
    BY <1>1, <1>11 DEF CommitUser
  <2>3. req[r].name \in Names /\ req[r].admin \in BOOLEAN
    BY DEF Requested, IsRequest
  <2>4. /\ \A i \in Existing' :
              i \in 1 .. k /\ users'[i].pw \in 0 .. q /\ users'[i].epoch \in 0 .. q
        /\ \A t \in tokens' : t.id \in 1 .. k /\ t.epoch \in 0 .. q /\ t.proof \in 0 .. q
    BY <1>3, <2>1, <2>2, <2>3, InsertKnows
  <2>5. \A s \in Requests : Known(req'[s], k, q)
    BY <1>3, <2>1, LeaveKnows
  <2> QED
    BY <1>3, <2>1, <2>4, <2>5 DEF Within
<1>12. ASSUME NEW r \in Requests, CommitDelete(r)
       PROVE  Within(k, q)'
  <2>1. Leave(r) /\ UNCHANGED <<tokens, flagged>> /\ skipped' \subseteq skipped
    BY <1>12 DEF CommitDelete
  <2>2. \A i \in Existing' : i \in Existing /\ users'[i] = users[i]
    BY <1>12, DeleteTakesOne
  <2>3. \A s \in Requests : Known(req'[s], k, q)
    BY <1>3, <2>1, LeaveKnows
  <2> QED
    BY <1>3, <2>1, <2>2, <2>3 DEF Within
<1>13. ASSUME UNCHANGED vars
       PROVE  Within(k, q)'
  <2>1. UNCHANGED <<users, tokens, flagged, req, skipped>>
    BY <1>13 DEF vars
  <2> QED
    BY <1>3, <2>1 DEF Within, Existing
<1>14. Within(k, q)'
  <2>1. CASE UNCHANGED vars
    BY <1>13, <2>1
  <2>2. CASE Next
    BY <1>4, <1>5, <1>6, <1>7, <1>8, <1>9, <1>10, <1>11, <1>12, <2>2, NextSplits
  <2> QED
    BY <2>1, <2>2
<1> QED
  BY <1>1, <1>14 DEF IdInv, Within

-----------------------------------------------------------------------------
(* The theorems *)

\* At first there is no account, no token, no request, and no worker serves.
LEMMA InitIInv == Init => IInv
<1> SUFFICES ASSUME Init
             PROVE  IInv
    OBVIOUS
<1>1. Existing = {} /\ users = << >> /\ tokens = {} /\ passwords = 0 /\ raced = FALSE
      /\ overtaken = {}
  BY DEF Init, Existing
<1>2. Tabled
  <2>1. << >> \in [{} -> Row]
    OBVIOUS
  <2>2. \A t \in tokens : IsToken(t)
    BY <1>1
  <2> QED
    BY <1>1, <2>1, <2>2 DEF Tabled
<1>3. Booted
  BY DEF Init, Booted, Phases
<1>4. Requested
  <2>1. /\ pc \in [Requests -> Labels]
        /\ req = [r \in Requests |-> NoReq]
    BY DEF Init, Labels
  <2>2. req = [r \in Requests |-> req[r]] /\ \A r \in Requests : req[r] = NoReq
    BY <2>1
  <2> QED
    BY <2>1, <2>2, NoReqIsRequest DEF Requested
<1>5. HomesServe /\ DeletersLeaveOne
  BY DEF Init, HomesServe, DeletersLeaveOne
<1>6. SeededOnce
  BY <1>1 DEF Init, SeededOnce
<1>7. DefaultsAreFound
  BY <1>1 DEF Init, DefaultsAreFound, Defaults, Unmarked
<1>8. TokensAreOld /\ IssuersKnow
  BY <1>1 DEF Init, TokensAreOld, IssuersKnow
<1> QED
  BY <1>2, <1>3, <1>4, <1>5, <1>6, <1>7, <1>8 DEF IInv

\* Every step keeps every conjunct.
LEMMA StepIInv == IInv /\ [Next]_vars => IInv'
<1> SUFFICES ASSUME IInv, [Next]_vars
             PROVE  IInv'
    OBVIOUS
<1> QED
  BY TabledStep, BootedStep, RequestsStep, DeletersLeaveOneStep, SeededOnceStep,
     DefaultsAreFoundStep, TokensAreOldStep, IssuersKnowStep DEF IInv

\* The inductive invariant of the accounts.
THEOREM Invariance == Spec => []IInv
BY InitIInv, StepIInv, PTL DEF Spec

\* "Can't delete the last admin" (routes.py:433): for any number of workers, admins and
\* concurrent deletions, one is left while somebody is served, unless a deletion
\* commits on a count that another has overtaken.
THEOREM AnAdminIsLeft == Spec => []LastAdminStays
<1>1. IInv => LastAdminStays
  BY DEF IInv, SeededOnce, LastAdminStays, Serving
<1> QED
  BY <1>1, Invariance, PTL

\* "changing the password invalidates all other live sessions" (models.py:53-54): whoever
\* is let in knew the password of now, because every change of a password leaves the older
\* tokens an epoch behind; but for a token made after its password was changed, a change
\* that wrote over the epoch of another, and an id that is used again.
THEOREM SessionsFollowThePassword == Spec => []SessionsAreCurrent
<1>1. IInv => SessionsAreCurrent
  BY DEF IInv, TokensAreOld, SessionsAreCurrent, Accepted
<1> QED
  BY <1>1, Invariance, PTL

\* "the console forces a change before anything else is reachable" (models.py:49-50):
\* whatever the order in which any number of workers boot and die, none serves an account
\* that has the default password unmarked, but one that an exception kept a worker from
\* marking, and unless a table is seeded again that was empty no more.
THEOREM NoDefaultIsServed == Spec => []DefaultIsGated
<1>1. IInv => DefaultIsGated
  BY DEF IInv, DefaultsAreFound, Defaults, Unmarked, Missed, DefaultIsGated, Serving
<1> QED
  BY <1>1, Invariance, PTL

\* Whatever the workers and requests do, the rows, sessions, phases and requests are
\* within their types: no id, password or epoch is beyond what the passwords that have
\* been set and the boots of the workers account for.
THEOREM AccountsAreTyped == Spec => []TypeOK
<1>1. Init => IdInv
  <2> SUFFICES ASSUME Init
               PROVE  IdInv
    OBVIOUS
  <2>1. Seeders = Workers
    BY DEF Init, Seeders
  <2>2. LastId = 0
    BY <2>1, SeedersAreFew DEF LastId, Init
  <2>3. Existing = {} /\ \A r \in Requests : req[r] = NoReq
    BY DEF Init, Existing
  <2>4. Known(NoReq, 0, 0)
    BY DEF Known, NoReq, Default
  <2>5. Within(0, 0)
    BY <2>3, <2>4 DEF Init, Within
  <2> QED
    BY <2>2, <2>5, AccountsAssumption DEF IdInv, Init
<1>2. IInv /\ IdInv /\ [Next]_vars => IdInv'
  BY IdInvStep DEF IInv
<1>3. IInv /\ IdInv => TypeOK
  <2> SUFFICES ASSUME IInv, IdInv
               PROVE  TypeOK
    OBVIOUS
  <2>1. PICK k \in Nat : k = LastId /\ k <= MaxPasswords + MaxRestarts + Cardinality(Workers)
    BY SeedersAreFew, AccountsAssumption DEF IdInv, LastId
  <2>2. 1 .. k \subseteq Ids /\ 0 .. k \subseteq Ids \cup {0}
    BY <2>1, SeedersAreFew, AccountsAssumption DEF Ids
  <2>3. 0 .. passwords \subseteq 0 .. MaxPasswords
    BY AccountsAssumption DEF IdInv
  <2>4. Within(k, passwords)
    BY <2>1 DEF IdInv
  <2>5. Existing \subseteq Ids
    BY <2>2, <2>4 DEF Within
  <2>6. \A i \in Existing : users[i] \in [name : Names, admin : BOOLEAN, pw : 0 .. MaxPasswords,
                                          epoch : 0 .. MaxPasswords, must : BOOLEAN]
    <3> TAKE i \in Existing
    <3>1. users[i] \in Row
      BY DEF IInv, Tabled
    <3>2. users[i].pw \in 0 .. MaxPasswords /\ users[i].epoch \in 0 .. MaxPasswords
      BY <2>3, <2>4 DEF Within
    <3> QED
      BY <3>1, <3>2 DEF Row
  <2>7. tokens \subseteq [id : Ids, epoch : 0 .. MaxPasswords, proof : 0 .. MaxPasswords,
                          excused : BOOLEAN]
    <3> SUFFICES ASSUME NEW t \in tokens
                 PROVE  t \in [id : Ids, epoch : 0 .. MaxPasswords, proof : 0 .. MaxPasswords,
                               excused : BOOLEAN]
      OBVIOUS
    <3>1. IsToken(t)
      BY DEF IInv, Tabled
    <3>2. t.id \in Ids /\ t.epoch \in 0 .. MaxPasswords /\ t.proof \in 0 .. MaxPasswords
      BY <2>2, <2>3, <2>4 DEF Within
    <3> QED
      BY <3>1, <3>2 DEF IsToken
  <2>8. flagged \in [Workers -> SUBSET Ids]
    BY <2>2, <2>4 DEF IInv, Booted, Within
  <2>9. req \in [Requests -> [home : Workers \cup {None}, id : Ids \cup {0},
                              epoch : 0 .. MaxPasswords, proof : 0 .. MaxPasswords,
                              name : Names, admin : BOOLEAN, counted : SUBSET Ids]]
    <3>1. ASSUME NEW r \in Requests
          PROVE  req[r] \in [home : Workers \cup {None}, id : Ids \cup {0},
                             epoch : 0 .. MaxPasswords, proof : 0 .. MaxPasswords,
                             name : Names, admin : BOOLEAN, counted : SUBSET Ids]
      <4>1. IsRequest(req[r])
        BY DEF IInv, Requested
      <4>2. /\ req[r].home \in Workers \cup {None} /\ req[r].id \in Ids \cup {0}
            /\ req[r].epoch \in 0 .. MaxPasswords /\ req[r].proof \in 0 .. MaxPasswords
            /\ req[r].counted \in SUBSET Ids
        BY <2>2, <2>3, <2>4 DEF Within, Known
      <4> QED
        BY <4>1, <4>2 DEF IsRequest
    <3> QED
      BY <3>1 DEF IInv, Requested
  <2>10. /\ phase \in [Workers -> Phases] /\ pc \in [Requests -> Labels]
         /\ raced \in BOOLEAN /\ overtaken \subseteq Requests
    BY DEF IInv, Tabled, Booted, Requested
  <2>11. skipped \subseteq Ids
    BY <2>2, <2>4 DEF Within
  <2> QED
    BY <2>5, <2>6, <2>7, <2>8, <2>9, <2>10, <2>11
    DEF TypeOK, IdInv, Phases, Labels
<1> QED
  BY <1>1, <1>2, <1>3, Invariance, PTL DEF Spec

=============================================================================
