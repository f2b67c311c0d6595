------------------------- MODULE RemoteRestoreProofs -------------------------
(***************************************************************************)
(* Proofs about RemoteRestore, for any number of overlapping registrations *)
(* and restores.                                                           *)
(***************************************************************************)
EXTENDS RemoteRestore, TLAPS

Columns == {"enabled", "url", "token", "acked", "pinned"}

\* One column of a commit: written when it has changed from what was read.
Column(old, new, c) == IF new[c] = old[c] THEN site[c] ELSE new[c]

\* A row, column by column.
LEMMA RowIsItsColumns ==
    ASSUME NEW s \in SiteRow
    PROVE  /\ DOMAIN s = Columns
           /\ s = [enabled |-> s.enabled, url |-> s.url, token |-> s.token,
                   acked |-> s.acked, pinned |-> s.pinned]
           /\ s.enabled \in BOOLEAN
           /\ s.url \in Urls \cup {None}
           /\ s.token \in Tokens \cup {None}
           /\ s.acked \in (Urls \X Tokens) \cup {None}
           /\ s.pinned \in Hosts \cup {None}
BY DEF SiteRow, Columns

\* A commit leaves in each column what was there or what the request puts there.
LEMMA SavedColumns ==
    ASSUME site \in SiteRow, NEW old \in SiteRow, NEW new \in SiteRow
    PROVE  /\ Saved(old, new) \in SiteRow
           /\ \A c \in Columns : Saved(old, new)[c] = Column(old, new, c)
<1>1. DOMAIN site = Columns
  BY RowIsItsColumns
<1>2. Saved(old, new) = [c \in Columns |-> Column(old, new, c)]
  BY <1>1 DEF Saved, Column
<1>3. \A c \in Columns : Saved(old, new)[c] = Column(old, new, c)
  BY <1>2
<1>4. Saved(old, new) = [enabled |-> Column(old, new, "enabled"),
                         url |-> Column(old, new, "url"),
                         token |-> Column(old, new, "token"),
                         acked |-> Column(old, new, "acked"),
                         pinned |-> Column(old, new, "pinned")]
  BY <1>2 DEF Columns
<1>5. Column(old, new, "enabled") \in BOOLEAN
  BY RowIsItsColumns DEF Column
<1>6. Column(old, new, "url") \in Urls \cup {None}
  BY RowIsItsColumns DEF Column
<1>7. Column(old, new, "token") \in Tokens \cup {None}
  BY RowIsItsColumns DEF Column
<1>8. Column(old, new, "acked") \in (Urls \X Tokens) \cup {None}
  BY RowIsItsColumns DEF Column
<1>9. Column(old, new, "pinned") \in Hosts \cup {None}
  BY RowIsItsColumns DEF Column
<1> QED
  BY <1>3, <1>4, <1>5, <1>6, <1>7, <1>8, <1>9 DEF SiteRow

\* A pair is a URL and a token, or nothing.
LEMMA PairType ==
    ASSUME NEW s \in SiteRow
    PROVE  /\ Pair(s) \in (Urls \X Tokens) \cup {None}
           /\ Pair(s) # None => s.url \in Urls /\ s.token \in Tokens
BY RowIsItsColumns, RemoteRestoreAssumption DEF Pair

\* What an enabling form makes of a row is a row, confirmed and pinned as before.
LEMMA FilledRow ==
    ASSUME NEW row \in SiteRow, NEW f \in Forms
    PROVE  Filled(row, f) \in SiteRow /\ Filled(row, f).acked = row.acked
<1>1. f.url \in Urls \cup {None} /\ f.token \in Tokens \cup {None}
  BY DEF Forms
<1> QED
  BY <1>1 DEF Filled, SiteRow

\* A registration touches neither the confirmation nor the pin.
LEMMA EndpointCommit ==
    ASSUME TypeOK, NEW c \in Clients, CommitEndpoint(c)
    PROVE  site' \in SiteRow /\ site'.acked = site.acked
<1> DEFINE f == form[c]
           new == Filled(rread[c], f)
           saved == Saved(rread[c], new)
<1>1. site \in SiteRow /\ rread[c] \in SiteRow /\ f \in Forms
  BY DEF TypeOK
<1>2. new \in SiteRow /\ new.acked = rread[c].acked
  BY <1>1, FilledRow
<1>3. saved \in SiteRow /\ \A k \in Columns : saved[k] = Column(rread[c], new, k)
  BY <1>1, <1>2, SavedColumns
<1>4. saved.acked = site.acked
  BY <1>2, <1>3 DEF Columns, Column
<1>5. site' = [saved EXCEPT !.token = IF f.token = None THEN @ ELSE f.token]
  BY DEF CommitEndpoint
<1> HIDE DEF saved, new
<1> QED
  BY <1>1, <1>3, <1>4, <1>5 DEF SiteRow, Forms

\* Turning remote restore off leaves the endpoint on file, or none.
LEMMA OffCommit ==
    ASSUME TypeOK, NEW c \in Clients, CommitOff(c)
    PROVE  /\ site' \in SiteRow
           /\ site'.acked \in {site.acked, None}
           /\ Pair(site') \in {Pair(site), None}
<1> DEFINE new == [rread[c] EXCEPT !.enabled = FALSE, !.url = None, !.token = None,
                                   !.acked = None]
<1>1. site \in SiteRow /\ rread[c] \in SiteRow
  BY DEF TypeOK
<1>2. new \in SiteRow /\ new.url = None /\ new.token = None /\ new.acked = None
  BY <1>1 DEF SiteRow
<1>3. site' = Saved(rread[c], new)
  BY DEF CommitOff
<1> HIDE DEF new
<1>4. site' \in SiteRow /\ \A k \in Columns : site'[k] = Column(rread[c], new, k)
  BY <1>1, <1>2, <1>3, SavedColumns
<1>5. /\ site'.url \in {site.url, None}
      /\ site'.token \in {site.token, None}
      /\ site'.acked \in {site.acked, None}
  BY <1>2, <1>4 DEF Columns, Column
<1> QED
  BY <1>4, <1>5 DEF Pair

\* A confirmation leaves the endpoint on file.
LEMMA AckCommit ==
    ASSUME TypeOK, NEW o \in Operators, CommitAck(o)
    PROVE  /\ site' \in SiteRow
           /\ site'.acked \in {site.acked, Pair(oread[o])}
           /\ Pair(site') = Pair(site)
<1> DEFINE new == [oread[o] EXCEPT !.acked = Pair(oread[o])]
<1>1. site \in SiteRow /\ oread[o] \in SiteRow
  BY DEF TypeOK
<1>2. /\ new \in SiteRow
      /\ new.url = oread[o].url
      /\ new.token = oread[o].token
      /\ new.acked = Pair(oread[o])
  BY <1>1, PairType DEF SiteRow
<1>3. site' = Saved(oread[o], new)
  BY DEF CommitAck
<1> HIDE DEF new
<1>4. site' \in SiteRow /\ \A k \in Columns : site'[k] = Column(oread[o], new, k)
  BY <1>1, <1>2, <1>3, SavedColumns
<1>5. /\ site'.url = site.url
      /\ site'.token = site.token
      /\ site'.acked \in {site.acked, Pair(oread[o])}
  BY <1>2, <1>4 DEF Columns, Column
<1> QED
  BY <1>4, <1>5 DEF Pair

\* What a registration records is made of endpoints, and history only grows.
LEMMA RecordedTypes ==
    ASSUME TypeOK, site' \in SiteRow, NEW c \in Clients, NEW new \in SiteRow, Recorded(c, new)
    PROVE  /\ {published', moved', mixed'} \subseteq SUBSET (Urls \X Tokens)
           /\ moved \subseteq moved'
           /\ BetweenReads # {} => Pair(site') \in moved' \cup {None}
<1>1. Endpoint(new) \subseteq Urls \X Tokens /\ Endpoint(site') \subseteq Urls \X Tokens
  BY PairType DEF Endpoint
<1>2. Pair(site') \in Endpoint(site') \cup {None}
  BY DEF Endpoint
<1> QED
  BY <1>1, <1>2 DEF Recorded, TypeOK

\* Every step keeps the variables well typed.
LEMMA TypeOKStep ==
    ASSUME IInv, [Next]_vars
    PROVE  TypeOK'
<1> USE DEF IInv, TypeOK
<1>1. NewSite \in SiteRow /\ NoForm \in Forms
  BY DEF NewSite, NoForm, SiteRow, Forms
<1>2. ASSUME NEW c \in Clients, NEW f \in Forms, Register(c, f)
      PROVE  TypeOK'
  BY <1>2, RemoteRestoreAssumption DEF Register, Changes, restore, history
<1>3. ASSUME NEW c \in Clients, CommitEndpoint(c)
      PROVE  TypeOK'
  <2> DEFINE new == Filled(rread[c], form[c])
  <2>1. new \in SiteRow
    BY FilledRow
  <2>2. site' \in SiteRow
    BY <1>3, EndpointCommit
  <2>3. {published', moved', mixed'} \subseteq SUBSET (Urls \X Tokens)
    BY <1>3, <2>1, <2>2, RecordedTypes DEF CommitEndpoint
  <2> QED
    BY <1>1, <1>3, <2>2, <2>3 DEF CommitEndpoint, Answered, restore
<1>4. ASSUME NEW c \in Clients, CommitOff(c)
      PROVE  TypeOK'
  <2>1. site' \in SiteRow
    BY <1>4, OffCommit
  <2> QED
    BY <1>1, <1>4, <2>1 DEF CommitOff, Answered, restore, history
<1>5. ASSUME NEW host \in Hosts \cup {None}, Pin(host)
      PROVE  TypeOK'
  <2>1. site' \in SiteRow
    BY <1>5 DEF Pin, SiteRow
  <2> QED
    BY <1>5, <2>1, RemoteRestoreAssumption DEF Pin, Changes, register, restore, history
<1>6. ASSUME NEW o \in Operators, Look(o)
      PROVE  TypeOK'
  <2>1. EndpointChanged(site) => HostOf[site.url] \in Hosts
    BY PairType, RemoteRestoreAssumption DEF EndpointChanged
  <2> QED
    BY <1>6, <2>1 DEF Look, register, history
<1>7. ASSUME NEW o \in Operators, SubmitChanged(o)
      PROVE  TypeOK'
  BY <1>7 DEF SubmitChanged, register, history
<1>8. ASSUME NEW o \in Operators, CommitAck(o)
      PROVE  TypeOK'
  <2>1. site' \in SiteRow
    BY <1>8, AckCommit
  <2>2. verified' \in SUBSET (Urls \X Tokens)
    <3>1. Pair(oread[o]) \in Urls \X Tokens
      BY <1>8, PairType DEF CommitAck, ConfirmsWhatIsOnFile
    <3> QED
      BY <1>8, <3>1 DEF CommitAck
  <2> QED
    BY <1>8, <2>1, <2>2 DEF CommitAck, register
<1>9. ASSUME NEW o \in Operators, Reload(o) \/ SubmitUnchanged(o)
      PROVE  TypeOK'
  <2>1. Pair(site) \in (Urls \X Tokens) \cup {None}
    BY PairType
  <2> QED
    BY <1>9, <2>1 DEF Reload, SubmitUnchanged, register, history
<1>10. ASSUME NEW o \in Operators, Push(o)
       PROVE  TypeOK'
  <2>1. target[o] \in Urls \X Tokens
    BY <1>10 DEF Push, TargetIsVerified
  <2> QED
    BY <1>1, <1>10, <2>1 DEF Push, Leave, register
<1>11. ASSUME NEW o \in Operators, Refuse(o)
       PROVE  TypeOK'
  BY <1>1, <1>11 DEF Refuse, Leave, register, history
<1>12. CASE UNCHANGED vars
  BY <1>12 DEF vars, register, restore, history
<1> QED
  BY <1>2, <1>3, <1>4, <1>5, <1>6, <1>7, <1>8, <1>9, <1>10, <1>11, <1>12 DEF Next

\* The conjuncts of IInv that follow the endpoint from the page to the push.
Followed ==
    /\ AckIsVerified
    /\ ConfirmsWhatIsOnFile
    /\ ReloadsWhatIsConfirmed
    /\ TargetIsVerified
    /\ PushedToVerified

\* A step that leaves the pair on file, or nothing, and writes no history keeps them.
LEMMA SamePairStep ==
    ASSUME IInv,
           site'.acked \in {site.acked, None}, Pair(site') \in {Pair(site), None},
           UNCHANGED <<opc, oread, target, verified, moved, pushed>>
    PROVE  Followed'
<1> USE DEF IInv
<1>1. AckIsVerified'
  BY DEF AckIsVerified
<1>2. ConfirmsWhatIsOnFile'
  <2>1. \A o \in Operators : Pair(oread[o])' = Pair(oread[o])
    BY DEF Pair
  <2> QED
    BY <2>1 DEF ConfirmsWhatIsOnFile
<1>3. ReloadsWhatIsConfirmed'
  BY DEF ReloadsWhatIsConfirmed
<1>4. TargetIsVerified'
  BY DEF TargetIsVerified
<1>5. PushedToVerified'
  BY DEF PushedToVerified
<1> QED
  BY <1>1, <1>2, <1>3, <1>4, <1>5 DEF Followed

\* A registration that meets a confirmation in progress is recorded as a move.
LEMMA EndpointStep ==
    ASSUME IInv, NEW c \in Clients, CommitEndpoint(c)
    PROVE  Followed'
<1> USE DEF IInv
<1>1. site' \in SiteRow /\ site'.acked = site.acked
  BY EndpointCommit
<1>2. /\ moved \subseteq moved'
      /\ BetweenReads # {} => Pair(site') \in moved' \cup {None}
  <2>1. Filled(rread[c], form[c]) \in SiteRow
    BY FilledRow DEF TypeOK
  <2> QED
    BY <1>1, <2>1, RecordedTypes DEF CommitEndpoint
<1>3. UNCHANGED <<opc, oread, target, verified, pushed>>
  BY DEF CommitEndpoint, restore
<1>4. AckIsVerified'
  BY <1>1, <1>3 DEF AckIsVerified
<1>5. ConfirmsWhatIsOnFile'
  <2>1. \A o \in Operators : Pair(oread[o])' = Pair(oread[o])
    BY <1>3 DEF Pair
  <2> QED
    BY <1>2, <1>3, <2>1 DEF ConfirmsWhatIsOnFile, BetweenReads
<1>6. ReloadsWhatIsConfirmed'
  BY <1>2, <1>3 DEF ReloadsWhatIsConfirmed, BetweenReads
<1>7. TargetIsVerified'
  BY <1>2, <1>3 DEF TargetIsVerified
<1>8. PushedToVerified'
  BY <1>2, <1>3 DEF PushedToVerified
<1> QED
  BY <1>4, <1>5, <1>6, <1>7, <1>8 DEF Followed

\* What a confirmation writes is what the operator has seen.
LEMMA AckStep ==
    ASSUME IInv, NEW o \in Operators, CommitAck(o)
    PROVE  Followed'
<1> USE DEF IInv
<1>1. site'.acked \in {site.acked, Pair(oread[o])} /\ Pair(site') = Pair(site)
  BY AckCommit
<1>2. /\ verified' = verified \cup {Pair(oread[o])}
      /\ opc' = [opc EXCEPT ![o] = "reloading"]
      /\ UNCHANGED <<oread, target, moved, pushed>>
  BY DEF CommitAck
<1>3. Pair(site) \in moved \cup {None, Pair(oread[o])}
  BY DEF CommitAck, ConfirmsWhatIsOnFile
<1>4. AckIsVerified'
  BY <1>1, <1>2 DEF AckIsVerified
<1>5. ConfirmsWhatIsOnFile'
  <2>1. \A q \in Operators : Pair(oread[q])' = Pair(oread[q])
    BY <1>2 DEF Pair
  <2>2. \A q \in Operators : opc'[q] = "confirming" => opc[q] = "confirming"
    BY <1>2 DEF TypeOK
  <2> QED
    BY <1>1, <1>2, <2>1, <2>2 DEF ConfirmsWhatIsOnFile
<1>6. ReloadsWhatIsConfirmed'
  <2>1. \A q \in Operators : opc'[q] = "reloading" => q = o \/ opc[q] = "reloading"
    BY <1>2 DEF TypeOK
  <2> QED
    BY <1>1, <1>2, <1>3, <2>1 DEF ReloadsWhatIsConfirmed
<1>7. TargetIsVerified'
  BY <1>2 DEF TargetIsVerified, TypeOK
<1>8. PushedToVerified'
  BY <1>2 DEF PushedToVerified
<1> QED
  BY <1>4, <1>5, <1>6, <1>7, <1>8 DEF Followed

\* A step of an operator's page alone.
LEMMA PageStep ==
    ASSUME IInv, NEW o \in Operators,
           \/ Look(o) \/ SubmitChanged(o) \/ Reload(o) \/ SubmitUnchanged(o)
           \/ Push(o) \/ Refuse(o)
    PROVE  Followed'
<1> USE DEF IInv, TypeOK
<1>1. UNCHANGED <<site, verified, moved>>
  BY DEF Look, SubmitChanged, Reload, SubmitUnchanged, Push, Refuse, history
<1>2. \A q \in Operators \ {o} : /\ opc'[q] = opc[q]
                                 /\ oread'[q] = oread[q]
                                 /\ target'[q] = target[q]
  BY DEF Look, SubmitChanged, Reload, SubmitUnchanged, Push, Refuse, Leave
<1>3. AckIsVerified'
  BY <1>1 DEF AckIsVerified
<1>4. ConfirmsWhatIsOnFile'
  <2>1. ASSUME opc'[o] = "confirming"
        PROVE  oread'[o] = site /\ Pair(site) # None
    BY <2>1 DEF Look, SubmitChanged, Reload, SubmitUnchanged, Push, Refuse, Leave, Ready
  <2>2. \A q \in Operators : Pair(oread[q])' = Pair(oread'[q])
    BY DEF Pair
  <2>3. Pair(site)' = Pair(site)
    BY <1>1 DEF Pair
  <2> QED
    BY <1>1, <1>2, <2>1, <2>2, <2>3 DEF ConfirmsWhatIsOnFile
<1>5. ReloadsWhatIsConfirmed'
  <2>1. opc'[o] # "reloading"
    BY DEF Look, SubmitChanged, Reload, SubmitUnchanged, Push, Refuse, Leave
  <2>2. Pair(site)' = Pair(site)
    BY <1>1 DEF Pair
  <2> QED
    BY <1>1, <1>2, <2>1, <2>2 DEF ReloadsWhatIsConfirmed
<1>6. TargetIsVerified'
  <2>1. ASSUME opc'[o] = "pushing"
        PROVE  target'[o] \in verified \cup moved
    <3>1. CASE Reload(o)
      BY <3>1 DEF Reload, Ready, ReloadsWhatIsConfirmed
    <3>2. CASE SubmitUnchanged(o)
      BY <3>2 DEF SubmitUnchanged, Ready, EndpointChanged, AckIsVerified
    <3> QED
      BY <2>1, <3>1, <3>2 DEF Look, SubmitChanged, Push, Refuse, Leave
  <2> QED
    BY <1>1, <1>2, <2>1 DEF TargetIsVerified
<1>7. PushedToVerified'
  <2>1. \/ pushed' = pushed
        \/ opc[o] = "pushing" /\ pushed' = pushed \cup {target[o]}
    BY DEF Look, SubmitChanged, Reload, SubmitUnchanged, Push, Refuse, history
  <2> QED
    BY <1>1, <2>1 DEF PushedToVerified, TargetIsVerified
<1> QED
  BY <1>3, <1>4, <1>5, <1>6, <1>7 DEF Followed

\* Every step follows the endpoint.
LEMMA FollowedStep ==
    ASSUME IInv, [Next]_vars
    PROVE  Followed'
<1>1. ASSUME NEW c \in Clients, NEW f \in Forms, Register(c, f)
      PROVE  Followed'
  <2>1. UNCHANGED <<site, restore, history>>
    BY <1>1 DEF Register
  <2> QED
    BY <2>1, SamePairStep DEF restore, history, Pair
<1>2. ASSUME NEW c \in Clients, CommitOff(c)
      PROVE  Followed'
  BY <1>2, OffCommit, SamePairStep DEF IInv, CommitOff, restore, history
<1>3. ASSUME NEW host \in Hosts \cup {None}, Pin(host)
      PROVE  Followed'
  <2>1. site'.acked = site.acked /\ Pair(site') = Pair(site)
    BY <1>3 DEF Pin, Pair, IInv, TypeOK, SiteRow
  <2> QED
    BY <1>3, <2>1, SamePairStep DEF Pin, restore, history
<1>4. CASE UNCHANGED vars
  BY <1>4, SamePairStep DEF vars, restore, history, Pair
<1> QED
  BY <1>1, <1>2, <1>3, <1>4, EndpointStep, AckStep, PageStep DEF Next

\* What a registration leaves on file is what it published, unless its row was stale.
LEMMA OnFileStep ==
    ASSUME IInv, [Next]_vars
    PROVE  OnFileWasPublished'
<1> USE DEF IInv
<1>1. ASSUME UNCHANGED <<published, mixed>>, Pair(site') \in {Pair(site), None}
      PROVE  OnFileWasPublished'
  BY <1>1 DEF OnFileWasPublished
<1>2. ASSUME NEW c \in Clients, CommitEndpoint(c)
      PROVE  OnFileWasPublished'
  <2> DEFINE f == form[c]
             new == Filled(rread[c], f)
             saved == Saved(rread[c], new)
  <2>1. /\ site \in SiteRow /\ rread[c] \in SiteRow /\ f \in Forms
        /\ new \in SiteRow /\ site' \in SiteRow
    BY <1>2, EndpointCommit, FilledRow DEF TypeOK
  <2>2. CASE <<rread[c].url, rread[c].token>> = <<site.url, site.token>>
    <3>1. saved \in SiteRow /\ \A k \in Columns : saved[k] = Column(rread[c], new, k)
      BY <2>1, SavedColumns
    <3>2. /\ new.url = IF f.url = None THEN rread[c].url ELSE f.url
          /\ new.token = IF f.token = None THEN rread[c].token ELSE f.token
      BY <2>1 DEF Filled, SiteRow
    <3>3. saved.url = new.url /\ saved.token = new.token
      BY <2>2, <3>1 DEF Columns, Column
    <3>4. site' = [saved EXCEPT !.token = IF f.token = None THEN @ ELSE f.token]
      BY <1>2 DEF CommitEndpoint
    <3> HIDE DEF saved, new
    <3>5. site'.url = new.url /\ site'.token = new.token
      BY <3>1, <3>2, <3>3, <3>4 DEF SiteRow
    <3>6. Pair(site') = Pair(new)
      BY <3>5 DEF Pair
    <3>7. published' = published \cup Endpoint(new)
      BY <1>2 DEF CommitEndpoint, Recorded, new
    <3> QED
      BY <3>6, <3>7 DEF OnFileWasPublished, Endpoint
  <2>3. CASE <<rread[c].url, rread[c].token>> # <<site.url, site.token>>
    <3>1. mixed' = mixed \cup Endpoint(site')
      BY <1>2, <2>3 DEF CommitEndpoint, Recorded
    <3> QED
      BY <3>1 DEF OnFileWasPublished, Endpoint
  <2> QED
    BY <2>2, <2>3
<1>3. ASSUME NEW c \in Clients, NEW g \in Forms, Register(c, g)
      PROVE  OnFileWasPublished'
  BY <1>1, <1>3 DEF Register, history, Pair
<1>4. ASSUME NEW c \in Clients, CommitOff(c)
      PROVE  OnFileWasPublished'
  BY <1>1, <1>4, OffCommit DEF CommitOff, history
<1>5. ASSUME NEW host \in Hosts \cup {None}, Pin(host)
      PROVE  OnFileWasPublished'
  <2>1. Pair(site') = Pair(site)
    BY <1>5 DEF Pin, Pair, TypeOK, SiteRow
  <2> QED
    BY <1>1, <1>5, <2>1 DEF Pin, history
<1>6. ASSUME NEW o \in Operators, CommitAck(o)
      PROVE  OnFileWasPublished'
  BY <1>1, <1>6, AckCommit DEF CommitAck
<1>7. ASSUME NEW o \in Operators,
             \/ Look(o) \/ SubmitChanged(o) \/ Reload(o) \/ SubmitUnchanged(o)
             \/ Push(o) \/ Refuse(o)
      PROVE  OnFileWasPublished'
  <2>1. UNCHANGED <<site, published, mixed>>
    BY <1>7 DEF Look, SubmitChanged, Reload, SubmitUnchanged, Push, Refuse, history
  <2> QED
    BY <1>1, <2>1 DEF Pair
<1>8. CASE UNCHANGED vars
  BY <1>1, <1>8 DEF vars, history, Pair
<1> QED
  BY <1>2, <1>3, <1>4, <1>5, <1>6, <1>7, <1>8 DEF Next

\* Only Register makes a registration, and it checks the pin.
LEMMA CheckedStep ==
    ASSUME IInv, [Next]_vars
    PROVE  CheckedAgainstPin'
<1> USE DEF IInv, TypeOK
<1>1. ASSUME NEW c \in Clients, NEW f \in Forms, Register(c, f)
      PROVE  CheckedAgainstPin'
  BY <1>1 DEF Register, CheckedAgainstPin, PinAllows
<1>2. ASSUME NEW c \in Clients, CommitEndpoint(c) \/ CommitOff(c)
      PROVE  CheckedAgainstPin'
  BY <1>2 DEF CommitEndpoint, CommitOff, Answered, CheckedAgainstPin, PinAllows
<1>3. ASSUME UNCHANGED register
      PROVE  CheckedAgainstPin'
  BY <1>3 DEF register, CheckedAgainstPin, PinAllows
<1>4. ASSUME NEW host \in Hosts \cup {None}, Pin(host)
      PROVE  CheckedAgainstPin'
  BY <1>3, <1>4 DEF Pin
<1>5. ASSUME NEW o \in Operators,
             \/ Look(o) \/ SubmitChanged(o) \/ CommitAck(o) \/ Reload(o)
             \/ SubmitUnchanged(o) \/ Push(o) \/ Refuse(o)
      PROVE  CheckedAgainstPin'
  BY <1>3, <1>5 DEF Look, SubmitChanged, CommitAck, Reload, SubmitUnchanged, Push, Refuse
<1>6. CASE UNCHANGED vars
  BY <1>3, <1>6 DEF vars
<1> QED
  BY <1>1, <1>2, <1>4, <1>5, <1>6 DEF Next

\* IInv is inductive.
LEMMA IInvStep ==
    ASSUME IInv, [Next]_vars
    PROVE  IInv'
BY TypeOKStep, FollowedStep, OnFileStep, CheckedStep DEF IInv, Followed

\* IInv holds of a new site.
LEMMA IInvInit ==
    ASSUME Init
    PROVE  IInv
BY RemoteRestoreAssumption
   DEF Init, IInv, TypeOK, NewSite, NoForm, SiteRow, Forms, AckIsVerified,
       ConfirmsWhatIsOnFile, ReloadsWhatIsConfirmed, TargetIsVerified, PushedToVerified,
       OnFileWasPublished, CheckedAgainstPin, Pair

\* The inductive invariant of remote restore holds in every reachable state.
THEOREM Invariance == Spec => []IInv
<1>1. Init => IInv
  BY IInvInit
<1>2. IInv /\ [Next]_vars => IInv'
  BY IInvStep
<1> QED
  BY <1>1, <1>2, PTL DEF Spec

\* The private key goes only to an endpoint that an operator has confirmed, or that a
\* registration put in its place while the confirmation was being committed.
THEOREM KeyGoesToVerified == Spec => []PushedToVerified
<1>1. IInv => PushedToVerified
  BY DEF IInv
<1> QED
  BY <1>1, Invariance, PTL

\* URL and token on file were published together, or mixed by overlapping registrations.
THEOREM EndpointsArePublished == Spec => []EndpointWasPublished
<1>1. IInv => EndpointWasPublished
  BY DEF IInv, OnFileWasPublished, EndpointWasPublished, Ready
<1> QED
  BY <1>1, Invariance, PTL

\* Only a registration that was checked before the pin was set moves the URL off it.
LEMMA PinStep ==
    ASSUME IInv, [Next]_vars, site'.url \notin {site.url, None},
           site.pinned \notin {None, HostOf[site'.url]}
    PROVE  \E c \in Clients : /\ rpc[c] = "committing" /\ rpc'[c] = "idle"
                              /\ rread[c].pinned # site.pinned
<1> USE DEF IInv, TypeOK
<1>1. PICK c \in Clients : CommitEndpoint(c)
  <2>1. ASSUME NEW c \in Clients, CommitOff(c)
        PROVE  FALSE
    <3> DEFINE new == [rread[c] EXCEPT !.enabled = FALSE, !.url = None, !.token = None,
                                       !.acked = None]
    <3>1. new \in SiteRow /\ new.url = None
      BY DEF SiteRow
    <3> HIDE DEF new
    <3>2. Saved(rread[c], new).url \in {site.url, None}
      BY <3>1, SavedColumns DEF Columns, Column
    <3> QED
      BY <2>1, <3>2 DEF CommitOff, new
  <2>2. ASSUME NEW o \in Operators, CommitAck(o)
        PROVE  FALSE
    <3> DEFINE new == [oread[o] EXCEPT !.acked = Pair(oread[o])]
    <3>1. new \in SiteRow /\ new.url = oread[o].url
      BY PairType DEF SiteRow
    <3> HIDE DEF new
    <3>2. Saved(oread[o], new).url = site.url
      BY <3>1, SavedColumns DEF Columns, Column
    <3> QED
      BY <2>2, <3>2 DEF CommitAck, new
  <2>3. ASSUME NEW host \in Hosts \cup {None}, Pin(host)
        PROVE  FALSE
    BY <2>3 DEF Pin, SiteRow
  <2>4. site' # site
    OBVIOUS
  <2> QED
    BY <2>1, <2>2, <2>3, <2>4
       DEF Next, Register, Look, SubmitChanged, Reload, SubmitUnchanged, Push, Refuse, vars
<1> DEFINE f == form[c]
           new == Filled(rread[c], f)
           saved == Saved(rread[c], new)
<1>2. rpc[c] = "committing" /\ rpc'[c] = "idle"
  BY <1>1 DEF CommitEndpoint, Answered
<1>3. new \in SiteRow /\ saved \in SiteRow
      /\ saved.url = IF new.url = rread[c].url THEN site.url ELSE new.url
  <2>1. new \in SiteRow
    BY FilledRow
  <2> HIDE DEF new
  <2> QED
    BY <2>1, SavedColumns DEF Columns, Column
<1>4. new.url = IF f.url = None THEN rread[c].url ELSE f.url
  BY DEF Filled, SiteRow
<1>5. site'.url = saved.url
  <2>1. site' = [saved EXCEPT !.token = IF f.token = None THEN @ ELSE f.token]
    BY <1>1 DEF CommitEndpoint
  <2> HIDE DEF saved
  <2> QED
    BY <1>3, <2>1 DEF SiteRow
<1>6. f.url # None /\ site'.url = f.url
  <2> HIDE DEF new, saved
  <2> QED
    BY <1>3, <1>4, <1>5
<1>7. PinAllows(rread[c], f)
  BY <1>2 DEF CheckedAgainstPin
<1> HIDE DEF new, saved, f
<1> QED
  BY <1>2, <1>6, <1>7 DEF PinAllows, f

\* The pin is never crossed by a registration that was checked against it.
THEOREM PinIsHeld == Spec => PinHolds
<1>1. IInv /\ [Next]_vars => (site'.url \notin {site.url, None}
                              /\ site.pinned \notin {None, HostOf[site'.url]}
          => \E c \in Clients : /\ rpc[c] = "committing" /\ rpc'[c] = "idle"
                                /\ rread[c].pinned # site.pinned)
  BY PinStep
<1> QED
  BY <1>1, Invariance, PTL DEF Spec, PinHolds
=============================================================================
