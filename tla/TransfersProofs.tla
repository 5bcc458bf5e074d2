-------------------------- MODULE TransfersProofs --------------------------
(* Proofs about Transfers, for any number of files, hosts, uploads, pushes  *)
(* and listings under way, and files of any size. The invariant has three   *)
(* layers, each proved on top of the one before: what is staged, what is on *)
(* the remote hosts, and what the drawer lists.                             *)
EXTENDS Transfers, TLAPS

-----------------------------------------------------------------------------
(* What is staged.                                                          *)

Whole(id) == id \in DOMAIN staging /\ staging[id].len = Size[staging[id].file]

StagingOK == /\ DOMAIN staging \subseteq Ids
             /\ \A i \in DOMAIN staging :
                  staging[i] \in StagedType /\ staging[i].len <= Size[staging[i].file]

\* An upload writes to a file that is there; what it has done with is whole.
UploadOK(r) == /\ r.pc = "write" => r.id \in DOMAIN staging
               /\ r # Idle => \A k \in DOMAIN r.done : Whole(r.done[k])

ListedOK(f) == Whole(f.id) /\ staging[f.id].file = f.file

\* Only whole files are pushed, and no push has read more than there is.
PushOK(r) == r # Idle => Whole(r.id) /\ r.off <= staging[r.id].len

StagedInv == /\ StagingOK
             /\ up \in [Uploads -> UploadType] /\ \A u \in Uploads : UploadOK(up[u])
             /\ listed \subseteq [id : Ids, file : Files] /\ \A f \in listed : ListedOK(f)
             /\ push \in [Pushes -> PushType] /\ \A p \in Pushes : PushOK(push[p])
             /\ pane \in Conns \cup {None}

\* A step that loses no whole file and changes no request keeps the rest.
Grows == /\ DOMAIN staging \subseteq DOMAIN staging'
         /\ \A id \in DOMAIN staging : Whole(id) => staging'[id] = staging[id]

LEMMA GrowsKeeps ==
  ASSUME Grows, NEW r
  PROVE  /\ UploadOK(r) => UploadOK(r)'
         /\ ListedOK(r) => ListedOK(r)'
         /\ PushOK(r) => PushOK(r)'
  BY DEF Grows, UploadOK, ListedOK, PushOK, Whole

\* One upload changes, and with it perhaps the staging directory.
LEMMA UploadStep ==
  ASSUME StagedInv, NEW u \in Uploads, NEW r \in UploadType, up' = [up EXCEPT ![u] = r],
         UploadOK(r)', StagingOK', Grows, UNCHANGED <<listed, pane, push>>
  PROVE  StagedInv'
  BY GrowsKeeps DEF StagedInv

\* One push changes.
LEMMA PushStep ==
  ASSUME StagedInv, NEW p \in Pushes, NEW r \in PushType, push' = [push EXCEPT ![p] = r],
         PushOK(r), UNCHANGED <<staging, up, listed, pane>>
  PROVE  StagedInv'
  <1>1. Grows
    BY DEF Grows
  <1> QED BY <1>1, GrowsKeeps DEF StagedInv, StagingOK

\* A request that is over holds nothing.
LEMMA IdleOK == /\ Idle \in UploadType /\ Idle \in PushType
                /\ UploadOK(Idle) /\ UploadOK(Idle)' /\ PushOK(Idle) /\ PushOK(Idle)'
  BY DEF Idle, UploadType, PushType, UploadOK, PushOK

LEMMA ChooseKeeps ==
  ASSUME StagedInv, NEW u \in Uploads, NEW files \in Batches, Choose(u, files)
  PROVE  StagedInv'
  <1>0. PICK r : r = [pc |-> "field", todo |-> files, done |-> <<>>]
    OBVIOUS
  <1>1. up' = [up EXCEPT ![u] = r] /\ UNCHANGED <<staging, listed, pane, push>>
    BY <1>0 DEF Choose
  <1>2. r \in UploadType /\ r.done = <<>> /\ r.pc = "field"
    BY <1>0, TransfersAssumption DEF UploadType
  <1>3. UploadOK(r)' /\ Grows /\ StagingOK'
    BY <1>1, <1>2 DEF UploadOK, Grows, StagedInv, StagingOK
  <1> QED BY <1>1, <1>2, <1>3, UploadStep

LEMMA CreateKeeps ==
  ASSUME StagedInv, NEW u \in Uploads, NEW id \in Ids, Create(u, id)
  PROVE  StagedInv'
  <1>0. PICK file, r :
          /\ file = Head(up[u].todo)
          /\ r = [pc |-> "write", id |-> id, todo |-> Tail(up[u].todo), done |-> up[u].done]
    OBVIOUS
  <1>1. /\ up[u].pc = "field" /\ up[u].todo # <<>> /\ id \notin DOMAIN staging
        /\ staging' = With(staging, id, [file |-> file, len |-> 0])
        /\ up' = [up EXCEPT ![u] = r] /\ UNCHANGED <<listed, pane, push>>
    BY <1>0 DEF Create
  <1>2. /\ up[u].todo \in Seq(Files) /\ up[u].done \in Seq(Ids) /\ up[u] # Idle
        /\ UploadOK(up[u])
    BY <1>1 DEF StagedInv, UploadType, Idle
  <1>3. file \in Files /\ Tail(up[u].todo) \in Seq(Files)
    BY <1>0, <1>1, <1>2
  <1>4. r \in UploadType /\ r.id = id /\ r.done = up[u].done
    BY <1>0, <1>2, <1>3 DEF UploadType
  <1>5. /\ DOMAIN staging' = DOMAIN staging \cup {id}
        /\ \A i \in DOMAIN staging : staging'[i] = staging[i]
        /\ staging'[id] = [file |-> file, len |-> 0]
    BY <1>1 DEF With
  <1>6. Grows
    BY <1>5 DEF Grows
  <1>7. StagingOK'
    <2>1. staging'[id] \in StagedType /\ staging'[id].len = 0 /\ staging'[id].file = file
      BY <1>3, <1>5 DEF StagedType
    <2>2. 0 <= Size[file]
      BY <1>3, TransfersAssumption
    <2> QED BY <1>5, <2>1, <2>2 DEF StagedInv, StagingOK
  <1>8. UploadOK(r)'
    <2>1. \A k \in DOMAIN r.done : Whole(r.done[k])'
      BY <1>2, <1>4, <1>6, GrowsKeeps DEF UploadOK, Whole, Grows
    <2> QED BY <1>4, <1>5, <2>1 DEF UploadOK
  <1> QED BY <1>1, <1>4, <1>6, <1>7, <1>8, UploadStep

LEMMA WriteBlockKeeps == ASSUME StagedInv, NEW u \in Uploads, WriteBlock(u) PROVE StagedInv'
  <1> DEFINE id == up[u].id
  <1>1. /\ up[u].pc = "write" /\ staging[id].len < Size[staging[id].file]
        /\ staging' = [staging EXCEPT ![id].len = @ + 1]
        /\ up' = up /\ UNCHANGED <<listed, pane, push>>
    BY DEF WriteBlock
  <1>2. id \in DOMAIN staging /\ staging[id] \in StagedType
    BY <1>1 DEF StagedInv, UploadOK, StagingOK
  <1> HIDE DEF id
  <1>3. /\ DOMAIN staging' = DOMAIN staging
        /\ \A i \in DOMAIN staging : i # id => staging'[i] = staging[i]
        /\ staging'[id].len = staging[id].len + 1 /\ staging'[id].file = staging[id].file
        /\ staging'[id] \in StagedType
    BY <1>1, <1>2 DEF StagedType
  <1>4. Grows
    BY <1>1, <1>2, <1>3 DEF Grows, Whole, StagedType
  <1>5. StagingOK'
    <2>1. Size[staging[id].file] \in Nat /\ staging[id].len \in Nat
      BY <1>2, TransfersAssumption DEF StagedType
    <2>2. staging'[id].len <= Size[staging'[id].file]
      BY <1>1, <1>3, <2>1
    <2> QED BY <1>3, <2>2 DEF StagedInv, StagingOK
  <1> QED BY <1>1, <1>4, <1>5, GrowsKeeps DEF StagedInv

LEMMA StagedKeeps == ASSUME StagedInv, NEW u \in Uploads, Staged(u) PROVE StagedInv'
  <1>0. PICK id, r :
          /\ id = up[u].id
          /\ r = [pc |-> "field", todo |-> up[u].todo, done |-> Append(up[u].done, id)]
    OBVIOUS
  <1>1. /\ up[u].pc = "write" /\ staging[id].len = Size[staging[id].file]
        /\ up' = [up EXCEPT ![u] = r] /\ UNCHANGED <<staging, listed, pane, push>>
    BY <1>0 DEF Staged
  <1>2. /\ up[u].todo \in Seq(Files) /\ up[u].done \in Seq(Ids) /\ id \in Ids /\ up[u] # Idle
        /\ UploadOK(up[u])
    BY <1>0, <1>1 DEF StagedInv, UploadType, Idle
  <1>3. r \in UploadType /\ r.pc = "field" /\ r.done = Append(up[u].done, id)
    BY <1>0, <1>2 DEF UploadType
  <1>4. Whole(id)
    BY <1>0, <1>1, <1>2 DEF UploadOK, Whole
  <1>5. Grows /\ StagingOK'
    BY <1>1 DEF Grows, StagedInv, StagingOK
  <1>6. \A k \in DOMAIN r.done : Whole(r.done[k])
    BY <1>2, <1>3, <1>4 DEF UploadOK
  <1>7. UploadOK(r)'
    BY <1>3, <1>5, <1>6 DEF UploadOK, Whole, Grows
  <1> QED BY <1>1, <1>3, <1>5, <1>7, UploadStep

\* Nothing is forgotten of what stays as it is.
LEMMA SameStaging ==
  ASSUME UNCHANGED staging, NEW r
  PROVE  /\ Grows
         /\ UploadOK(r)' <=> UploadOK(r)
         /\ ListedOK(r)' <=> ListedOK(r)
         /\ PushOK(r)' <=> PushOK(r)
  BY DEF Grows, UploadOK, ListedOK, PushOK, Whole

LEMMA UploadFailsKeeps == ASSUME StagedInv, NEW u \in Uploads, UploadFails(u) PROVE StagedInv'
  <1>1. up' = [up EXCEPT ![u] = Idle] /\ UNCHANGED <<staging, listed, pane, push>>
    BY DEF UploadFails
  <1>2. Grows /\ StagingOK'
    BY <1>1, SameStaging DEF StagedInv, StagingOK
  <1> QED BY <1>1, <1>2, IdleOK, UploadStep

\* A push begins with the first file of an upload, and with nothing read.
LEMMA PushingOK ==
  ASSUME StagedInv, pane # None, NEW id, Whole(id), NEW p
  PROVE  LET r == Pushing(p, <<pane, Name[staging[id].file]>>, id)
         IN r \in PushType /\ PushOK(r)
  <1> DEFINE r == Pushing(p, <<pane, Name[staging[id].file]>>, id)
  <1>1. id \in Ids /\ staging[id] \in StagedType /\ staging[id].len \in Nat
    BY DEF Whole, StagedInv, StagingOK, StagedType
  <1>2. <<pane, Name[staging[id].file]>> \in Targets
    BY <1>1, TransfersAssumption DEF StagedInv, StagedType, Targets
  <1>3. r \in PushType /\ r.id = id /\ r.off = 0
    BY <1>1, <1>2 DEF Pushing, PushType
  <1> QED BY <1>1, <1>3 DEF PushOK

LEMMA UploadAnsweredKeeps ==
  ASSUME StagedInv, NEW u \in Uploads, UploadAnswered(u) PROVE StagedInv'
  <1> DEFINE done == up[u].done
             named == {[id |-> i, file |-> staging[i].file] : i \in {done[k] : k \in DOMAIN done}}
  <1>1. /\ up[u].pc = "field" /\ listed' = listed \cup named
        /\ up' = [up EXCEPT ![u] = Idle] /\ UNCHANGED <<staging, pane>>
    BY DEF UploadAnswered
  <1>2. done \in Seq(Ids) /\ up[u] # Idle /\ UploadOK(up[u])
    BY <1>1 DEF StagedInv, UploadType, Idle
  <1>3. \A k \in DOMAIN done : Whole(done[k]) /\ done[k] \in Ids
    BY <1>2 DEF UploadOK
  <1>4. \A f \in named : f \in [id : Ids, file : Files] /\ ListedOK(f)
    BY <1>3 DEF ListedOK, Whole, StagedInv, StagingOK, StagedType
  <1>5. push' \in [Pushes -> PushType] /\ \A p \in Pushes : PushOK(push'[p])
    <2>1. CASE UNCHANGED push
      BY <2>1 DEF StagedInv
    <2>2. ASSUME pane # None, done # <<>>, NEW p \in Pushes,
                 push' = [push EXCEPT ![p] =
                            Pushing(p, <<pane, Name[staging[Head(done)].file]>>, Head(done))]
          PROVE  push' \in [Pushes -> PushType] /\ \A q \in Pushes : PushOK(push'[q])
      <3>1. Whole(Head(done))
        BY <1>2, <1>3, <2>2
      <3> DEFINE r == Pushing(p, <<pane, Name[staging[Head(done)].file]>>, Head(done))
      <3>2. r \in PushType /\ PushOK(r)
        BY <2>2, <3>1, PushingOK
      <3> HIDE DEF r
      <3> QED BY <2>2, <3>2 DEF StagedInv, r
    <2> QED BY <2>1, <2>2 DEF UploadAnswered
  <1> HIDE DEF done, named
  <1> QED BY <1>1, <1>4, <1>5, SameStaging, IdleOK DEF StagedInv, StagingOK

LEMMA RemoteCreatedKeeps ==
  ASSUME StagedInv, NEW p \in Pushes, CreateRemote(p) PROVE StagedInv'
  <1>1. push[p] # Idle /\ UNCHANGED <<staging, up, listed, pane>>
    <2>1. push[p].pc = "ask" /\ UNCHANGED <<staging, up, listed, pane>>
      BY Zenon DEF CreateRemote
    <2> QED BY <2>1 DEF Idle
  <1>2. push' = [q \in Pushes |->
           IF q = p THEN [push[p] EXCEPT !.pc = "write", !.alone = (Writing(push[p].to) = {})]
           ELSE IF q \in Writing(push[p].to) THEN [push[q] EXCEPT !.alone = FALSE]
           ELSE push[q]]
    BY DEF CreateRemote
  <1>3. \A q \in Pushes : q \in Writing(push[p].to) => push[q] # Idle
    BY DEF Writing, Idle
  <1>4. \A q \in Pushes : /\ push'[q] \in PushType
                          /\ push[q] # Idle <=> push'[q] # Idle
                          /\ push[q] # Idle => push'[q].id = push[q].id /\ push'[q].off = push[q].off
    <2>1. PICK c \in BOOLEAN : c = (Writing(push[p].to) = {})
      OBVIOUS
    <2>2. push'[p] = [push[p] EXCEPT !.pc = "write", !.alone = c]
      BY <1>2, <2>1, Zenon
    <2>3. ASSUME NEW q \in Pushes, q # p
          PROVE  \/ push'[q] = push[q]
                 \/ push[q] # Idle /\ push'[q] = [push[q] EXCEPT !.alone = FALSE]
      <3>1. push'[q] = IF q \in Writing(push[p].to) THEN [push[q] EXCEPT !.alone = FALSE] ELSE push[q]
        BY <1>2, <2>3, Zenon
      <3>2. CASE q \in Writing(push[p].to)
        BY <1>3, <2>3, <3>1, <3>2
      <3>3. CASE q \notin Writing(push[p].to)
        BY <3>1, <3>3
      <3> QED BY <3>2, <3>3
    <2> HIDE <1>2
    <2>4. \A q \in Pushes : push[q] \in PushType
      BY DEF StagedInv
    <2> SUFFICES ASSUME NEW q \in Pushes
                 PROVE  /\ push'[q] \in PushType
                        /\ push[q] # Idle <=> push'[q] # Idle
                        /\ push[q] # Idle => push'[q].id = push[q].id /\ push'[q].off = push[q].off
      OBVIOUS
    <2>5. CASE q = p
      <3>1. push[p] \in [pc : {"ask", "write", "answer"}, to : Targets, id : Ids, off : Nat,
                          told : BOOLEAN, alone : BOOLEAN]
        BY <1>1, <2>4 DEF PushType
      <3>2. PICK r : r = [push[p] EXCEPT !.pc = "write"]
        OBVIOUS
      <3>3. /\ r \in [pc : {"write"}, to : Targets, id : Ids, off : Nat,
                       told : BOOLEAN, alone : BOOLEAN]
            /\ r.id = push[p].id /\ r.off = push[p].off
        BY <3>1, <3>2
      <3>4. push'[p] = [r EXCEPT !.alone = c]
        BY <2>2, <3>2
      <3> QED BY <1>1, <2>1, <2>5, <3>3, <3>4 DEF PushType, Idle
    <2>6. CASE q # p /\ push'[q] = push[q]
      BY <2>4, <2>6
    <2>7. CASE q # p /\ push[q] # Idle /\ push'[q] = [push[q] EXCEPT !.alone = FALSE]
      BY <2>4, <2>7 DEF PushType, Idle
    <2> QED BY <2>3, <2>5, <2>6, <2>7
  <1>5. push' \in [Pushes -> PushType] /\ \A q \in Pushes : PushOK(push'[q])
    BY <1>2, <1>4 DEF StagedInv, PushOK
  <1> HIDE <1>2
  <1> QED BY <1>1, <1>5, SameStaging DEF StagedInv, StagingOK

LEMMA PushMovesKeep ==
  ASSUME StagedInv, NEW p \in Pushes,
         PushBlock(p) \/ PushEnds(p) \/ PushFails(p) \/ PushAnswered(p)
  PROVE  StagedInv'
  <1>1. UNCHANGED <<staging, up, listed, pane>>
    BY DEF PushBlock, PushEnds, PushFails, PushAnswered
  <1>2. ASSUME push' = [push EXCEPT ![p] = Idle] PROVE StagedInv'
    BY <1>1, <1>2, IdleOK, PushStep
  <1>3. CASE PushBlock(p)
    <2>0. PICK r : r = [push[p] EXCEPT !.off = @ + 1]
      OBVIOUS
    <2>1. push[p] # Idle /\ push' = [push EXCEPT ![p] = r] /\ push[p].off < staging[push[p].id].len
      BY <1>3, <2>0 DEF PushBlock, Idle, StagedInv
    <2>2. PushOK(push[p]) /\ push[p] \in PushType /\ push[p].off \in Nat
      BY <2>1 DEF StagedInv, PushType, Idle
    <2>3. r \in PushType /\ r.id = push[p].id /\ r.off = push[p].off + 1
      BY <2>0, <2>1, <2>2 DEF PushType, Idle
    <2>4. staging[push[p].id].len \in Nat
      BY <2>1, <2>2 DEF PushOK, Whole, StagedInv, StagingOK, StagedType
    <2>5. PushOK(r)
      BY <2>1, <2>2, <2>3, <2>4 DEF PushOK
    <2> QED BY <1>1, <2>1, <2>3, <2>5, PushStep
  <1>4. CASE PushEnds(p)
    <2>0. PICK r : r = [push[p] EXCEPT !.pc = "answer"]
      OBVIOUS
    <2>1. push[p] # Idle /\ (push' = [push EXCEPT ![p] = r] \/ push' = [push EXCEPT ![p] = Idle])
      <3>1. push[p].pc = "write"
        BY <1>4 DEF PushEnds
      <3>2. push' = [push EXCEPT ![p] = IF push[p].told THEN r ELSE Idle]
        BY <1>4, <2>0 DEF PushEnds
      <3>3. push[p] # Idle
        BY <3>1 DEF Idle
      <3>4. CASE push[p].told
        BY <3>2, <3>3, <3>4
      <3>5. CASE ~push[p].told
        BY <3>2, <3>3, <3>5
      <3> QED BY <3>4, <3>5
    <2>2. PushOK(push[p]) /\ push[p] \in PushType
      BY DEF StagedInv
    <2>3. r \in PushType /\ r.id = push[p].id /\ r.off = push[p].off
      BY <2>0, <2>1, <2>2 DEF PushType, Idle
    <2>4. PushOK(r)
      BY <2>1, <2>2, <2>3 DEF PushOK
    <2> QED BY <1>1, <1>2, <2>1, <2>3, <2>4, PushStep
  <1>5. CASE PushFails(p) \/ PushAnswered(p)
    BY <1>2, <1>5 DEF PushFails, PushAnswered
  <1> QED BY <1>3, <1>4, <1>5

LEMMA OthersKeep ==
  ASSUME StagedInv, (\E c \in Conns \cup {None} : SwitchPane(c)) \/ PageReloads \/ Restart
  PROVE  StagedInv'
  <1>1. UNCHANGED staging
    BY DEF SwitchPane, PageReloads, Restart
  <1>2. CASE \E c \in Conns \cup {None} : SwitchPane(c)
    BY <1>1, <1>2, SameStaging DEF SwitchPane, StagedInv, StagingOK
  <1>3. CASE PageReloads
    <2>1. /\ push' = [p \in Pushes |-> IF push[p].pc \in {"ask", "write"}
                                       THEN [push[p] EXCEPT !.told = FALSE] ELSE Idle]
          /\ up' = [u \in Uploads |-> Idle] /\ listed' = {} /\ pane' = None
      BY <1>3 DEF PageReloads
    <2>2. \A p \in Pushes : push'[p] \in PushType /\ PushOK(push'[p])
      <3> SUFFICES ASSUME NEW p \in Pushes PROVE push'[p] \in PushType /\ PushOK(push'[p])
        OBVIOUS
      <3>1. CASE push[p].pc \in {"ask", "write"}
        <4>1. push[p] # Idle /\ push[p] \in PushType /\ PushOK(push[p])
          BY <3>1 DEF Idle, StagedInv
        <4>2. push'[p] = [push[p] EXCEPT !.told = FALSE]
          BY <2>1, <3>1
        <4>3. push'[p] \in PushType /\ push'[p].id = push[p].id /\ push'[p].off = push[p].off
          BY <4>1, <4>2 DEF PushType, Idle
        <4> QED BY <4>1, <4>3 DEF PushOK
      <3>2. CASE push[p].pc \notin {"ask", "write"}
        BY <2>1, <3>2, IdleOK
      <3> QED BY <3>1, <3>2
    <2>3. push' \in [Pushes -> PushType]
      BY <2>1, <2>2
    <2>4. \A p \in Pushes : PushOK(push[p])'
      BY <1>1, <2>2, SameStaging DEF PushOK, Whole
    <2> QED BY <1>1, <2>1, <2>3, <2>4, IdleOK DEF StagedInv, StagingOK
  <1>4. CASE Restart
    BY <1>1, <1>4, IdleOK DEF Restart, StagedInv, StagingOK, SameStaging, ListedOK, Whole
  <1> QED BY <1>2, <1>3, <1>4

\* The listing's steps concern nothing of this.
LEMMA StagedStep == StagedInv /\ [Next]_vars => StagedInv'
  <1> SUFFICES ASSUME StagedInv, [Next]_vars PROVE StagedInv'
    OBVIOUS
  <1>1. ASSUME UNCHANGED <<staging, up, listed, pane, push>> PROVE StagedInv'
    BY <1>1, SameStaging DEF StagedInv, StagingOK
  <1>2. ASSUME NEW u \in Uploads,
               \/ \E files \in Batches : Choose(u, files)
               \/ \E id \in Ids : Create(u, id)
               \/ WriteBlock(u) \/ Staged(u) \/ UploadFails(u) \/ UploadAnswered(u)
        PROVE  StagedInv'
    BY <1>2, ChooseKeeps, CreateKeeps, WriteBlockKeeps, StagedKeeps, UploadFailsKeeps,
       UploadAnsweredKeeps
  <1>3. ASSUME NEW p \in Pushes,
               CreateRemote(p) \/ PushBlock(p) \/ PushEnds(p) \/ PushFails(p) \/ PushAnswered(p)
        PROVE  StagedInv'
    BY <1>3, RemoteCreatedKeeps, PushMovesKeep
  <1>4. ASSUME NEW l \in Lists,
               \/ ReadDirectory(l) \/ ListAnswered(l) \/ ListFails(l)
               \/ \E c \in Conns : OpenDirectory(l, c)
        PROVE  StagedInv'
    BY <1>1, <1>4 DEF ReadDirectory, ListAnswered, ListFails, OpenDirectory
  <1>5. CASE (\E c \in Conns \cup {None} : SwitchPane(c)) \/ PageReloads \/ Restart
    BY <1>5, OthersKeep
  <1>6. CASE UNCHANGED vars
    BY <1>1, <1>6 DEF vars
  <1> QED BY <1>2, <1>3, <1>4, <1>5, <1>6 DEF Next

LEMMA StagedInit == Init => StagedInv
  <1> SUFFICES ASSUME Init PROVE StagedInv
    OBVIOUS
  <1>1. DOMAIN staging = {}
    BY DEF Init
  <1> QED BY <1>1, IdleOK DEF Init, StagedInv, StagingOK

LEMMA StagedInvariance == Spec => []StagedInv
  BY StagedInit, StagedStep, PTL DEF Spec

\* Every file the drawer offers is in the staging directory and complete, for
\* files of any size and any number of uploads that fail or are cut off.
THEOREM OfferedIsWhole == Spec => []NamedIsWhole
  <1>1. StagedInv => NamedIsWhole
    <2> SUFFICES ASSUME StagedInv, NEW f \in listed
                 PROVE  /\ f.id \in DOMAIN staging
                        /\ staging[f.id] = [file |-> f.file, len |-> Size[f.file]]
      BY DEF NamedIsWhole
    <2>1. Whole(f.id) /\ staging[f.id].file = f.file
      BY DEF StagedInv, ListedOK
    <2>2. staging[f.id] \in StagedType
      BY <2>1 DEF StagedInv, StagingOK, Whole
    <2> QED BY <2>1, <2>2 DEF Whole, StagedType
  <1> QED BY <1>1, StagedInvariance, PTL

-----------------------------------------------------------------------------
(* What is on the remote hosts.                                             *)

Writes(q, to) == push[q].pc = "write" /\ push[q].to = to

RemoteOK == /\ DOMAIN remote \subseteq Targets
            /\ \A to \in DOMAIN remote : remote[to] \in Seq(Files \cup {Hole})

\* A push that has not begun has read nothing; one that has, has its target.
\* One that has been alone since has written what it read and nothing else.
WritingOK(p) ==
  /\ push[p].pc = "ask" => push[p].off = 0
  /\ push[p].pc = "write" => push[p].to \in DOMAIN remote
  /\ push[p].pc = "write" /\ push[p].alone = TRUE =>
       /\ \A q \in Pushes : Writes(q, push[p].to) => q = p
       /\ remote[push[p].to] = [k \in 1..push[p].off |-> staging[push[p].id].file]

\* Nobody writes to a target that is settled, and the file is there.
SettledOK(f) == /\ \A q \in Pushes : ~Writes(q, f.to)
                /\ f.to \in DOMAIN remote /\ remote[f.to] = Copy(f.file)

RemoteInv == /\ RemoteOK /\ \A p \in Pushes : WritingOK(p)
             /\ settled \subseteq [to : Targets, file : Files]
             /\ promised \subseteq settled
             /\ \A f \in settled : SettledOK(f)

\* No push begins to write or moves on.
Quiet == \A q \in Pushes :
           /\ push'[q].pc = "ask" => push'[q].off = 0
           /\ push'[q].pc = "write" =>
                /\ push[q].pc = "write" /\ push'[q].to = push[q].to /\ push'[q].id = push[q].id
                /\ push'[q].off = push[q].off /\ push'[q].alone = push[q].alone

\* Whole files stay, also those being written elsewhere.
LEMMA PushedStays ==
  ASSUME StagedInv, Grows, NEW q \in Pushes, push[q] # Idle
  PROVE  staging'[push[q].id] = staging[push[q].id]
  BY DEF StagedInv, PushOK, Grows, Whole

LEMMA QuietKeeps ==
  ASSUME StagedInv, RemoteInv, Grows, Quiet, UNCHANGED <<remote, settled>>, promised' \subseteq settled
  PROVE  RemoteInv'
  <1>1. \A q \in Pushes : \A to : Writes(q, to)' => Writes(q, to)
    BY DEF Quiet, Writes
  <1>2. \A f \in settled : SettledOK(f)'
    BY <1>1 DEF RemoteInv, SettledOK
  <1>3. \A p \in Pushes : WritingOK(p)'
    <2> SUFFICES ASSUME NEW p \in Pushes PROVE WritingOK(p)'
      OBVIOUS
    <2>1. CASE push'[p].pc = "write"
      <3>1. /\ push[p].pc = "write" /\ push'[p].to = push[p].to /\ push'[p].id = push[p].id
            /\ push'[p].off = push[p].off /\ push'[p].alone = push[p].alone
        BY <2>1 DEF Quiet
      <3>2. staging'[push[p].id] = staging[push[p].id]
        BY <3>1, PushedStays DEF Idle
      <3> QED BY <1>1, <2>1, <3>1, <3>2 DEF RemoteInv, WritingOK
    <2>2. CASE push'[p].pc # "write"
      BY <2>2 DEF Quiet, WritingOK
    <2> QED BY <2>1, <2>2
  <1> QED BY <1>2, <1>3 DEF RemoteInv, RemoteOK

\* The steps of uploads, listings and panes, the ends of pushes.
LEMMA QuietSteps ==
  ASSUME StagedInv, RemoteInv,
         \/ \E u \in Uploads :
              \/ \E files \in Batches : Choose(u, files)
              \/ \E id \in Ids : Create(u, id)
              \/ WriteBlock(u) \/ Staged(u) \/ UploadFails(u) \/ UploadAnswered(u)
         \/ \E p \in Pushes : PushFails(p) \/ PushAnswered(p)
         \/ \E l \in Lists :
              \/ ReadDirectory(l) \/ ListAnswered(l) \/ ListFails(l)
              \/ \E c \in Conns : OpenDirectory(l, c)
         \/ \E c \in Conns \cup {None} : SwitchPane(c)
         \/ PageReloads \/ Restart \/ UNCHANGED vars
  PROVE  /\ Quiet /\ UNCHANGED <<remote, settled>>
         /\ promised' = {} \/ promised' = promised
              \/ \E p \in Pushes : PushAnswered(p) /\ promised' \subseteq settled
  <1>1. UNCHANGED <<remote, settled>>
    BY DEF Choose, Create, WriteBlock, Staged, UploadFails, UploadAnswered, PushFails,
           PushAnswered, ReadDirectory, ListAnswered, ListFails, OpenDirectory, SwitchPane,
           PageReloads, Restart, vars
  <1>2. \/ promised' = {} \/ promised' = promised
        \/ \E p \in Pushes : PushAnswered(p) /\ promised' \subseteq settled
    <2>1. ASSUME NEW p \in Pushes, PushAnswered(p) PROVE promised' \subseteq settled
      BY <2>1 DEF PushAnswered, RemoteInv
    <2> QED
      BY <2>1 DEF Choose, Create, WriteBlock, Staged, UploadFails, UploadAnswered, PushFails,
           ReadDirectory, ListAnswered, ListFails, OpenDirectory, SwitchPane,
           PageReloads, Restart, vars
  <1>3. ASSUME UNCHANGED push PROVE Quiet
    BY <1>3 DEF Quiet, RemoteInv, WritingOK
  <1>4. ASSUME NEW p \in Pushes, NEW r, r.pc # "write", r.pc = "ask" => r.off = 0,
               push' = [push EXCEPT ![p] = r]
        PROVE  Quiet
    BY <1>4 DEF Quiet, RemoteInv, WritingOK, StagedInv
  <1>5. ASSUME NEW u \in Uploads, UploadAnswered(u) PROVE Quiet
    <2>1. ASSUME NEW p \in Pushes, NEW to, NEW id, push' = [push EXCEPT ![p] = Pushing(p, to, id)]
          PROVE  Quiet
      <3>1. PICK r : r = Pushing(p, to, id)
        OBVIOUS
      <3>2. r.pc = "ask" /\ r.off = 0
        BY <3>1 DEF Pushing
      <3> QED BY <1>4, <2>1, <3>1, <3>2
    <2>2. \/ UNCHANGED push
          \/ \E q \in Pushes : push' = [push EXCEPT ![q] =
               Pushing(q, <<pane, Name[staging[Head(up[u].done)].file]>>, Head(up[u].done))]
      BY <1>5, Zenon DEF UploadAnswered
    <2> QED BY <1>3, <2>1, <2>2, Zenon
  <1>6. ASSUME NEW p \in Pushes, PushFails(p) \/ PushAnswered(p) PROVE Quiet
    <2>1. PICK r : r.pc = "idle" /\ push' = [push EXCEPT ![p] = r]
      BY <1>6 DEF PushFails, PushAnswered, Idle
    <2> QED BY <1>4, <2>1
  <1>7. ASSUME PageReloads PROVE Quiet
    <2>1. ASSUME NEW q \in Pushes, push'[q].pc \in {"ask", "write"}
          PROVE  /\ push'[q].pc = push[q].pc /\ push'[q].to = push[q].to
                 /\ push'[q].id = push[q].id /\ push'[q].off = push[q].off
                 /\ push'[q].alone = push[q].alone
      <3>1. push'[q] = IF push[q].pc \in {"ask", "write"} THEN [push[q] EXCEPT !.told = FALSE] ELSE Idle
        BY <1>7 DEF PageReloads
      <3>2. push'[q] = [push[q] EXCEPT !.told = FALSE] /\ push[q] # Idle
        BY <2>1, <3>1 DEF Idle
      <3> QED BY <3>2 DEF StagedInv, PushType
    <2>2. \A q \in Pushes : push[q].pc = "ask" => push[q].off = 0
      BY DEF RemoteInv, WritingOK
    <2>3. ASSUME NEW q \in Pushes
          PROVE  /\ push'[q].pc = "ask" => push'[q].off = 0
                 /\ push'[q].pc = "write" =>
                      /\ push[q].pc = "write" /\ push'[q].to = push[q].to
                      /\ push'[q].id = push[q].id /\ push'[q].off = push[q].off
                      /\ push'[q].alone = push[q].alone
      <3>1. CASE push'[q].pc = "ask"
        BY <2>1, <2>2, <3>1
      <3>2. CASE push'[q].pc = "write"
        BY <2>1, <3>2
      <3> QED BY <3>1, <3>2
    <2> QED BY <2>3 DEF Quiet
  <1>8. ASSUME Restart PROVE Quiet
    BY <1>8 DEF Restart, Quiet, Idle
  <1> QED
    BY <1>1, <1>2, <1>3, <1>5, <1>6, <1>7, <1>8 DEF Choose, Create, WriteBlock, Staged,
       UploadFails, ReadDirectory, ListAnswered, ListFails, OpenDirectory, SwitchPane, vars

\* A target is created or cut off: who writes to it is alone no more, and what
\* was settled of it is forgotten.
LEMMA CreateRemoteWrites ==
  ASSUME StagedInv, RemoteInv, NEW p \in Pushes, CreateRemote(p) PROVE RemoteInv'
  <1>0. PICK to : to = push[p].to
    OBVIOUS
  <1>1. /\ push[p].pc = "ask" /\ remote' = With(remote, to, <<>>) /\ UNCHANGED staging
        /\ settled' = Forget(to, settled) /\ promised' = Forget(to, promised)
    BY <1>0 DEF CreateRemote
  <1>2. push' = [q \in Pushes |->
           IF q = p THEN [push[p] EXCEPT !.pc = "write", !.alone = (Writing(to) = {})]
           ELSE IF q \in Writing(to) THEN [push[q] EXCEPT !.alone = FALSE]
           ELSE push[q]]
    BY <1>0 DEF CreateRemote
  <1>3. to \in Targets /\ push[p] \in PushType /\ push[p] # Idle /\ push[p].off = 0
    <2>1. push[p] \in PushType /\ push[p] # Idle
      BY <1>1 DEF StagedInv, Idle
    <2>2. push[p].off = 0
      BY <1>1 DEF RemoteInv, WritingOK
    <2> QED BY <1>0, <2>1, <2>2 DEF PushType
  <1>4. /\ DOMAIN remote' = DOMAIN remote \cup {to} /\ remote'[to] = <<>>
        /\ \A t \in DOMAIN remote : t # to => remote'[t] = remote[t]
    BY <1>1 DEF With
  <1>5. /\ push'[p].pc = "write" /\ push'[p].to = to /\ push'[p].off = 0
        /\ push'[p].alone = TRUE => \A q \in Pushes : ~Writes(q, to)
    <2>1. push'[p] = [push[p] EXCEPT !.pc = "write", !.alone = (Writing(to) = {})]
      BY <1>2
    <2>2. /\ push'[p].pc = "write" /\ push'[p].to = to /\ push'[p].off = 0
          /\ push'[p].alone = (Writing(to) = {})
      BY <1>0, <1>3, <2>1 DEF PushType, Idle
    <2> QED BY <2>2 DEF Writing, Writes
  <1>6. ASSUME NEW q \in Pushes, q # p
        PROVE  /\ push'[q].pc = push[q].pc /\ push'[q].off = push[q].off
               /\ push[q].pc \in {"ask", "write"} =>
                    push'[q].to = push[q].to /\ push'[q].id = push[q].id
               /\ Writes(q, to) => push'[q].alone = FALSE
               /\ ~Writes(q, to) => push'[q] = push[q]
    <2>1. CASE Writes(q, to)
      <3>1. push[q] \in PushType /\ push[q] # Idle
        BY <2>1 DEF StagedInv, Writes, Idle
      <3>2. push'[q] = [push[q] EXCEPT !.alone = FALSE]
        BY <1>2, <1>6, <2>1 DEF Writes, Writing
      <3> QED BY <2>1, <3>1, <3>2 DEF PushType, Idle
    <2>2. CASE ~Writes(q, to)
      BY <1>2, <1>6, <2>2 DEF Writes, Writing
    <2> QED BY <2>1, <2>2
  <1>7. RemoteOK'
    <2>1. <<>> \in Seq(Files \cup {Hole})
      OBVIOUS
    <2> QED BY <1>3, <1>4, <2>1 DEF RemoteInv, RemoteOK
  <1>8. \A q \in Pushes : \A t : Writes(q, t)' => Writes(q, t) \/ (q = p /\ t = to)
    BY <1>5, <1>6 DEF Writes
  <1>9. WritingOK(p)'
    <2>1. push'[p].alone = TRUE => \A q \in Pushes : Writes(q, to)' => q = p
      BY <1>5, <1>8
    <2>2. remote'[to] = [k \in 1..0 |-> staging'[push'[p].id].file]
      BY <1>4
    <2> QED BY <1>4, <1>5, <2>1, <2>2 DEF WritingOK
  <1>10. ASSUME NEW q \in Pushes, q # p PROVE WritingOK(q)'
    <2>1. WritingOK(q)
      BY DEF RemoteInv
    <2>2. CASE Writes(q, to)
      BY <1>4, <1>6, <1>10, <2>1, <2>2 DEF WritingOK, Writes
    <2>3. CASE ~Writes(q, to)
      <3>1. push'[q] = push[q]
        BY <1>6, <1>10, <2>3
      <3>2. CASE push[q].pc = "write"
        <4>1. push[q].to # to /\ push[q].to \in DOMAIN remote
          BY <2>1, <2>3, <3>2 DEF Writes, WritingOK
        <4>2. PICK t : t = push[q].to
          OBVIOUS
        <4>3. \A r \in Pushes : Writes(r, t)' => Writes(r, t)
          BY <1>8, <4>1, <4>2
        <4> QED BY <1>1, <1>4, <2>1, <3>1, <3>2, <4>1, <4>2, <4>3 DEF WritingOK, Writes
      <3>3. CASE push[q].pc # "write"
        BY <2>1, <3>1, <3>3 DEF WritingOK
      <3> QED BY <3>2, <3>3
    <2> QED BY <2>2, <2>3
  <1>11. \A f \in settled' : SettledOK(f)'
    <2> SUFFICES ASSUME NEW f \in settled, f.to # to PROVE SettledOK(f)'
      BY <1>1 DEF Forget
    <2>1. SettledOK(f)
      BY DEF RemoteInv
    <2> QED BY <1>4, <1>8, <2>1 DEF SettledOK
  <1>12. settled' \subseteq [to : Targets, file : Files] /\ promised' \subseteq settled'
    BY <1>1 DEF Forget, RemoteInv
  <1> QED BY <1>7, <1>9, <1>10, <1>11, <1>12 DEF RemoteInv

\* A block is written at the place it was read from; with nobody else writing,
\* what was written before it is all there is.
LEMMA PushBlockWrites ==
  ASSUME StagedInv, RemoteInv, NEW p \in Pushes, PushBlock(p) PROVE RemoteInv'
  <1>0. PICK to, file, off : to = push[p].to /\ off = push[p].off /\ file = staging[push[p].id].file
    OBVIOUS
  <1>1. /\ push[p].pc = "write" /\ push' = [push EXCEPT ![p].off = @ + 1]
        /\ remote' = [remote EXCEPT ![to] = Patch(@, off, file)]
        /\ UNCHANGED <<staging, settled, promised>>
    BY <1>0 DEF PushBlock
  <1>2. push[p] \in PushType /\ push[p] # Idle
    BY <1>1 DEF StagedInv, Idle
  <1>3. /\ off \in Nat /\ to \in DOMAIN remote /\ file \in Files
    <2>1. staging[push[p].id] \in StagedType
      BY <1>2 DEF StagedInv, PushOK, Whole, StagingOK
    <2> QED BY <1>0, <1>1, <1>2, <2>1 DEF PushType, RemoteInv, WritingOK, StagedType
  <1>4. /\ push'[p].pc = "write" /\ push'[p].to = to /\ push'[p].id = push[p].id
        /\ push'[p].off = off + 1 /\ push'[p].alone = push[p].alone
        /\ \A q \in Pushes : q # p => push'[q] = push[q]
    BY <1>0, <1>1, <1>2 DEF PushType, Idle, StagedInv
  <1>5. \A q \in Pushes : \A t : Writes(q, t)' <=> Writes(q, t)
    BY <1>0, <1>1, <1>4 DEF Writes
  <1>6. /\ DOMAIN remote' = DOMAIN remote /\ remote'[to] = Patch(remote[to], off, file)
        /\ \A t \in DOMAIN remote : t # to => remote'[t] = remote[t]
    BY <1>1, <1>3
  <1>7. RemoteOK'
    <2>1. remote[to] \in Seq(Files \cup {Hole})
      BY <1>3 DEF RemoteInv, RemoteOK
    <2>2. Patch(remote[to], off, file) \in Seq(Files \cup {Hole})
      <3> DEFINE n == IF off < Len(remote[to]) THEN Len(remote[to]) ELSE off + 1
                 b(k) == IF k = off + 1 THEN file
                         ELSE IF k <= Len(remote[to]) THEN remote[to][k] ELSE Hole
      <3>1. n \in Nat
        BY <1>3, <2>1
      <3>2. \A k \in 1..n : b(k) \in Files \cup {Hole}
        BY <1>3, <2>1
      <3>3. Patch(remote[to], off, file) = [k \in 1..n |-> b(k)]
        BY DEF Patch
      <3> HIDE DEF n, b
      <3> QED BY <3>1, <3>2, <3>3
    <2> QED BY <1>6, <2>2 DEF RemoteInv, RemoteOK
  <1>8. WritingOK(p)'
    <2>1. CASE push[p].alone = TRUE
      <3>1. /\ \A q \in Pushes : Writes(q, to) => q = p
            /\ remote[to] = [k \in 1..off |-> file]
        BY <1>0, <1>1, <2>1 DEF RemoteInv, WritingOK
      <3>2. Len(remote[to]) = off
        BY <1>3, <3>1
      <3>3. Patch(remote[to], off, file) = [k \in 1..(off + 1) |-> file]
        BY <1>3, <3>1, <3>2 DEF Patch
      <3>4. \A q \in Pushes : Writes(q, to)' => q = p
        BY <1>5, <3>1
      <3> QED BY <1>0, <1>1, <1>3, <1>4, <1>6, <3>3, <3>4 DEF WritingOK, Writes
    <2>2. CASE push[p].alone # TRUE
      BY <1>3, <1>4, <1>6, <2>2 DEF WritingOK
    <2> QED BY <2>1, <2>2
  <1>9. ASSUME NEW q \in Pushes, q # p PROVE WritingOK(q)'
    <2>1. WritingOK(q) /\ push'[q] = push[q]
      BY <1>4, <1>9 DEF RemoteInv
    <2>2. CASE push[q].pc = "write" /\ push[q].alone = TRUE
      <3>1. push[q].to # to
        BY <1>0, <1>1, <1>9, <2>1, <2>2 DEF WritingOK, Writes
      <3>2. PICK t : t = push[q].to
        OBVIOUS
      <3>3. \A r \in Pushes : Writes(r, t)' => r = q
        BY <1>5, <2>1, <2>2, <3>2 DEF WritingOK
      <3>4. push'[q].to = t /\ push'[q].pc = "write"
        BY <2>1, <2>2, <3>2
      <3>5. remote'[t] = remote[t]
        BY <1>1, <1>6, <3>1, <3>2
      <3>6. \A r \in Pushes : push'[r].pc = "write" /\ push'[r].to = push'[q].to => r = q
        BY <3>3, <3>4 DEF Writes
      <3>7. remote'[push'[q].to] = [k \in 1..push'[q].off |-> staging'[push'[q].id].file]
        <4>1. remote[t] = [k \in 1..push[q].off |-> staging[push[q].id].file]
          BY <2>1, <2>2, <3>2 DEF WritingOK
        <4> QED BY <1>1, <2>1, <3>4, <3>5, <4>1
      <3>8. push'[q].to \in DOMAIN remote'
        BY <1>6, <2>1, <2>2 DEF WritingOK
      <3> QED BY <3>4, <3>6, <3>7, <3>8 DEF WritingOK, Writes
    <2>3. CASE ~(push[q].pc = "write" /\ push[q].alone = TRUE)
      BY <1>6, <2>1, <2>3 DEF WritingOK
    <2> QED BY <2>2, <2>3
  <1>10. ASSUME NEW f \in settled PROVE SettledOK(f)'
    <2>1. SettledOK(f)
      BY DEF RemoteInv
    <2>2. f.to # to
      BY <1>0, <1>1, <2>1 DEF SettledOK, Writes
    <2> QED BY <1>5, <1>6, <2>1, <2>2 DEF SettledOK
  <1> QED BY <1>1, <1>7, <1>8, <1>9, <1>10 DEF RemoteInv

\* A push that was alone has written the whole file.
LEMMA PushEndsSettles ==
  ASSUME StagedInv, RemoteInv, NEW p \in Pushes, PushEnds(p) PROVE RemoteInv'
  <1>0. PICK to, file : to = push[p].to /\ file = staging[push[p].id].file
    OBVIOUS
  <1>1. /\ push[p].pc = "write" /\ push[p].off = staging[push[p].id].len
        /\ UNCHANGED <<staging, remote, promised>>
        /\ settled' = IF push[p].alone THEN settled \cup {[to |-> to, file |-> file]} ELSE settled
    BY <1>0 DEF PushEnds
  <1>2. push[p] # Idle /\ push[p] \in PushType /\ WritingOK(p)
    BY <1>1 DEF StagedInv, RemoteInv, Idle
  <1>3. push[p].off = Size[file] /\ file \in Files /\ to \in Targets
    BY <1>0, <1>1, <1>2 DEF StagedInv, PushOK, Whole, PushType, StagingOK, StagedType
  <1>4. /\ push'[p].pc \notin {"ask", "write"}
        /\ \A q \in Pushes : q # p => push'[q] = push[q]
    <2>1. push' = [push EXCEPT ![p] = IF push[p].told THEN [push[p] EXCEPT !.pc = "answer"] ELSE Idle]
      BY DEF PushEnds
    <2>2. CASE push[p].told
      BY <1>2, <2>1, <2>2 DEF StagedInv, PushType, Idle
    <2>3. CASE ~push[p].told
      BY <2>1, <2>3 DEF StagedInv, Idle
    <2> QED BY <2>2, <2>3
  <1>5. Quiet /\ Grows
    BY <1>1, <1>4 DEF Quiet, Grows, RemoteInv, WritingOK
  <1>6. CASE settled' = settled
    BY <1>1, <1>5, <1>6, QuietKeeps DEF RemoteInv
  <1>7. CASE push[p].alone
    <2>1. push[p].alone = TRUE
      BY <1>2, <1>7 DEF PushType, Idle
    <2> DEFINE new == [to |-> to, file |-> file]
    <2>2. /\ \A q \in Pushes : Writes(q, to) => q = p
          /\ remote[to] = [k \in 1..Size[file] |-> file] /\ to \in DOMAIN remote
      BY <1>0, <1>1, <1>2, <1>3, <2>1 DEF WritingOK
    <2>3. \A q \in Pushes : \A t : Writes(q, t)' => Writes(q, t) /\ q # p
      BY <1>4 DEF Writes
    <2>4. \A f \in settled' : SettledOK(f)'
      <3>1. ASSUME NEW f \in settled PROVE SettledOK(f)'
        BY <1>1, <2>3 DEF RemoteInv, SettledOK
      <3>2. \A f : f = new => SettledOK(f)'
        BY <1>1, <2>2, <2>3 DEF SettledOK, Copy
      <3> QED BY <1>1, <1>7, <3>1, <3>2
    <2>5. \A q \in Pushes : WritingOK(q)'
      <3> SUFFICES ASSUME NEW q \in Pushes, q # p PROVE WritingOK(q)'
        BY <1>4 DEF WritingOK
      <3>1. WritingOK(q) /\ push'[q] = push[q]
        BY <1>4 DEF RemoteInv
      <3>2. PICK t : t = push[q].to
        OBVIOUS
      <3>3. \A r \in Pushes : Writes(r, t)' => Writes(r, t)
        BY <2>3
      <3> QED BY <1>1, <3>1, <3>2, <3>3 DEF WritingOK, Writes
    <2> QED BY <1>1, <1>3, <1>7, <2>4, <2>5 DEF RemoteInv, RemoteOK
  <1> QED BY <1>1, <1>6, <1>7

LEMMA RemoteStep == StagedInv /\ RemoteInv /\ [Next]_vars => RemoteInv'
  <1> SUFFICES ASSUME StagedInv, RemoteInv, [Next]_vars PROVE RemoteInv'
    OBVIOUS
  <1>1. Grows
    <2>1. ASSUME NEW u \in Uploads, NEW id \in Ids, Create(u, id) PROVE Grows
      BY <2>1 DEF Create, With, Grows
    <2>2. ASSUME NEW u \in Uploads, WriteBlock(u) PROVE Grows
      BY <2>2 DEF WriteBlock, Grows, Whole, StagedInv, UploadOK, StagingOK, StagedType
    <2>3. CASE UNCHANGED staging
      BY <2>3 DEF Grows
    <2> QED BY <2>1, <2>2, <2>3 DEF Next, vars, Choose, Staged, UploadFails, UploadAnswered,
               CreateRemote, PushBlock, PushEnds, PushFails, PushAnswered, ReadDirectory,
               ListAnswered, ListFails, OpenDirectory, SwitchPane, PageReloads, Restart
  <1>2. CASE \E p \in Pushes : CreateRemote(p) \/ PushBlock(p) \/ PushEnds(p)
    BY <1>2, CreateRemoteWrites, PushBlockWrites, PushEndsSettles
  <1>3. ASSUME Quiet, UNCHANGED <<remote, settled>>,
               promised' = {} \/ promised' = promised \/ promised' \subseteq settled
        PROVE  RemoteInv'
    BY <1>1, <1>3, QuietKeeps DEF RemoteInv
  <1> QED BY <1>2, <1>3, QuietSteps DEF Next

LEMMA RemoteInit == Init => RemoteInv
  <1> SUFFICES ASSUME Init PROVE RemoteInv
    OBVIOUS
  <1>1. DOMAIN remote = {} /\ \A p \in Pushes : push[p].pc = "idle"
    BY DEF Init, Idle
  <1> QED BY <1>1 DEF Init, RemoteInv, RemoteOK, WritingOK

LEMMA RemoteInvariance == Spec => []RemoteInv
  BY StagedInvariance, RemoteInit, RemoteStep, PTL DEF Spec

\* A completed push leaves exactly the file, for files of any size, any number
\* of overlapping pushes and whatever failed ones left behind.
THEOREM CompletedPushCopies == Spec => []CompletedIsCopied
  <1>1. RemoteInv => CompletedIsCopied
    BY DEF RemoteInv, SettledOK, CompletedIsCopied
  <1> QED BY <1>1, RemoteInvariance, PTL

-----------------------------------------------------------------------------
(* What the drawer lists.                                                   *)

EntriesType == UNION {[D -> Nat] : D \in SUBSET Names}
ListType == {Idle} \cup
            [pc : {"asked", "answer"}, conn : Conns, newest : BOOLEAN, entries : EntriesType]
ShownType == [conn : Conns \cup {None}, newest : BOOLEAN, entries : EntriesType]

\* A listing has all that was promised of its host.
Shows(c, entries, files) ==
  \A f \in files : f.to[1] = c =>
    f.to[2] \in DOMAIN entries /\ entries[f.to[2]] = Size[f.file]

Fresh(r, files) == r.pc = "answer" /\ r.newest = TRUE => Shows(r.conn, r.entries, files)

DrawerInv == /\ list \in [Lists -> ListType] /\ shown \in ShownType /\ asked \in 0..MaxLists
             /\ \A l \in Lists : Fresh(list[l], promised)
             /\ shown.newest = TRUE => Shows(shown.conn, shown.entries, promised)

LEMMA EmptyEntries == <<>> \in EntriesType
  <1>1. <<>> \in [{} -> Nat]
    OBVIOUS
  <1> QED BY <1>1 DEF EntriesType

\* Less may be promised at any time.
LEMMA PromisesFade ==
  ASSUME DrawerInv, UNCHANGED <<list, shown, asked>>, promised' \subseteq promised
  PROVE  DrawerInv'
  BY DEF DrawerInv, Fresh, Shows

\* A new listing is asked for: all others are outdated, whatever is promised.
LEMMA AskListKeeps ==
  ASSUME DrawerInv, NEW l \in Lists, NEW c \in Conns, AskList(l, c) PROVE DrawerInv'
  <1>1. /\ asked' = asked + 1 /\ asked < MaxLists /\ shown' = [shown EXCEPT !.newest = FALSE]
        /\ list' = [Older(list) EXCEPT ![l] = [pc |-> "asked", conn |-> c, newest |-> TRUE,
                                               entries |-> <<>>]]
    BY DEF AskList
  <1>2. asked' \in 0..MaxLists
    BY <1>1, TransfersAssumption DEF DrawerInv
  <1>3. shown' \in ShownType /\ shown'.newest = FALSE
    BY <1>1 DEF DrawerInv, ShownType
  <1>4. ASSUME NEW k \in Lists
        PROVE  list'[k] \in ListType /\ ~(list'[k].pc = "answer" /\ list'[k].newest = TRUE)
    <2>1. CASE k = l
      <3>1. list'[k] = [pc |-> "asked", conn |-> c, newest |-> TRUE, entries |-> <<>>]
        BY <1>1, <2>1 DEF Older
      <3> QED BY <3>1, EmptyEntries DEF ListType
    <2>2. CASE k # l /\ list[k] = Idle
      <3>1. list'[k] = Idle
        BY <1>1, <2>2 DEF Older
      <3> QED BY <3>1 DEF ListType, Idle
    <2>3. CASE k # l /\ list[k] # Idle
      <3>1. list'[k] = [list[k] EXCEPT !.newest = FALSE]
        BY <1>1, <2>3 DEF Older
      <3> QED BY <2>3, <3>1 DEF DrawerInv, ListType
    <2> QED BY <2>1, <2>2, <2>3
  <1>5. DOMAIN list' = Lists
    BY <1>1 DEF Older
  <1>6. list' \in [Lists -> ListType]
    <2>1. list' = [k \in Lists |-> list'[k]]
      BY <1>1 DEF Older
    <2> QED BY <1>4, <2>1
  <1> QED BY <1>2, <1>3, <1>4, <1>6 DEF DrawerInv, Fresh

\* What is read of a directory has every settled file of it.
LEMMA ReadDirectoryShows ==
  ASSUME RemoteInv, DrawerInv, NEW l \in Lists, ReadDirectory(l) PROVE DrawerInv'
  <1> DEFINE c == list[l].conn
             there == {m \in Names : <<c, m>> \in DOMAIN remote}
             entries == [n \in there |-> Len(remote[<<c, n>>])]
  <1>1. /\ list[l].pc = "asked" /\ UNCHANGED <<shown, asked, promised>>
        /\ list' = [list EXCEPT ![l].pc = "answer", ![l].entries = entries]
    BY DEF ReadDirectory
  <1>2. list[l] \in ListType /\ list[l] # Idle
    BY <1>1 DEF DrawerInv, Idle
  <1>3. entries \in EntriesType
    <2>1. \A n \in there : Len(remote[<<c, n>>]) \in Nat
      BY DEF RemoteInv, RemoteOK
    <2>2. entries \in [there -> Nat] /\ there \in SUBSET Names
      BY <2>1
    <2> QED BY <2>2 DEF EntriesType
  <1>4. \A f \in promised : f.to[1] = c => f.to[2] \in there /\ entries[f.to[2]] = Size[f.file]
    <2> SUFFICES ASSUME NEW f \in promised, f.to[1] = c
                 PROVE  f.to[2] \in there /\ entries[f.to[2]] = Size[f.file]
      OBVIOUS
    <2>1. /\ SettledOK(f) /\ f.to \in Targets /\ f.file \in Files
      BY DEF RemoteInv
    <2>2. f.to = <<c, f.to[2]>> /\ f.to[2] \in Names
      BY <2>1 DEF Targets
    <2>3. Len(Copy(f.file)) = Size[f.file]
      BY <2>1, TransfersAssumption DEF Copy
    <2> QED BY <2>1, <2>2, <2>3 DEF SettledOK
  <1>5. Shows(c, entries, promised)
    BY <1>4 DEF Shows
  <1> HIDE DEF entries
  <1>6. /\ list'[l].conn = c /\ list'[l].entries = entries /\ list'[l] \in ListType
        /\ \A k \in Lists : k # l => list'[k] = list[k]
    BY <1>1, <1>2, <1>3 DEF DrawerInv, ListType
  <1>7. list' \in [Lists -> ListType]
    BY <1>1, <1>6 DEF DrawerInv
  <1>8. ASSUME NEW k \in Lists PROVE Fresh(list'[k], promised)
    <2>1. CASE k = l
      BY <1>5, <1>6, <2>1 DEF Fresh
    <2>2. CASE k # l
      BY <1>6, <2>2 DEF DrawerInv
    <2> QED BY <2>1, <2>2
  <1> QED BY <1>1, <1>7, <1>8 DEF DrawerInv, Fresh, Shows

\* An answer is shown with the host and the age it has.
LEMMA ListAnsweredShows ==
  ASSUME DrawerInv, NEW l \in Lists, ListAnswered(l) PROVE DrawerInv'
  <1>1. /\ list[l].pc = "answer" /\ list' = [list EXCEPT ![l] = Idle]
        /\ shown' = [conn |-> list[l].conn, newest |-> list[l].newest, entries |-> list[l].entries]
        /\ UNCHANGED <<asked, promised>>
    BY DEF ListAnswered
  <1>2. list[l] \in ListType /\ list[l] # Idle /\ Fresh(list[l], promised)
    BY <1>1 DEF DrawerInv, Idle
  <1>3. shown' \in ShownType
    BY <1>1, <1>2 DEF ListType, ShownType
  <1>4. shown'.newest = TRUE => Shows(shown'.conn, shown'.entries, promised)
    BY <1>1, <1>2 DEF Fresh
  <1>5. Idle \in ListType /\ Idle.pc = "idle"
    BY DEF Idle, ListType
  <1>6. list' \in [Lists -> ListType] /\ \A k \in Lists : Fresh(list'[k], promised)
    BY <1>1, <1>5 DEF DrawerInv, Fresh
  <1> QED BY <1>1, <1>3, <1>4, <1>6 DEF DrawerInv, Fresh, Shows

\* No listing is under way any more.
LEMMA NoLists ==
  ASSUME DrawerInv, NEW L \in SUBSET Lists, promised' \subseteq promised, asked' = asked,
         list' = [k \in Lists |-> IF k \in L THEN Idle ELSE list[k]],
         shown' = shown \/ (shown' = NoListing /\ promised' = {})
  PROVE  DrawerInv'
  <1>1. Idle \in ListType /\ Idle.pc = "idle"
    BY DEF Idle, ListType
  <1>2. NoListing \in ShownType
    BY EmptyEntries DEF NoListing, ShownType
  <1>3. list' \in [Lists -> ListType] /\ \A k \in Lists : Fresh(list'[k], promised')
    BY <1>1 DEF DrawerInv, Fresh, Shows
  <1>4. shown' \in ShownType /\ (shown'.newest = TRUE => Shows(shown'.conn, shown'.entries, promised'))
    BY <1>2 DEF DrawerInv, Shows
  <1> QED BY <1>3, <1>4 DEF DrawerInv, Fresh, Shows

LEMMA DrawerStep ==
  StagedInv /\ RemoteInv /\ DrawerInv /\ [Next]_vars => DrawerInv'
  <1> SUFFICES ASSUME StagedInv, RemoteInv, DrawerInv, [Next]_vars PROVE DrawerInv'
    OBVIOUS
  <1>1. ASSUME NEW u \in Uploads,
               \/ \E files \in Batches : Choose(u, files)
               \/ \E id \in Ids : Create(u, id)
               \/ WriteBlock(u) \/ Staged(u) \/ UploadFails(u) \/ UploadAnswered(u)
        PROVE  DrawerInv'
    BY <1>1, PromisesFade DEF Choose, Create, WriteBlock, Staged, UploadFails, UploadAnswered
  <1>2. ASSUME NEW p \in Pushes, CreateRemote(p) PROVE DrawerInv'
    BY <1>2, PromisesFade DEF CreateRemote, Forget
  <1>3. ASSUME NEW p \in Pushes, PushBlock(p) \/ PushEnds(p) \/ PushFails(p) PROVE DrawerInv'
    BY <1>3, PromisesFade DEF PushBlock, PushEnds, PushFails
  <1>4. ASSUME NEW p \in Pushes, PushAnswered(p) PROVE DrawerInv'
    <2>1. CASE UNCHANGED <<list, shown, asked, promised>>
      BY <2>1, PromisesFade
    <2>2. CASE pane # None /\ \E l \in Lists : AskList(l, pane)
      <3>1. pane \in Conns
        BY <2>2 DEF StagedInv
      <3> QED BY <2>2, <3>1, AskListKeeps
    <2> QED BY <1>4, <2>1, <2>2 DEF PushAnswered
  <1>5. ASSUME NEW l \in Lists, NEW c \in Conns, OpenDirectory(l, c) PROVE DrawerInv'
    BY <1>5, AskListKeeps DEF OpenDirectory
  <1>6. ASSUME NEW l \in Lists, ReadDirectory(l) \/ ListAnswered(l) PROVE DrawerInv'
    BY <1>6, ReadDirectoryShows, ListAnsweredShows
  <1>7. ASSUME NEW l \in Lists, ListFails(l) PROVE DrawerInv'
    <2>1. list' = [k \in Lists |-> IF k \in {l} THEN Idle ELSE list[k]]
      BY <1>7 DEF ListFails, DrawerInv
    <2> QED BY <1>7, <2>1, NoLists DEF ListFails
  <1>8. CASE PageReloads \/ Restart
    <2>1. list' = [k \in Lists |-> IF k \in Lists THEN Idle ELSE list[k]]
      BY <1>8 DEF PageReloads, Restart
    <2> QED BY <1>8, <2>1, NoLists DEF PageReloads, Restart
  <1>9. CASE (\E c \in Conns \cup {None} : SwitchPane(c)) \/ UNCHANGED vars
    BY <1>9, PromisesFade DEF SwitchPane, vars
  <1> QED BY <1>1, <1>2, <1>3, <1>4, <1>5, <1>6, <1>7, <1>8, <1>9 DEF Next

LEMMA DrawerInit == Init => DrawerInv
  <1> SUFFICES ASSUME Init PROVE DrawerInv
    OBVIOUS
  <1>1. Idle \in ListType /\ Idle.pc = "idle" /\ NoListing \in ShownType
    BY EmptyEntries DEF Idle, ListType, NoListing, ShownType
  <1>2. NoListing.newest = FALSE /\ 0 \in 0..MaxLists
    BY TransfersAssumption DEF NoListing
  <1> QED BY <1>1, <1>2 DEF Init, DrawerInv, Fresh

LEMMA DrawerInvariance == Spec => []DrawerInv
  BY StagedInvariance, RemoteInvariance, DrawerInit, DrawerStep, PTL DEF Spec

\* If the drawer shows the listing asked for last, it has the files whose push
\* was reported, however many listings are under way and in whatever order
\* they are answered.
THEOREM ReportedListed == Spec => []ReportedIsListed
  <1>1. DrawerInv => ReportedIsListed
    <2>1. DrawerInv => (shown.newest => Shows(shown.conn, shown.entries, promised))
      BY DEF DrawerInv, ShownType
    <2> QED BY <2>1 DEF ReportedIsListed, Shows
  <1> QED BY <1>1, DrawerInvariance, PTL

\* Types of the whole.
THEOREM TypeCorrect == Spec => []TypeOK
  <1>1. StagedInv /\ RemoteInv /\ DrawerInv => TypeOK
    BY DEF StagedInv, StagingOK, PushOK, Whole, RemoteInv, RemoteOK, DrawerInv, TypeOK
  <1> QED BY <1>1, StagedInvariance, RemoteInvariance, DrawerInvariance, PTL
=============================================================================
