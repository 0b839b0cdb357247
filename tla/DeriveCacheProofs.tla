-------------------------- MODULE DeriveCacheProofs --------------------------
(* Machine-checked proofs about the cache of derived results: its types, the *)
(* links of an answer, and what processes that share no lock leave of a      *)
(* result, for every set of processes, links and bundles.                    *)
EXTENDS DeriveCache, SequenceTheorems, TLAPS

-----------------------------------------------------------------------------
(* Links and keys *)

\* The key of the tokens of at most all links is one of the keys.
LEMMA KeyOfTokens ==
  ASSUME NEW t \in Seq(Tokens), Len(t) <= NLinks
  PROVE  Key(t) \in Keys
<1>1. Len(t) \in 0..NLinks /\ t \in [1..Len(t) -> Tokens]
  BY LinksAssumption
<1> QED BY <1>1 DEF Keys

\* There is the key of no links.
LEMMA NoLinkKey == <<>> \in Keys
<1>1. <<>> \in Seq(Tokens) /\ Len(<<>>) = 0
  OBVIOUS
<1>2. Key(<<>>) = <<>>
  BY DEF Key
<1>3. 0 <= NLinks
  BY LinksAssumption
<1>4. Key(<<>>) \in Keys
  BY <1>1, <1>3, KeyOfTokens
<1> QED BY <1>2, <1>4

-----------------------------------------------------------------------------
(* The invariant *)

\* A process has the tokens of some links, or of all of them.
Linking == {"resolve", "get", "files"} \cup (DerivePoints \ {"context"})
Linked == {"files"} \cup (DerivePoints \ {"context", "link", "fetch", "fail"})
Fetching == {"get", "fetch"}
TokensOf(p) == got[p].tokens

\* Between two values of created_at a bundle was gone.
Steady(at) ==
  \A d \in Digests : \A m, n \in DOMAIN at :
    m <= n /\ at[m][d] # at[n][d] => \E k \in m..n : at[k][d] = 0
\* The last instant of a call is the present.
UpToNow(at, now) == Len(at) \in DOMAIN at /\ at[Len(at)] = now

\* Link i was looked up at the n-th instant. What was found is still to be read;
\* what was read has a created_at of a later instant; the other holders were not
\* found, or gone when they were read.
Fetched(at, n, i, found, held) ==
  /\ \A d \in found : d \in HoldersOf[i] /\ at[n][d] # 0
  /\ \A d \in Digests : held[d] # 0 =>
       d \in HoldersOf[i] /\ at[n][d] # 0 /\ \E m \in n..Len(at) : at[m][d] = held[d]
  /\ \A d \in HoldersOf[i] : d \in found \/ held[d] # 0 \/ Gone(at, d, n)
BeingFetched(at, i, found, held) == \E n \in DOMAIN at : Fetched(at, n, i, found, held)

\* What is known of the links of a call: `point` is where it is, `has` what it
\* has of its links, `said` its answer, `at` its instants.
LinksKnown(point, has, said, at) ==
  /\ point \in Linking => /\ Len(has.tokens) <= NLinks
                         /\ \A i \in 1..Len(has.tokens) : Resolved(at, i, has.tokens[i])
  /\ point \in {"resolve", "link"} \cup Fetching => Len(has.tokens) < NLinks
  /\ point \in Linked => Len(has.tokens) = NLinks
  /\ point \in Fetching => BeingFetched(at, Len(has.tokens) + 1, has.found, has.held)
  /\ point = "files" => Key(has.tokens) = has.want
  /\ said.is \in {"hit", "derived"} => Current(at, said.key)
CallInv(p) ==
  /\ pc[p] # "idle" => answer[p].is = "none" /\ UpToNow(seen[p], created) /\ Steady(seen[p])
  /\ LinksKnown(pc[p], got[p], answer[p], seen[p])
CallsInv == \A p \in Procs : CallInv(p)

-----------------------------------------------------------------------------
(* Types *)

\* The budget is never overdrawn, and an account stays a number.
LEMMA SpendType ==
  ASSUME TypeOK, NEW b \in DOMAIN Limit, Spend(b)
  PROVE  used' \in [DOMAIN Limit -> Nat]
BY DEF TypeOK, Spend

\* Nothing is read of a link at first.
LEMMA FreshType ==
  ASSUME NEW tokens \in Seq(Tokens), NEW want \in Keys
  PROVE  Fresh(tokens, want) \in Gotten
BY DEF Fresh, Gotten, Nothing

\* The first key a process asks for has no tokens.
LEMMA InitTypes == Init => TypeOK /\ CallsInv
<1> SUFFICES ASSUME Init PROVE TypeOK /\ CallsInv
  OBVIOUS
<1>1. <<>> \in Keys /\ <<>> \in Seq(Tokens) /\ Fresh(<<>>, <<>>) \in Gotten
  BY NoLinkKey, FreshType, EmptySeq
<1>2. Initially \in Seq(Digests) /\ Own \in Digests
  BY LinksAssumption
<1>3. FirstStored \subseteq Digests
  BY <1>2 DEF FirstStored
<1>4. \A d \in FirstStored : Position(d) \in Nat
  BY <1>2 DEF FirstStored, Position
<1>5. created \in [Digests -> Nat]
  BY <1>4 DEF Init
<1>6. TypeOK
  BY <1>1, <1>3, <1>5, CachedAssumption, EmptySeq DEF TypeOK, Init, Statuses, Outcomes, Points
<1>7. CallsInv
  BY DEF Init, CallsInv, CallInv, LinksKnown, Linking, Linked, Fetching, DerivePoints
<1> QED BY <1>6, <1>7

\* What the types say of the bundles and the results.
DiskTypes ==
  /\ created \in [Digests -> Nat] /\ dirs \subseteq Digests /\ home \in BOOLEAN
  /\ final \subseteq Keys /\ derived \in [Keys -> Statuses]
  /\ (home => Own \in dirs) /\ (final # {} => home)

\* A step of one process.
LEMMA StepTypes ==
  ASSUME TypeOK, DiskTypes', NEW p \in Procs, NEW q \in Points, Goto(p, q),
         mode' \in [Procs -> {"lookup", "derive", "file"}],
         got' \in [Procs -> Gotten],
         cands' \in [Procs -> SUBSET Keys],
         answer' \in [Procs -> [is : Outcomes, key : Keys]],
         seen' \in [Procs -> Seq([Digests -> Nat])],
         used' \in [DOMAIN Limit -> Nat],
         \A r \in staged' : (r = p /\ q \in StagingPoints) \/ (r # p /\ r \in staged)
  PROVE  TypeOK'
<1>1. pc' \in [Procs -> Points]
  BY DEF TypeOK, Goto
<1>2. staged' \subseteq Procs /\ \A r \in staged' : pc'[r] \in StagingPoints
  BY DEF TypeOK, Goto
<1> QED BY <1>1, <1>2 DEF TypeOK, DiskTypes

\* A step that moves a process on and writes nothing.
LEMMA MoveTypes ==
  ASSUME TypeOK, UNCHANGED <<disk, mode, staged, seen, answer>>,
         NEW p \in Procs, NEW q \in Points, Goto(p, q),
         pc[p] \notin StagingPoints \/ q \in StagingPoints,
         got' = got \/ got' \in [Procs -> Gotten],
         cands' = cands \/ cands' \in [Procs -> SUBSET Keys],
         used' = used \/ used' \in [DOMAIN Limit -> Nat]
  PROVE  TypeOK'
<1>1. \A r \in staged' : (r = p /\ q \in StagingPoints) \/ (r # p /\ r \in staged)
  BY DEF TypeOK
<1>2. DiskTypes'
  BY DEF TypeOK, DiskTypes, disk
<1> QED BY <1>1, <1>2, StepTypes DEF TypeOK

\* The end of a call, and what it may have left under staging/.
LEMMA ReturnTypes ==
  ASSUME TypeOK, DiskTypes', NEW p \in Procs, NEW is \in Outcomes, NEW key \in Keys, Return(p, is, key),
         UNCHANGED mode,
         staged' = staged \ {p} \/ (staged' = staged /\ pc[p] \notin StagingPoints),
         used' = used \/ used' \in [DOMAIN Limit -> Nat]
  PROVE  TypeOK'
<1>1. "idle" \in Points /\ Goto(p, "idle")
  BY DEF Points, Return
<1>2. answer' \in [Procs -> [is : Outcomes, key : Keys]]
  BY DEF TypeOK, Return
<1>3. \A r \in staged' : r # p /\ r \in staged
  BY DEF TypeOK
<1>4. Fresh(<<>>, <<>>) \in Gotten
  BY NoLinkKey, FreshType, EmptySeq
<1>5. got' \in [Procs -> Gotten] /\ cands' \in [Procs -> SUBSET Keys]
  BY <1>4 DEF TypeOK, Return
<1>6. seen' \in [Procs -> Seq([Digests -> Nat])]
  BY EmptySeq DEF TypeOK, Return
<1> QED BY <1>1, <1>2, <1>3, <1>5, <1>6, StepTypes DEF TypeOK

\* A call that only ends.
LEMMA EndTypes ==
  ASSUME TypeOK, NEW p \in Procs, NEW is \in Outcomes, NEW key \in Keys, End(p, is, key),
         pc[p] \notin StagingPoints, used' = used \/ used' \in [DOMAIN Limit -> Nat]
  PROVE  TypeOK'
<1>1. DiskTypes'
  BY DEF End, TypeOK, DiskTypes, disk
<1> QED BY <1>1, ReturnTypes DEF End

\* What a process has resolved, and what it looks for.
LEMMA TokensType ==
  ASSUME TypeOK, NEW p \in Procs, NEW tokens \in Seq(Tokens), NEW key \in Keys
  PROVE  /\ HasTokens(p, tokens) => got' \in [Procs -> Gotten]
         /\ got' = [got EXCEPT ![p] = Fresh(tokens, key)] => got' \in [Procs -> Gotten]
<1>1. got[p].want \in Keys /\ got \in [Procs -> Gotten]
  BY DEF TypeOK, Gotten
<1>2. \A k \in Keys : Fresh(tokens, k) \in Gotten
  BY FreshType
<1>3. HasTokens(p, tokens) => got' = [got EXCEPT ![p] = Fresh(tokens, got[p].want)]
  BY DEF HasTokens
<1> QED BY <1>1, <1>2, <1>3

\* The tokens with one more of them.
LEMMA MoreTokens ==
  ASSUME TypeOK, NEW p \in Procs, Len(TokensOf(p)) < NLinks, NEW t \in Tokens
  PROVE  /\ Append(TokensOf(p), t) \in Seq(Tokens)
         /\ Len(Append(TokensOf(p), t)) = Len(TokensOf(p)) + 1
         /\ \A i \in 1..Len(TokensOf(p)) : Append(TokensOf(p), t)[i] = TokensOf(p)[i]
         /\ Append(TokensOf(p), t)[Len(TokensOf(p)) + 1] = t
         /\ NextLink(p) = Len(TokensOf(p)) + 1 /\ NextLink(p) \in Links
         /\ Len(TokensOf(p)) \in Nat /\ NLinks \in Nat
<1>1. TokensOf(p) \in Seq(Tokens)
  BY DEF TypeOK, Gotten, TokensOf
<1>2. Len(TokensOf(p)) \in Nat /\ NLinks \in Nat
  BY <1>1, LinksAssumption
<1>3. NextLink(p) = Len(TokensOf(p)) + 1 /\ NextLink(p) \in Links
  BY <1>2 DEF NextLink, TokensOf, Links
<1> QED BY <1>1, <1>2, <1>3, AppendProperties

\* The lookup of a link keeps the types.
LEMMA LinkTypes ==
  ASSUME TypeOK, CallsInv, NEW p \in Procs, LinkNext(p)
  PROVE  TypeOK'
<1> USE DEF At, Points, StagingPoints, LookupPoints, DerivePoints, FilePoints
<1>0. got[p] \in Gotten /\ got \in [Procs -> Gotten]
  BY DEF TypeOK
<1>1. CASE Find(p)
  <2>1. NextLink(p) \in Links
    BY <1>1, MoreTokens DEF Find, CallsInv, CallInv, LinksKnown, TokensOf, Tokens
  <2>2. Holding(NextLink(p)) \in SUBSET Digests
    BY <2>1, LinksAssumption DEF Holding, Links
  <2>3. [got[p] EXCEPT !.found = Holding(NextLink(p)), !.held = Nothing] \in Gotten
    BY <1>0, <2>2 DEF Gotten, Nothing
  <2>4. got' \in [Procs -> Gotten]
    BY <1>0, <1>1, <2>3 DEF Find
  <2>5. PICK q \in {"get", "fetch"} : Goto(p, q) /\ pc[p] \in {"resolve", "link"}
    BY <1>1 DEF Find
  <2> QED BY <1>1, <2>4, <2>5, MoveTypes DEF Find
<1>2. CASE GetRecord(p)
  <2>1. PICK d \in got[p].found : got' = [got EXCEPT ![p] = Read(got[p], d)]
    BY <1>2 DEF GetRecord
  <2>2. d \in Digests /\ created[d] \in Nat
    BY <1>0 DEF Gotten, TypeOK
  <2>3. Read(got[p], d) \in Gotten
    BY <1>0, <2>2 DEF Gotten, Read
  <2>4. got' \in [Procs -> Gotten]
    BY <1>0, <2>1, <2>3
  <2>5. Goto(p, pc[p]) /\ pc[p] \in {"get", "fetch"}
    BY <1>2 DEF GetRecord, Goto, TypeOK
  <2> QED BY <1>2, <2>4, <2>5, MoveTypes DEF GetRecord
<1> QED BY <1>1, <1>2 DEF LinkNext

\* The lookup keeps the types.
LEMMA LookupTypes ==
  ASSUME TypeOK, CallsInv, NEW p \in Procs, LookupNext(p)
  PROVE  TypeOK'
<1> USE DEF At, Points, StagingPoints, LookupPoints, DerivePoints, FilePoints
<1>1. CASE Open(p) \/ Space(p) \/ Record(p) \/ FilesGone(p)
  BY <1>1, MoveTypes DEF Open, Space, Record, FilesGone, Move
<1>2. CASE OpenMissing(p) \/ SpaceError(p)
  <2>1. pc[p] \in {"open", "space"} /\ UNCHANGED used /\ \E is \in {"missing", "error"} : End(p, is, <<>>)
    BY <1>2 DEF OpenMissing, SpaceError
  <2> QED BY <2>1, NoLinkKey, EndTypes DEF Outcomes
<1>3. CASE RecordMissing(p) \/ NoRowLeft(p)
  <2>1. CASE mode[p] = "derive"
    BY <1>3, <2>1, MoveTypes DEF RecordMissing, NoRowLeft, Missed
  <2>2. CASE mode[p] # "derive"
    <3>1. pc[p] \in {"record", "pick"} /\ UNCHANGED used /\ End(p, "miss", <<>>)
      BY <1>3, <2>2 DEF RecordMissing, NoRowLeft, Missed, End
    <3> QED BY <3>1, NoLinkKey, EndTypes DEF Outcomes
  <2> QED BY <2>1, <2>2
<1>4. CASE Rows(p)
  <2>1. cands' \in [Procs -> SUBSET Keys]
    BY <1>4 DEF Rows, TypeOK
  <2> QED BY <1>4, <2>1, MoveTypes DEF Rows
<1>5. CASE Pick(p)
  <2>1. PICK k \in cands[p] :
          /\ cands' = [cands EXCEPT ![p] = @ \ {k}]
          /\ \/ Goto(p, "resolve") /\ got' = [got EXCEPT ![p] = Fresh(<<>>, k)]
             \/ UNCHANGED <<pc, got>>
    BY <1>5 DEF Pick
  <2>2. k \in Keys /\ <<>> \in Seq(Tokens) /\ cands' \in [Procs -> SUBSET Keys]
    BY <2>1 DEF TypeOK
  <2>3. UNCHANGED pc => Goto(p, "pick")
    BY <1>5 DEF Pick, Goto, TypeOK
  <2>4. got' = got \/ got' \in [Procs -> Gotten]
    BY <2>1, <2>2, TokensType, EmptySeq
  <2> QED BY <1>5, <2>1, <2>2, <2>3, <2>4, MoveTypes DEF Pick
<1>6. CASE ResolveNext(p)
  <2>1. PICK u \in Tokens :
          /\ Resolves(p, u)
          /\ Goto(p, IF NextLink(p) < NLinks THEN "resolve"
                     ELSE IF Matches(p, Append(got[p].tokens, u)) THEN "files" ELSE "pick")
    BY <1>6 DEF ResolveNext
  <2>2. Append(TokensOf(p), u) \in Seq(Tokens)
    BY <1>6, MoreTokens DEF ResolveNext, CallsInv, CallInv, LinksKnown, Fetching, TokensOf
  <2>3. got' \in [Procs -> Gotten]
    BY <2>1, <2>2, TokensType, NoLinkKey DEF Resolves, TokensOf
  <2>4. PICK q \in {"resolve", "files", "pick"} : Goto(p, q)
    BY <2>1
  <2> QED BY <1>6, <2>3, <2>4, MoveTypes DEF ResolveNext
<1>7. CASE Hit(p)
  <2>1. got[p].want \in Keys
    BY DEF TypeOK, Gotten
  <2> QED BY <1>7, <2>1, EndTypes DEF Hit, Outcomes
<1> QED BY <1>1, <1>2, <1>3, <1>4, <1>5, <1>6, <1>7 DEF LookupNext

\* What a process has derived is under one of the keys.
LEMMA ResultKeyType ==
  ASSUME TypeOK, CallsInv, NEW p \in Procs, pc[p] \in Linking
  PROVE  ResultKey(p) \in Keys
BY KeyOfTokens DEF TypeOK, Gotten, CallsInv, CallInv, LinksKnown, TokensOf, ResultKey

\* The derivation keeps the types.
LEMMA DeriveTypes ==
  ASSUME TypeOK, CallsInv, NEW p \in Procs, DeriveNext(p)
  PROVE  TypeOK'
<1> USE DEF At, Points, StagingPoints, LookupPoints, DerivePoints, FilePoints
<1>1. CASE Context(p)
  <2>1. got' \in [Procs -> Gotten]
    BY <1>1, TokensType, NoLinkKey, EmptySeq DEF Context
  <2> QED BY <1>1, <2>1, MoveTypes DEF Context
<1>2. CASE ContextMissing(p)
  BY <1>2, NoLinkKey, EndTypes DEF ContextMissing, Outcomes
<1>3. CASE Link(p)
  <2>1. PICK u \in Tokens : Resolves(p, u)
    BY <1>3 DEF Link
  <2>2. Append(TokensOf(p), u) \in Seq(Tokens)
    BY <1>3, MoreTokens DEF Link, CallsInv, CallInv, LinksKnown, Fetching, TokensOf
  <2>3. got' \in [Procs -> Gotten]
    BY <2>1, <2>2, TokensType, NoLinkKey DEF Resolves, TokensOf
  <2>4. PICK q \in {"compute", "link"} : Goto(p, q)
    BY <1>3 DEF Link
  <2> QED BY <1>3, <2>3, <2>4, MoveTypes DEF Link
<1>4. CASE Compute(p) \/ SwapOld(p) \/ SwapNew(p)
  BY <1>4, MoveTypes DEF Compute, SwapOld, SwapNew, Move
<1>5. CASE BadParams(p) \/ ComputeFails(p) \/ RowError(p)
  <2>1. used' = used \/ used' \in [DOMAIN Limit -> Nat]
    BY <1>5, SpendType DEF BadParams, ComputeFails, RowError, Limit
  <2>2. CASE BadParams(p)
    BY <2>1, <2>2, NoLinkKey, EndTypes DEF BadParams, Outcomes
  <2>3. CASE ComputeFails(p)
    BY <2>1, <2>3, MoveTypes DEF ComputeFails
  <2>4. CASE RowError(p)
    <3>1. ResultKey(p) \in Keys
      BY <2>4, ResultKeyType DEF RowError, Linking
    <3> QED BY <2>1, <2>4, <3>1, EndTypes DEF RowError, Outcomes
  <2> QED BY <1>5, <2>2, <2>3, <2>4
<1>6. CASE Fail(p) \/ Index(p)
  <2>1. ResultKey(p) \in Keys
    BY <1>6, ResultKeyType DEF Fail, Index, Linking
  <2>2. DiskTypes'
    <3>1. PICK status \in Statuses :
            derived' = [derived EXCEPT ![ResultKey(p)] = status] /\ UNCHANGED <<created, dirs, home, final>>
      BY <1>6 DEF Fail, Index, RecordRow, Statuses
    <3>2. derived' \in [Keys -> Statuses]
      BY <3>1 DEF TypeOK
    <3> QED BY <3>1, <3>2 DEF TypeOK, DiskTypes
  <2>3. PICK is \in {"failed", "derived"} : Return(p, is, ResultKey(p))
    BY <1>6 DEF Fail, Index
  <2> QED BY <1>6, <2>1, <2>2, <2>3, ReturnTypes DEF Fail, Index, Outcomes
<1>7. CASE Stage(p)
  <2>1. DiskTypes'
    BY <1>7 DEF Stage, TypeOK, DiskTypes, disk
  <2> QED BY <1>7, <2>1, StepTypes DEF Stage, TypeOK
<1>8. CASE Parents(p) \/ Away(p) \/ Publish(p)
  <2>1. Own \in Digests /\ ResultKey(p) \in Keys
    BY <1>8, ResultKeyType, LinksAssumption DEF Parents, Away, Publish, Linking
  <2>2. DiskTypes'
    BY <1>8, <2>1 DEF Parents, Away, Publish, CanPublish, TypeOK, DiskTypes
  <2>3. PICK q \in {"swap", "publish", "index"} :
          Goto(p, q) /\ (q = "index" => staged' = staged \ {p}) /\ (q # "index" => staged' = staged)
    BY <1>8 DEF Parents, Away, Publish
  <2>4. UNCHANGED <<mode, got, cands, answer, seen, used>>
    BY <1>8 DEF Parents, Away, Publish
  <2>5. \A r \in staged' : (r = p /\ q \in StagingPoints) \/ (r # p /\ r \in staged)
    BY <2>3 DEF TypeOK
  <2> QED BY <2>2, <2>3, <2>4, <2>5, StepTypes DEF TypeOK
<1>9. CASE StageError(p)
  <2>1. ResultKey(p) \in Keys
    BY <1>9, ResultKeyType DEF StageError, Linking
  <2>2. DiskTypes'
    BY <1>9 DEF StageError, Discard, TypeOK, DiskTypes
  <2>3. used' = used \/ used' \in [DOMAIN Limit -> Nat]
    BY <1>9, SpendType DEF StageError, Limit
  <2> QED BY <1>9, <2>1, <2>2, <2>3, ReturnTypes DEF StageError, Discard, Outcomes
<1> QED BY <1>1, <1>2, <1>3, <1>4, <1>5, <1>6, <1>7, <1>8, <1>9 DEF DeriveNext

\* So do the file requests.
LEMMA FileTypes ==
  ASSUME TypeOK, NEW p \in Procs, FileNext(p)
  PROVE  TypeOK'
<1> USE DEF At, Points, StagingPoints, LookupPoints, DerivePoints, FilePoints
<1>1. CASE FileRecord(p) \/ FileRow(p) \/ FileMeta(p)
  BY <1>1, MoveTypes DEF FileRecord, FileRow, FileMeta, Move
<1>2. CASE FileGone(p) \/ FileSend(p)
  <2>1. got[p].want \in Keys /\ <<>> \in Keys
    BY NoLinkKey DEF TypeOK, Gotten
  <2>2. PICK is \in Outcomes, key \in Keys : End(p, is, key)
    BY <1>2, <2>1 DEF FileGone, FileSend, Outcomes
  <2>3. pc[p] \in FilePoints /\ UNCHANGED used
    BY <1>2 DEF FileGone, FileSend
  <2> QED BY <2>2, <2>3, EndTypes
<1> QED BY <1>1, <1>2 DEF FileNext

\* And what begins a call, ends it by force, or happens around the calls.
LEMMA AroundTypes ==
  ASSUME TypeOK, CallsInv,
         \/ \E p \in Procs : \/ Die(p) \/ \E m \in {"lookup", "derive"} : Call(p, m)
                             \/ \E k \in Keys : FileCall(p, k)
         \/ \E d \in Digests : StoreNext(d)
  PROVE  TypeOK'
<1> USE DEF At, Points, StagingPoints, LookupPoints, DerivePoints, FilePoints
<1>1. ASSUME NEW p \in Procs, Die(p) PROVE TypeOK'
  <2>1. used' \in [DOMAIN Limit -> Nat]
    BY <1>1, SpendType DEF Die, Limit
  <2>2. DiskTypes'
    BY <1>1 DEF Die, TypeOK, DiskTypes, disk
  <2> QED BY <1>1, <2>1, <2>2, NoLinkKey, ReturnTypes DEF Die, Outcomes
<1>2. ASSUME NEW p \in Procs,
             \/ \E m \in {"lookup", "derive"} : Call(p, m)
             \/ \E k \in Keys : FileCall(p, k)
      PROVE  TypeOK'
  <2>1. used' \in [DOMAIN Limit -> Nat]
    BY <1>2, SpendType DEF Call, FileCall, Limit
  <2>2. DiskTypes' /\ pc[p] = "idle" /\ UNCHANGED <<cands, staged>>
    BY <1>2 DEF Call, FileCall, TypeOK, DiskTypes, disk
  <2>3. PICK q \in {"open", "url"} : Goto(p, q)
    BY <1>2 DEF Call, FileCall
  <2>4. /\ mode' \in [Procs -> {"lookup", "derive", "file"}]
        /\ answer' = [answer EXCEPT ![p] = [is |-> "none", key |-> <<>>]]
        /\ seen' = [seen EXCEPT ![p] = <<created>>]
        /\ \/ UNCHANGED got
           \/ \E k \in Keys : got' = [got EXCEPT ![p] = Fresh(<<>>, k)]
    BY <1>2 DEF Call, FileCall, TypeOK
  <2>5. answer' \in [Procs -> [is : Outcomes, key : Keys]]
    BY <2>4, NoLinkKey DEF TypeOK, Outcomes
  <2>6. seen' \in [Procs -> Seq([Digests -> Nat])]
    <3>1. <<created>> \in Seq([Digests -> Nat])
      BY DEF TypeOK
    <3> QED BY <2>4, <3>1 DEF TypeOK
  <2>7. got' \in [Procs -> Gotten]
    BY <2>4, TokensType, EmptySeq DEF TypeOK
  <2>8. \A r \in staged' : r # p /\ r \in staged
    BY <2>2 DEF TypeOK
  <2> QED BY <2>1, <2>2, <2>3, <2>4, <2>5, <2>6, <2>7, <2>8, StepTypes DEF TypeOK
<1>3. ASSUME NEW d \in Digests, Commit(d) \/ DeleteRows(d)
      PROVE  TypeOK'
  <2>1. created' \in [Digests -> Nat]
    <3>1. CASE Commit(d)
      <4>1. Len(Initially) \in Nat /\ used'.changes \in Nat
        BY <3>1, SpendType, LinksAssumption DEF Commit, Limit
      <4> QED BY <3>1, <4>1 DEF Commit, TypeOK
    <3>2. CASE DeleteRows(d)
      BY <3>2 DEF DeleteRows, TypeOK
    <3> QED BY <1>3, <3>1, <3>2
  <2>2. seen' \in [Procs -> Seq([Digests -> Nat])]
    <3>1. seen' = [p \in Procs |-> IF pc[p] = "idle" THEN seen[p] ELSE Append(seen[p], created')]
      BY <1>3 DEF Commit, DeleteRows, Notice
    <3>2. \A p \in Procs : Append(seen[p], created') \in Seq([Digests -> Nat])
      BY <2>1, AppendProperties DEF TypeOK
    <3> QED BY <3>1, <3>2 DEF TypeOK
  <2>3. used' \in [DOMAIN Limit -> Nat]
    BY <1>3, SpendType DEF Commit, DeleteRows, Limit
  <2>4. DiskTypes'
    <3>1. derived' \in [Keys -> Statuses]
      BY <1>3 DEF Commit, DeleteRows, TypeOK, Statuses
    <3>2. /\ dirs' \subseteq Digests /\ home' \in BOOLEAN /\ final' \subseteq Keys
          /\ (home' => Own \in dirs') /\ (final' # {} => home')
      <4>1. CASE Commit(d)
        BY <4>1 DEF Commit, TypeOK
      <4>2. CASE DeleteRows(d)
        <5>1. UNCHANGED <<dirs, home, final>>
          BY <4>2 DEF DeleteRows
        <5> QED BY <5>1 DEF TypeOK
      <4> QED BY <1>3, <4>1, <4>2
    <3> QED BY <2>1, <3>1, <3>2 DEF DiskTypes
  <2>5. UNCHANGED <<pc, mode, got, cands, staged, answer>>
    BY <1>3 DEF Commit, DeleteRows
  <2> QED BY <2>2, <2>3, <2>4, <2>5 DEF TypeOK, DiskTypes
<1>4. ASSUME NEW d \in Digests, DeleteDir(d)
      PROVE  TypeOK'
  BY <1>4 DEF DeleteDir, TypeOK
<1> QED BY <1>1, <1>2, <1>3, <1>4 DEF StoreNext

\* Every step does.
LEMMA TypesNext == TypeOK /\ CallsInv /\ [Next]_vars => TypeOK'
<1> SUFFICES ASSUME TypeOK, CallsInv, [Next]_vars PROVE TypeOK'
  OBVIOUS
<1>1. CASE UNCHANGED vars
  BY <1>1 DEF TypeOK, vars, disk
<1>2. CASE Next
  BY <1>2, LinkTypes, LookupTypes, DeriveTypes, FileTypes, AroundTypes DEF Next
<1> QED BY <1>1, <1>2

-----------------------------------------------------------------------------
(* What a call has resolved *)

\* More instants.
Longer(at, more) ==
  /\ Len(at) \in Nat /\ Len(more) \in Nat /\ Len(at) <= Len(more)
  /\ DOMAIN at = 1..Len(at) /\ DOMAIN more = 1..Len(more)
  /\ \A n \in 1..Len(at) : more[n] = at[n]

\* What was gone at one of them stays so, and what was resolved.
LEMMA LongerGone ==
  ASSUME NEW at, NEW more, Longer(at, more), NEW d, NEW n \in DOMAIN at, Gone(at, d, n)
  PROVE  Gone(more, d, n)
BY DEF Longer, Gone

LEMMA LongerResolved ==
  ASSUME NEW at, NEW more, Longer(at, more), NEW i, NEW t, Resolved(at, i, t)
  PROVE  Resolved(more, i, t)
<1>1. PICK n \in DOMAIN at : ResolvedAt(at, i, t, n)
  BY DEF Resolved
<1>2. n \in DOMAIN more /\ more[n] = at[n]
  BY DEF Longer
<1>3. \A d : Gone(at, d, n) => Gone(more, d, n)
  BY LongerGone
<1>4. \A m \in n..Len(at) : m \in n..Len(more) /\ more[m] = at[m]
  BY <1>1 DEF Longer
<1>5. ResolvedAt(more, i, t, n)
  BY <1>1, <1>2, <1>3, <1>4 DEF ResolvedAt
<1> QED BY <1>2, <1>5 DEF Resolved

LEMMA LongerKnown ==
  ASSUME NEW at, NEW more, Longer(at, more), NEW point, NEW has, NEW said,
         Len(has.tokens) \in Nat, LinksKnown(point, has, said, at)
  PROVE  LinksKnown(point, has, said, more)
<1>1. \A i, t : Resolved(at, i, t) => Resolved(more, i, t)
  BY LongerResolved
<1>2. Current(at, said.key) => Current(more, said.key)
  BY <1>1 DEF Current
<1>3. ASSUME point \in Fetching
      PROVE  BeingFetched(more, Len(has.tokens) + 1, has.found, has.held)
  <2> DEFINE i == Len(has.tokens) + 1
  <2>1. PICK n \in DOMAIN at : Fetched(at, n, i, has.found, has.held)
    BY <1>3 DEF LinksKnown, BeingFetched
  <2>2. n \in DOMAIN more /\ more[n] = at[n]
    BY DEF Longer
  <2>3. \A d : Gone(at, d, n) => Gone(more, d, n)
    BY LongerGone
  <2>4. \A m \in n..Len(at) : m \in n..Len(more) /\ more[m] = at[m]
    BY <2>1 DEF Longer
  <2>5. Fetched(more, n, i, has.found, has.held)
    BY <2>1, <2>2, <2>3, <2>4 DEF Fetched
  <2> QED BY <2>2, <2>5 DEF BeingFetched
<1> QED BY <1>1, <1>2, <1>3 DEF LinksKnown

\* With the links of a call settled, its next point asks for less.
LEMMA SettledKnown ==
  ASSUME NEW at, NEW point, NEW next \in Points \ ({"resolve", "link", "files"} \cup Fetching),
         NEW has, NEW said, LinksKnown(point, has, said, at),
         next \in Linking => point \in Linking, next \in Linked => point \in Linked
  PROVE  LinksKnown(next, has, said, at)
BY DEF LinksKnown

\* A step of one process is nothing to the calls of the others.
LEMMA OtherCalls ==
  ASSUME CallsInv, UNCHANGED created, NEW p \in Procs,
         \A q \in Procs : q # p => /\ pc'[q] = pc[q] /\ got'[q] = got[q]
                                   /\ answer'[q] = answer[q] /\ seen'[q] = seen[q],
         CallInv(p)'
  PROVE  CallsInv'
<1> SUFFICES ASSUME NEW q \in Procs, q # p PROVE CallInv(q)'
  BY DEF CallsInv
<1> QED BY DEF CallsInv, CallInv

\* A step that moves a process on without a new token.
LEMMA MoveCalls ==
  ASSUME TypeOK, CallsInv, UNCHANGED <<created, got, answer, seen>>,
         NEW p \in Procs, pc[p] # "idle",
         NEW q \in Points \ ({"resolve", "link", "files"} \cup Fetching), Goto(p, q),
         q \in Linking => pc[p] \in Linking,
         q \in Linked => pc[p] \in Linked
  PROVE  CallsInv'
<1>1. pc'[p] = q /\ \A r \in Procs : r # p => pc'[r] = pc[r]
  BY DEF TypeOK, Goto
<1>2. CallInv(p)
  BY DEF CallsInv
<1>3. LinksKnown(q, got[p], answer[p], seen[p])
  BY <1>2, SettledKnown DEF CallInv
<1>4. CallInv(p)'
  BY <1>1, <1>2, <1>3 DEF CallInv
<1> QED BY <1>1, <1>4, OtherCalls

\* The end of a call: what it answers with is what it has resolved.
LEMMA ReturnCalls ==
  ASSUME TypeOK, CallsInv, UNCHANGED created,
         NEW p \in Procs, NEW is, NEW key, Return(p, is, key),
         is \in {"hit", "derived"} => pc[p] \in Linked /\ key = Key(TokensOf(p))
  PROVE  CallsInv'
<1>1. /\ pc'[p] = "idle" /\ answer'[p] = [is |-> is, key |-> key]
      /\ is \in {"hit", "derived"} => seen'[p] = seen[p]
      /\ \A r \in Procs : r # p => /\ pc'[r] = pc[r] /\ answer'[r] = answer[r]
                                   /\ got'[r] = got[r] /\ seen'[r] = seen[r]
  BY DEF TypeOK, Goto, Return
<1>2. ASSUME is \in {"hit", "derived"}
      PROVE  Current(seen[p], key)
  <2>1. LinksKnown(pc[p], got[p], answer[p], seen[p]) /\ pc[p] \in Linked /\ pc[p] \in Linking
    BY <1>2 DEF CallsInv, CallInv, Linked, Linking, DerivePoints
  <2>2. Len(TokensOf(p)) = NLinks /\ \A i \in 1..NLinks : Resolved(seen[p], i, TokensOf(p)[i])
    BY <2>1 DEF LinksKnown, TokensOf
  <2>3. TokensOf(p) \in Seq(Tokens)
    BY DEF TypeOK, Gotten, TokensOf
  <2>4. TokensOf(p) \in [Links -> Tokens]
    BY <2>2, <2>3 DEF Links
  <2> QED BY <1>2, <2>2, <2>4 DEF Current, Links
<1>3. LinksKnown("idle", got'[p], answer'[p], seen'[p])
  BY <1>1, <1>2 DEF LinksKnown, Linking, Linked, Fetching, DerivePoints
<1>4. CallInv(p)'
  BY <1>1, <1>3 DEF CallInv
<1> QED BY <1>1, <1>4, OtherCalls

\* The records of a link are looked up: the present instant is the first.
LEMMA FindCalls ==
  ASSUME TypeOK, CallsInv, NEW p \in Procs, Find(p)
  PROVE  CallsInv'
<1>1. PICK q \in Fetching : Goto(p, q) /\ pc[p] \in {"resolve", "link"}
  BY DEF Find, At, Fetching
<1>2. /\ got' = [got EXCEPT ![p] = [@ EXCEPT !.found = Holding(NextLink(p)), !.held = Nothing]]
      /\ UNCHANGED <<created, answer, seen>> /\ got \in [Procs -> Gotten] /\ got[p] \in Gotten
  BY DEF Find, disk, TypeOK
<1>3. /\ pc'[p] = q /\ got'[p] = [got[p] EXCEPT !.found = Holding(NextLink(p)), !.held = Nothing]
      /\ \A r \in Procs : r # p => pc'[r] = pc[r] /\ got'[r] = got[r]
  BY <1>1, <1>2 DEF TypeOK, Goto
<1>4. /\ got'[p].tokens = got[p].tokens /\ got'[p].want = got[p].want
      /\ got'[p].found = Holding(NextLink(p)) /\ got'[p].held = Nothing
  BY <1>2, <1>3 DEF Gotten
<1>5. CallInv(p) /\ answer[p].is = "none" /\ UpToNow(seen[p], created)
  BY <1>1 DEF CallsInv, CallInv
<1>6. Len(got[p].tokens) < NLinks /\ NextLink(p) \in Links
  <2>1. Len(TokensOf(p)) < NLinks
    BY <1>1, <1>5 DEF CallInv, LinksKnown, TokensOf
  <2> QED BY <2>1, MoreTokens DEF TokensOf, Tokens
<1>7. BeingFetched(seen[p], NextLink(p), Holding(NextLink(p)), Nothing)
  <2> DEFINE n == Len(seen[p])
  <2>1. n \in DOMAIN seen[p] /\ seen[p][n] = created /\ n \in n..n
    BY <1>5 DEF UpToNow, TypeOK
  <2>2. \A d \in HoldersOf[NextLink(p)] : d \in Digests
    BY <1>6, LinksAssumption DEF Links
  <2>3. \A d \in HoldersOf[NextLink(p)] : d \notin Holding(NextLink(p)) => Gone(seen[p], d, n)
    BY <2>1, <2>2 DEF Gone, Holding, IsStored
  <2>4. \A d \in Holding(NextLink(p)) : d \in HoldersOf[NextLink(p)] /\ seen[p][n][d] # 0
    BY <2>1 DEF Holding, IsStored
  <2>5. \A d \in Digests : Nothing[d] = 0
    BY DEF Nothing
  <2>6. Fetched(seen[p], n, NextLink(p), Holding(NextLink(p)), Nothing)
    BY ONLY <2>3, <2>4, <2>5 DEF Fetched
  <2> QED BY <2>1, <2>6 DEF BeingFetched
<1>8. LinksKnown(q, got'[p], answer[p], seen[p])
  <2>1. q \notin Linked /\ q # "files" /\ q \in Linking /\ pc[p] \in Linking
    BY <1>1 DEF Linked, Linking, Fetching, DerivePoints
  <2>2. LinksKnown(pc[p], got[p], answer[p], seen[p])
    BY <1>5 DEF CallInv
  <2>3. /\ Len(got[p].tokens) <= NLinks
        /\ \A i \in 1..Len(got[p].tokens) : Resolved(seen[p], i, got[p].tokens[i])
    BY <2>1, <2>2 DEF LinksKnown
  <2> QED BY <1>4, <1>5, <1>6, <1>7, <2>1, <2>3 DEF LinksKnown, NextLink
<1>9. CallInv(p)'
  BY <1>1, <1>2, <1>3, <1>5, <1>8 DEF CallInv
<1> QED BY <1>2, <1>3, <1>9, OtherCalls

\* One of them is read, or found to be gone: the present instant is a later one.
LEMMA GetCalls ==
  ASSUME TypeOK, CallsInv, NEW p \in Procs, GetRecord(p)
  PROVE  CallsInv'
<1>1. /\ pc[p] \in Fetching /\ UNCHANGED <<created, pc, answer, seen>>
      /\ got \in [Procs -> Gotten] /\ got[p] \in Gotten
  BY DEF GetRecord, disk, TypeOK, Fetching
<1>2. PICK d \in got[p].found : got' = [got EXCEPT ![p] = Read(got[p], d)]
  BY DEF GetRecord
<1>3. got'[p] = Read(got[p], d) /\ \A r \in Procs : r # p => got'[r] = got[r]
  BY <1>1, <1>2
<1>4. /\ got'[p].tokens = got[p].tokens /\ got'[p].want = got[p].want
      /\ got'[p].found = got[p].found \ {d}
      /\ got'[p].held = [got[p].held EXCEPT ![d] = created[d]]
      /\ d \in Digests /\ got[p].held \in [Digests -> Nat]
  BY <1>1, <1>3 DEF Gotten, Read
<1>5. LinksKnown(pc[p], got[p], answer[p], seen[p]) /\ CallInv(p) /\ UpToNow(seen[p], created)
  BY <1>1 DEF CallsInv, CallInv, Fetching
<1>6. BeingFetched(seen[p], Len(got[p].tokens) + 1, got'[p].found, got'[p].held)
  <2> DEFINE i == Len(got[p].tokens) + 1
             last == Len(seen[p])
  <2>1. PICK n \in DOMAIN seen[p] : Fetched(seen[p], n, i, got[p].found, got[p].held)
    BY <1>1, <1>5 DEF LinksKnown, BeingFetched
  <2>2. last \in n..last /\ seen[p][last] = created
    BY <1>5, <2>1 DEF UpToNow, TypeOK
  <2>3. created[d] = 0 => Gone(seen[p], d, n)
    BY <2>2 DEF Gone
  <2>4. /\ got'[p].held[d] = created[d]
        /\ \A e \in Digests : e # d => got'[p].held[e] = got[p].held[e]
    BY <1>4
  <2>5. \A e \in got'[p].found : e \in HoldersOf[i] /\ seen[p][n][e] # 0
    BY <1>4, <2>1 DEF Fetched
  <2>6. \A e \in Digests : got'[p].held[e] # 0 =>
          e \in HoldersOf[i] /\ seen[p][n][e] # 0 /\ \E m \in n..last : seen[p][m][e] = got'[p].held[e]
    BY <1>4, <2>1, <2>2, <2>4 DEF Fetched
  <2>7. \A e \in HoldersOf[i] : e \in got'[p].found \/ got'[p].held[e] # 0 \/ Gone(seen[p], e, n)
    <3> SUFFICES ASSUME NEW e \in HoldersOf[i]
                 PROVE  e \in got'[p].found \/ got'[p].held[e] # 0 \/ Gone(seen[p], e, n)
      OBVIOUS
    <3>1. e \in got[p].found \/ got[p].held[e] # 0 \/ Gone(seen[p], e, n)
      BY <2>1 DEF Fetched
    <3>2. CASE e = d
      BY <2>3, <2>4, <3>2
    <3>3. CASE e # d
      <4>1. got'[p].held[e] = got[p].held[e]
        BY <1>4, <3>3
      <4> QED BY <1>4, <3>1, <3>3, <4>1
    <3> QED BY <3>2, <3>3
  <2>8. Fetched(seen[p], n, i, got'[p].found, got'[p].held)
    BY ONLY <2>5, <2>6, <2>7 DEF Fetched
  <2> QED BY <2>1, <2>8 DEF BeingFetched
<1>7. LinksKnown(pc[p], got'[p], answer[p], seen[p])
  <2>1. pc[p] # "files" /\ pc[p] \notin Linked
    BY <1>1 DEF Linked, Fetching, DerivePoints
  <2> QED BY <1>4, <1>5, <1>6, <2>1 DEF LinksKnown
<1>8. CallInv(p)'
  BY <1>1, <1>5, <1>7 DEF CallInv
<1> QED BY <1>1, <1>3, <1>8, OtherCalls

\* A bundle that precedes the one that was chosen was gone at some instant.
LEMMA ChosenResolved ==
  ASSUME NEW at \in Seq([Digests -> Nat]), Steady(at), NEW i \in Links,
         NEW held \in [Digests -> Nat], BeingFetched(at, i, {}, held),
         NEW t \in Tokens, Chosen(held, t)
  PROVE  Resolved(at, i, t)
<1>1. PICK n \in DOMAIN at : Fetched(at, n, i, {}, held)
  BY DEF BeingFetched
<1>2. \A d \in HoldersOf[i] : d \in Digests
  BY LinksAssumption DEF Links
<1>3. \A d \in HoldersOf[i] : held[d] # 0 \/ Gone(at, d, n)
  BY <1>1 DEF Fetched
<1>4. CASE t = NoLink /\ \A d \in Digests : held[d] = 0
  <2>1. ResolvedAt(at, i, t, n)
    BY <1>2, <1>3, <1>4 DEF ResolvedAt
  <2> QED BY <2>1 DEF Resolved
<1>5. CASE t \in Digests /\ held[t] # 0 /\ \A d \in Digests : ~Precedes(held, d, t)
  <2>1. PICK m \in n..Len(at) : at[m][t] = held[t]
    BY <1>1, <1>5 DEF Fetched
  <2>2. t \in HoldersOf[i] /\ at[n][t] # 0
    BY <1>1, <1>5 DEF Fetched
  <2>3. ASSUME NEW d \in HoldersOf[i], Precedes(at[m], d, t), ~Gone(at, d, n)
        PROVE  FALSE
    <3>1. d \in Digests /\ held[d] # 0 /\ ~Precedes(held, d, t)
      BY <1>2, <1>3, <1>5, <2>3
    <3>2. PICK l \in n..Len(at) : at[l][d] = held[d]
      BY <1>1, <3>1 DEF Fetched
    <3>3. /\ m \in DOMAIN at /\ l \in DOMAIN at
          /\ m \in Int /\ l \in Int /\ n \in Int /\ Len(at) \in Int
          /\ n <= m /\ n <= l /\ m <= Len(at) /\ l <= Len(at)
      BY <1>1, <2>1, <3>2
    <3>4. at[m][d] \in Nat /\ at[l][d] \in Nat /\ held[t] \in Nat
      <4>1. at[m] \in [Digests -> Nat] /\ at[l] \in [Digests -> Nat]
        BY <3>3
      <4> QED BY <1>5, <3>1, <4>1
    <3>5. at[m][d] # at[l][d]
      BY <1>5, <2>1, <2>3, <3>1, <3>2, <3>4 DEF Precedes
    <3>6. \E k \in n..Len(at) : at[k][d] = 0
      <4>1. CASE m <= l
        <5>1. PICK k \in m..l : at[k][d] = 0
          BY <3>1, <3>3, <3>5, <4>1 DEF Steady
        <5>2. k \in n..Len(at)
          BY ONLY <3>3, <5>1
        <5> QED BY <5>1, <5>2
      <4>2. CASE l <= m
        <5>1. PICK k \in l..m : at[k][d] = 0
          BY <3>1, <3>3, <3>5, <4>2 DEF Steady
        <5>2. k \in n..Len(at)
          BY ONLY <3>3, <5>1
        <5> QED BY <5>1, <5>2
      <4> QED BY <3>3, <4>1, <4>2
    <3> QED BY <2>3, <3>6 DEF Gone
  <2>4. ResolvedAt(at, i, t, n)
    BY <1>5, <2>1, <2>2, <2>3 DEF ResolvedAt
  <2> QED BY <2>4 DEF Resolved
<1> QED BY <1>4, <1>5 DEF Chosen

\* One more link is resolved.
LEMMA LinkCalls ==
  ASSUME TypeOK, CallsInv, UNCHANGED <<created, answer, seen>>,
         NEW p \in Procs, pc[p] \in Fetching, NEW t \in Tokens, Resolves(p, t),
         NEW q \in {"resolve", "link", "files", "compute", "pick"}, Goto(p, q),
         q \in {"resolve", "link"} => NextLink(p) # NLinks,
         q \in {"files", "compute"} => ~(NextLink(p) < NLinks),
         q = "files" => Key(Append(got[p].tokens, t)) = got[p].want
  PROVE  CallsInv'
<1> DEFINE tokens == Append(got[p].tokens, t)
<1>1. /\ got \in [Procs -> Gotten] /\ got[p] \in Gotten /\ seen[p] \in Seq([Digests -> Nat])
      /\ got' = [got EXCEPT ![p] = Fresh(tokens, got[p].want)]
  BY DEF TypeOK, Resolves, HasTokens
<1>2. /\ pc'[p] = q /\ got'[p].tokens = tokens /\ got'[p].want = got[p].want
      /\ \A r \in Procs : r # p => pc'[r] = pc[r] /\ got'[r] = got[r]
  BY <1>1 DEF TypeOK, Goto, Fresh
<1>3. /\ CallInv(p) /\ pc[p] \in Linking /\ LinksKnown(pc[p], got[p], answer[p], seen[p])
      /\ answer[p].is = "none" /\ Steady(seen[p]) /\ UpToNow(seen[p], created)
  BY DEF CallsInv, CallInv, Linking, Fetching, DerivePoints
<1>4. Len(got[p].tokens) < NLinks
  BY <1>3 DEF LinksKnown
<1>5. /\ Len(tokens) = Len(got[p].tokens) + 1 /\ NextLink(p) = Len(tokens) /\ NextLink(p) \in Links
      /\ \A i \in 1..Len(got[p].tokens) : tokens[i] = got[p].tokens[i]
      /\ tokens[NextLink(p)] = t /\ Len(got[p].tokens) \in Nat /\ NLinks \in Nat
  BY <1>4, MoreTokens DEF TokensOf
<1>6. Resolved(seen[p], NextLink(p), t)
  <2>1. got[p].found = {} /\ Chosen(got[p].held, t) /\ got[p].held \in [Digests -> Nat]
    BY <1>1 DEF Resolves, Gotten
  <2>2. BeingFetched(seen[p], NextLink(p), {}, got[p].held)
    BY <1>3, <2>1 DEF LinksKnown, NextLink
  <2> QED BY <1>1, <1>3, <1>5, <2>1, <2>2, ChosenResolved
<1>7. \A i \in 1..Len(tokens) : Resolved(seen[p], i, tokens[i])
  <2> SUFFICES ASSUME NEW i \in 1..Len(tokens) PROVE Resolved(seen[p], i, tokens[i])
    OBVIOUS
  <2>1. i \in 1..Len(got[p].tokens) \/ i = NextLink(p)
    BY <1>5
  <2>2. CASE i \in 1..Len(got[p].tokens)
    BY <1>3, <1>5, <2>2 DEF LinksKnown
  <2>3. CASE i = NextLink(p)
    BY <1>5, <1>6, <2>3
  <2> QED BY <2>1, <2>2, <2>3
<1>8. /\ Len(tokens) <= NLinks
      /\ q \in {"resolve", "link"} => Len(tokens) < NLinks
      /\ q \in {"files", "compute"} => Len(tokens) = NLinks
  BY <1>4, <1>5
<1>9. LinksKnown(q, got'[p], answer[p], seen[p])
  <2>1. q \notin Fetching /\ (q \in Linked => q \in {"files", "compute"})
    BY DEF Fetching, Linked, DerivePoints
  <2> HIDE DEF tokens
  <2>2. q = "files" => Key(tokens) = got[p].want
    BY DEF tokens
  <2> QED BY <1>2, <1>3, <1>7, <1>8, <2>1, <2>2 DEF LinksKnown, Fetching
<1>10. CallInv(p)'
  BY <1>2, <1>3, <1>9 DEF CallInv
<1> QED BY <1>2, <1>10, OtherCalls

\* A process begins to resolve links.
LEMMA NoTokens ==
  ASSUME NEW p \in Procs, CallInv(p), pc[p] \in {"pick", "context"}, pc'[p] \in {"resolve", "link"},
         got'[p].tokens = <<>>, UNCHANGED <<created, answer, seen>>
  PROVE  CallInv(p)'
<1>1. Len(got'[p].tokens) = 0 /\ 0 < NLinks /\ 0 <= NLinks /\ 1..0 = {}
  BY LinksAssumption
<1>2. answer[p].is = "none" /\ UpToNow(seen[p], created) /\ Steady(seen[p])
  BY DEF CallInv
<1>3. pc'[p] \notin Linked /\ pc'[p] \notin Fetching
  BY DEF Linked, Fetching, DerivePoints
<1>4. LinksKnown(pc'[p], got'[p], answer[p], seen[p])
  BY <1>1, <1>2, <1>3 DEF LinksKnown
<1> QED BY <1>2, <1>4 DEF CallInv

\* The lookup keeps what calls have resolved.
LEMMA LookupCalls ==
  ASSUME TypeOK, CallsInv, NEW p \in Procs, LookupNext(p)
  PROVE  CallsInv'
<1> USE DEF At, disk, Points, Linking, Linked, Fetching, LookupPoints, DerivePoints, FilePoints
<1>1. CASE Open(p) \/ Space(p) \/ Record(p) \/ FilesGone(p)
  BY <1>1, MoveCalls DEF Open, Space, Record, FilesGone, Move
<1>2. CASE OpenMissing(p) \/ SpaceError(p)
  BY <1>2, ReturnCalls DEF OpenMissing, SpaceError, End
<1>3. CASE RecordMissing(p) \/ NoRowLeft(p)
  <2>1. CASE mode[p] = "derive"
    BY <1>3, <2>1, MoveCalls DEF RecordMissing, NoRowLeft, Missed
  <2>2. CASE mode[p] # "derive"
    BY <1>3, <2>2, ReturnCalls DEF RecordMissing, NoRowLeft, Missed
  <2> QED BY <2>1, <2>2
<1>4. CASE Rows(p)
  BY <1>4, MoveCalls DEF Rows
<1>5. CASE Pick(p)
  <2>1. PICK k \in cands[p] :
          \/ Goto(p, "resolve") /\ got' = [got EXCEPT ![p] = Fresh(<<>>, k)]
          \/ UNCHANGED <<pc, got>>
    BY <1>5 DEF Pick
  <2>2. CASE UNCHANGED <<pc, got>>
    <3>1. UNCHANGED <<created, answer, seen>>
      BY <1>5 DEF Pick
    <3>2. CallInv(p) => CallInv(p)'
      BY <2>2, <3>1 DEF CallInv
    <3> QED BY <2>2, <3>1, <3>2, OtherCalls DEF CallsInv
  <2>3. CASE Goto(p, "resolve") /\ got' = [got EXCEPT ![p] = Fresh(<<>>, k)]
    <3>1. /\ pc'[p] = "resolve" /\ got'[p].tokens = <<>> /\ UNCHANGED <<created, answer, seen>>
          /\ \A q \in Procs : q # p => pc'[q] = pc[q] /\ got'[q] = got[q]
      BY <1>5, <2>3 DEF Pick, Goto, TypeOK, Fresh
    <3>2. pc[p] = "pick" /\ CallInv(p)
      BY <1>5 DEF Pick, CallsInv
    <3>3. CallInv(p)'
      BY <3>1, <3>2, NoTokens
    <3> QED BY <3>1, <3>3, OtherCalls
  <2> QED BY <2>1, <2>2, <2>3
<1>6. CASE ResolveNext(p)
  <2>1. PICK u \in Tokens :
          /\ Resolves(p, u)
          /\ Goto(p, IF NextLink(p) < NLinks THEN "resolve"
                     ELSE IF Matches(p, Append(got[p].tokens, u)) THEN "files" ELSE "pick")
    BY <1>6 DEF ResolveNext
  <2>2. pc[p] = "get" /\ UNCHANGED <<created, answer, seen>>
    BY <1>6 DEF ResolveNext
  <2>3. NextLink(p) \in Nat /\ NLinks \in Nat
    BY <2>2, MoreTokens, LinksAssumption DEF CallsInv, CallInv, LinksKnown, TokensOf, Tokens, Links
  <2>4. CASE NextLink(p) < NLinks
    <3>1. Goto(p, "resolve") /\ NextLink(p) # NLinks
      BY <2>1, <2>3, <2>4
    <3> QED BY <2>1, <2>2, <3>1, LinkCalls
  <2>5. CASE ~(NextLink(p) < NLinks) /\ Matches(p, Append(got[p].tokens, u))
    BY <2>1, <2>2, <2>5, LinkCalls DEF Matches
  <2>6. CASE ~(NextLink(p) < NLinks) /\ ~Matches(p, Append(got[p].tokens, u))
    BY <2>1, <2>2, <2>6, LinkCalls
  <2> QED BY <2>4, <2>5, <2>6
<1>7. CASE Hit(p)
  <2>1. pc[p] \in Linked /\ got[p].want = Key(TokensOf(p))
    BY <1>7 DEF Hit, CallsInv, CallInv, LinksKnown, TokensOf
  <2> QED BY <1>7, <2>1, ReturnCalls DEF Hit, End
<1> QED BY <1>1, <1>2, <1>3, <1>4, <1>5, <1>6, <1>7 DEF LookupNext

\* So does the derivation.
LEMMA DeriveCalls ==
  ASSUME TypeOK, CallsInv, NEW p \in Procs, DeriveNext(p)
  PROVE  CallsInv'
<1> USE DEF At, disk, Points, StagingPoints, Linking, Linked, Fetching, LookupPoints, DerivePoints, FilePoints
<1>1. CASE Context(p)
  <2>1. /\ pc'[p] = "link" /\ got'[p].tokens = <<>> /\ UNCHANGED <<created, answer, seen>>
        /\ \A q \in Procs : q # p => pc'[q] = pc[q] /\ got'[q] = got[q]
    BY <1>1 DEF Context, Goto, HasTokens, TypeOK, Fresh
  <2>2. pc[p] = "context" /\ CallInv(p)
    BY <1>1 DEF Context, CallsInv
  <2>3. CallInv(p)'
    BY <2>1, <2>2, NoTokens
  <2> QED BY <2>1, <2>3, OtherCalls
<1>2. CASE ContextMissing(p)
  BY <1>2, ReturnCalls DEF ContextMissing, End
<1>3. CASE Link(p)
  <2>1. PICK u \in Tokens : Resolves(p, u)
    BY <1>3 DEF Link
  <2>2. pc[p] = "fetch" /\ UNCHANGED <<created, answer, seen>>
    BY <1>3 DEF Link
  <2>3. CASE NextLink(p) = NLinks
    BY <1>3, <2>1, <2>2, <2>3, LinksAssumption, LinkCalls DEF Link
  <2>4. CASE NextLink(p) # NLinks
    BY <1>3, <2>1, <2>2, <2>4, LinkCalls DEF Link
  <2> QED BY <2>3, <2>4
<1>4. CASE Compute(p) \/ SwapOld(p) \/ SwapNew(p)
  BY <1>4, MoveCalls DEF Compute, SwapOld, SwapNew, Move
<1>5. CASE ComputeFails(p) \/ Stage(p) \/ Parents(p) \/ Away(p) \/ Publish(p)
  BY <1>5, MoveCalls DEF ComputeFails, Stage, Parents, Away, Publish
<1>6. CASE BadParams(p) \/ RowError(p)
  BY <1>6, ReturnCalls DEF BadParams, RowError, End
<1>7. CASE Fail(p) \/ Index(p)
  BY <1>7, ReturnCalls DEF Fail, Index, RecordRow, ResultKey, TokensOf
<1>8. CASE StageError(p)
  BY <1>8, ReturnCalls DEF StageError
<1> QED BY <1>1, <1>2, <1>3, <1>4, <1>5, <1>6, <1>7, <1>8 DEF DeriveNext

\* And the file requests.
LEMMA FileCalls ==
  ASSUME TypeOK, CallsInv, NEW p \in Procs, FileNext(p)
  PROVE  CallsInv'
<1> USE DEF At, disk, Points, Linking, Linked, Fetching, LookupPoints, DerivePoints, FilePoints
<1>1. CASE FileRecord(p) \/ FileRow(p) \/ FileMeta(p)
  BY <1>1, MoveCalls DEF FileRecord, FileRow, FileMeta, Move
<1>2. CASE FileGone(p)
  BY <1>2, ReturnCalls DEF FileGone, End
<1>3. CASE FileSend(p)
  BY <1>3, ReturnCalls DEF FileSend, End
<1> QED BY <1>1, <1>2, <1>3 DEF FileNext

\* A change by which a bundle is gone, before it or after it, is a steady one.
LEMMA SteadyGrows ==
  ASSUME NEW at, NEW more, NEW now, NEW next,
         Len(more) = Len(at) + 1, Len(at) \in Nat,
         DOMAIN at = 1..Len(at), DOMAIN more = 1..Len(more),
         \A n \in 1..Len(at) : more[n] = at[n],
         more[Len(more)] = next, UpToNow(at, now), Steady(at),
         \A d \in Digests : next[d] # now[d] => now[d] = 0 \/ next[d] = 0
  PROVE  Steady(more)
<1> SUFFICES ASSUME NEW d \in Digests, NEW m \in DOMAIN more, NEW n \in DOMAIN more,
                    m <= n, more[m][d] # more[n][d]
             PROVE  \E k \in m..n : more[k][d] = 0
  BY DEF Steady
<1> DEFINE last == Len(at)
<1>1. m \in Nat /\ n \in Nat /\ 1 <= m /\ m <= n /\ n <= last + 1
  OBVIOUS
<1>2. CASE n <= last
  <2>1. m \in DOMAIN at /\ n \in DOMAIN at /\ more[m] = at[m] /\ more[n] = at[n]
    BY <1>1, <1>2
  <2>2. PICK k \in m..n : at[k][d] = 0
    BY <2>1 DEF Steady
  <2>3. more[k] = at[k]
    BY <1>1, <1>2, <2>2
  <2> QED BY <2>2, <2>3
<1>3. CASE n = last + 1
  <2>1. m <= last /\ m \in DOMAIN at /\ more[m] = at[m] /\ more[n] = next
    BY <1>1, <1>3
  <2>2. last \in DOMAIN at /\ at[last] = now /\ more[last] = now /\ last \in m..n
    BY <1>1, <1>3, <2>1 DEF UpToNow
  <2>3. CASE next[d] # now[d]
    <3>1. now[d] = 0 \/ next[d] = 0
      BY <2>3
    <3>2. n \in m..n
      BY <1>1
    <3> QED BY <2>1, <2>2, <3>1, <3>2
  <2>4. CASE next[d] = now[d]
    <3>1. at[m][d] # at[last][d]
      BY <2>1, <2>2, <2>4
    <3>2. PICK k \in m..last : at[k][d] = 0
      BY <2>1, <2>2, <3>1 DEF Steady
    <3>3. more[k] = at[k] /\ k \in m..n
      BY <1>1, <1>3, <2>1, <3>2
    <3> QED BY <3>2, <3>3
  <2> QED BY <2>3, <2>4
<1> QED BY <1>1, <1>2, <1>3

\* And what is around the calls: a change of the bundles is a new instant.
LEMMA AroundCalls ==
  ASSUME TypeOK, CallsInv,
         \/ \E p \in Procs : \/ Die(p) \/ \E m \in {"lookup", "derive"} : Call(p, m)
                             \/ \E k \in Keys : FileCall(p, k)
         \/ \E d \in Digests : StoreNext(d)
  PROVE  CallsInv'
<1> USE DEF At, disk, Points, Linking, Linked, Fetching, LookupPoints, DerivePoints, FilePoints
<1>1. ASSUME NEW p \in Procs, Die(p) PROVE CallsInv'
  BY <1>1, ReturnCalls DEF Die
<1>2. ASSUME NEW p \in Procs,
             \/ \E m \in {"lookup", "derive"} : Call(p, m)
             \/ \E k \in Keys : FileCall(p, k)
      PROVE  CallsInv'
  <2>1. UNCHANGED created
    BY <1>2 DEF Call, FileCall
  <2>2. PICK q \in {"open", "url"} : Goto(p, q)
    BY <1>2 DEF Call, FileCall
  <2>3. /\ answer' = [answer EXCEPT ![p] = [is |-> "none", key |-> <<>>]]
        /\ seen' = [seen EXCEPT ![p] = <<created>>]
        /\ \/ UNCHANGED got
           \/ \E k \in Keys : got' = [got EXCEPT ![p] = Fresh(<<>>, k)]
    BY <1>2 DEF Call, FileCall
  <2>4. /\ pc'[p] = q /\ answer'[p].is = "none" /\ seen'[p] = <<created>>
        /\ \A r \in Procs : r # p => /\ pc'[r] = pc[r] /\ got'[r] = got[r]
                                     /\ answer'[r] = answer[r] /\ seen'[r] = seen[r]
    BY <2>2, <2>3 DEF Goto, TypeOK
  <2>5. UpToNow(<<created>>, created) /\ Steady(<<created>>)
    BY DEF UpToNow, Steady
  <2>6. LinksKnown(q, got'[p], answer'[p], seen'[p])
    BY <2>4 DEF LinksKnown
  <2>7. CallInv(p)'
    BY <2>1, <2>4, <2>5, <2>6 DEF CallInv
  <2> QED BY <2>1, <2>4, <2>7, OtherCalls
<1>3. ASSUME NEW d \in Digests, Commit(d) \/ DeleteRows(d)
      PROVE  CallsInv'
  <2>1. /\ seen' = [r \in Procs |-> IF pc[r] = "idle" THEN seen[r] ELSE Append(seen[r], created')]
        /\ UNCHANGED <<pc, got, answer>>
    BY <1>3 DEF Commit, DeleteRows, Notice
  <2>2. /\ created \in [Digests -> Nat] /\ created' \in [Digests -> Nat]
        /\ \A e \in Digests : created'[e] # created[e] => created[e] = 0 \/ created'[e] = 0
    <3>1. created' \in [Digests -> Nat]
      BY <1>3, AroundTypes DEF StoreNext, TypeOK
    <3> QED BY <1>3, <3>1 DEF Commit, DeleteRows, IsStored, TypeOK
  <2> SUFFICES ASSUME NEW r \in Procs PROVE CallInv(r)'
    BY DEF CallsInv
  <2>3. CallInv(r) /\ seen[r] \in Seq([Digests -> Nat])
    BY DEF CallsInv, TypeOK
  <2>4. CASE pc[r] = "idle"
    BY <2>1, <2>3, <2>4 DEF CallInv
  <2>5. CASE pc[r] # "idle"
    <3>1. seen'[r] = Append(seen[r], created')
      BY <2>1, <2>5
    <3>2. /\ Len(seen'[r]) = Len(seen[r]) + 1 /\ Len(seen[r]) \in Nat
          /\ DOMAIN seen[r] = 1..Len(seen[r]) /\ DOMAIN seen'[r] = 1..Len(seen'[r])
          /\ \A n \in 1..Len(seen[r]) : seen'[r][n] = seen[r][n]
          /\ seen'[r][Len(seen'[r])] = created'
      BY <2>2, <2>3, <3>1, AppendProperties
    <3>3. Longer(seen[r], seen'[r]) /\ UpToNow(seen'[r], created')
      BY <3>2 DEF Longer, UpToNow
    <3>4. Len(got[r].tokens) \in Nat
      BY DEF TypeOK, Gotten
    <3>5. LinksKnown(pc[r], got[r], answer[r], seen'[r])
      BY <2>3, <3>3, <3>4, LongerKnown DEF CallInv
    <3>6. answer[r].is = "none" /\ UpToNow(seen[r], created) /\ Steady(seen[r])
      BY <2>3, <2>5 DEF CallInv
    <3>7. Steady(seen'[r])
      <4> DEFINE at == seen[r]
                 more == seen'[r]
                 now == created
                 next == created'
      <4>1. /\ Len(more) = Len(at) + 1 /\ Len(at) \in Nat
            /\ DOMAIN at = 1..Len(at) /\ DOMAIN more = 1..Len(more)
            /\ \A n \in 1..Len(at) : more[n] = at[n]
            /\ more[Len(more)] = next /\ UpToNow(at, now) /\ Steady(at)
            /\ \A e \in Digests : next[e] # now[e] => now[e] = 0 \/ next[e] = 0
        BY <2>2, <3>2, <3>6
      <4> HIDE DEF at, more, now, next
      <4>2. Steady(more)
        BY <4>1, SteadyGrows
      <4> QED BY <4>2 DEF more
    <3> QED BY <2>1, <3>3, <3>5, <3>6, <3>7 DEF CallInv
  <2> QED BY <2>4, <2>5
<1>4. ASSUME NEW d \in Digests, DeleteDir(d)
      PROVE  CallsInv'
  BY <1>4 DEF DeleteDir, CallsInv, CallInv
<1> QED BY <1>1, <1>2, <1>3, <1>4 DEF StoreNext

\* Every step does.
LEMMA CallsNext == TypeOK /\ CallsInv /\ [Next]_vars => CallsInv'
<1> SUFFICES ASSUME TypeOK, CallsInv, [Next]_vars PROVE CallsInv'
  OBVIOUS
<1>1. CASE UNCHANGED vars
  BY <1>1 DEF vars, disk, CallsInv, CallInv
<1>2. CASE Next
  BY <1>2, FindCalls, GetCalls, LookupCalls, DeriveCalls, FileCalls, AroundCalls DEF Next, LinkNext
<1> QED BY <1>1, <1>2

-----------------------------------------------------------------------------
(* What processes without a lock leave of a result *)

\* A result is in its place, or somebody is about to put it back.
Secured(k) == k \in final \/ \E q \in Procs : Renews(q, k)
\* Points at which the own bundle is still registered, or has its directory.
NeedsOwn == {"space"} \cup (DerivePoints \ {"context"})
NeedsHome == {"swap", "away", "publish"}

CalmInv ==
  Undisturbed =>
    /\ \A d \in Digests : d \in dirs <=> IsStored(d)
    /\ \A k \in Keys : derived[k] = "ready" => Secured(k)
    /\ \A p \in Procs :
         /\ pc[p] \in NeedsOwn => IsStored(Own)
         /\ pc[p] \in NeedsHome => home
         /\ pc[p] \in {"away", "index"} => Secured(ResultKey(p))
         /\ pc[p] \in FilePoints => mode[p] = "file"
         /\ answer[p].is = "error" /\ mode[p] = "derive" => Secured(answer[p].key)

\* At first what is ready is in its place, and the bundles have their directories.
LEMMA InitCalm == Init => CalmInv
<1> SUFFICES ASSUME Init PROVE CalmInv
  OBVIOUS
<1>1. \A d \in FirstStored : Position(d) \in Nat /\ Position(d) # 0
  BY LinksAssumption DEF FirstStored, Position
<1>2. \A d \in Digests : d \in dirs <=> IsStored(d)
  BY <1>1 DEF Init, IsStored
<1> QED BY <1>2, CachedAssumption DEF Init, CalmInv, NeedsOwn, NeedsHome, DerivePoints, FilePoints, Secured

\* A step that spends of the faults or the changes disturbs.
LEMMA SpendDisturbs ==
  ASSUME TypeOK, NEW b \in DOMAIN Limit, Spend(b)
  PROVE  /\ b \in {"faults", "changes"} => ~Undisturbed'
         /\ ~Undisturbed => ~Undisturbed'
<1>1. DOMAIN Limit = {"calls", "changes", "faults"}
  BY DEF Limit
<1>2. used \in [{"calls", "changes", "faults"} -> Nat]
  BY <1>1 DEF TypeOK
<1> HIDE DEF Limit
<1> QED BY <1>1, <1>2 DEF Spend, Undisturbed

\* No step of the others takes a result away but to put one back.
LEMMA KeepsSecured ==
  ASSUME NEW k, Secured(k), TypeOK, NEW p \in Procs,
         k \in final => k \in final' \/ Renews(p, k)',
         \A q \in Procs : q # p => pc'[q] = pc[q] /\ got'[q] = got[q],
         Renews(p, k) => k \in final' \/ Renews(p, k)'
  PROVE  Secured(k)'
BY DEF Secured, Renews, At, ResultKey

\* A step of one process while nothing disturbs it.
LEMMA CalmStep ==
  ASSUME TypeOK, CallsInv, CalmInv, Undisturbed, UNCHANGED created, NEW p \in Procs,
         \A d \in Digests : d \in dirs' <=> IsStored(d),
         home => home',
         \A q \in Procs : q # p => /\ pc'[q] = pc[q] /\ got'[q] = got[q]
                                   /\ mode'[q] = mode[q] /\ answer'[q] = answer[q],
         \A k \in Keys : Secured(k) => Secured(k)',
         \A k \in Keys : derived'[k] = "ready" => derived[k] = "ready" \/ Secured(k)',
         pc'[p] \in NeedsOwn => IsStored(Own),
         pc'[p] \in NeedsHome => home',
         (pc[p] \in {"away", "index"} => Secured(ResultKey(p)))',
         pc'[p] \in FilePoints => mode'[p] = "file",
         (answer[p].is = "error" /\ mode[p] = "derive" => Secured(answer[p].key))'
  PROVE  CalmInv'
<1>1. \A d \in Digests : IsStored(d)' = IsStored(d)
  BY DEF IsStored
<1>2. Own \in Digests
  BY LinksAssumption
<1>3. \A k \in Keys : (derived[k] = "ready" => Secured(k))'
  BY DEF CalmInv
<1>4. ASSUME NEW q \in Procs, q # p
      PROVE  /\ (pc[q] \in NeedsOwn => IsStored(Own))' /\ (pc[q] \in NeedsHome => home)'
             /\ (pc[q] \in FilePoints => mode[q] = "file")'
  BY <1>1, <1>2, <1>4 DEF CalmInv
<1>5. ASSUME NEW q \in Procs, q # p
      PROVE  (pc[q] \in {"away", "index"} => Secured(ResultKey(q)))'
  <2> SUFFICES ASSUME pc[q] \in {"away", "index"} PROVE Secured(ResultKey(q))'
    BY <1>5
  <2>1. ResultKey(q)' = ResultKey(q)
    BY <1>5 DEF ResultKey
  <2>2. ResultKey(q) \in Keys
    BY ResultKeyType DEF Linking, DerivePoints
  <2>3. PICK k \in Keys : k = ResultKey(q)
    BY <2>2
  <2>4. Secured(k)
    BY <2>3 DEF CalmInv, Secured
  <2>5. Secured(k)'
    BY <2>4
  <2> QED BY <2>1, <2>3, <2>5 DEF Secured, Renews
<1>6. ASSUME NEW q \in Procs, q # p
      PROVE  (answer[q].is = "error" /\ mode[q] = "derive" => Secured(answer[q].key))'
  <2>1. answer[q].key \in Keys
    BY DEF TypeOK
  <2> QED BY <1>6, <2>1 DEF CalmInv
<1> QED BY <1>1, <1>2, <1>3, <1>4, <1>5, <1>6 DEF CalmInv

\* A step of one process that writes nothing.
LEMMA CalmMove ==
  ASSUME TypeOK, CallsInv, CalmInv, Undisturbed, UNCHANGED disk, NEW p \in Procs, pc[p] # "publish",
         NEW q \in Points \ {"away", "index"}, Goto(p, q),
         \A r \in Procs : r # p => got'[r] = got[r] /\ mode'[r] = mode[r] /\ answer'[r] = answer[r],
         q \in NeedsOwn => IsStored(Own), q \in NeedsHome => home,
         q \in FilePoints => mode'[p] = "file",
         answer'[p].is # "error" \/ mode'[p] = "file"
  PROVE  CalmInv'
<1>1. pc'[p] = q /\ \A r \in Procs : r # p => pc'[r] = pc[r]
  BY DEF TypeOK, Goto
<1>2. \A k \in Keys : Secured(k) => Secured(k)'
  BY <1>1 DEF Secured, Renews, At, ResultKey, disk
<1>3. \A d \in Digests : d \in dirs' <=> IsStored(d)
  BY DEF CalmInv, disk
<1> QED BY <1>1, <1>2, <1>3, CalmStep DEF disk

\* The lookup of a link does not disturb.
LEMMA LinkCalm ==
  ASSUME TypeOK, CallsInv, CalmInv, Undisturbed, NEW p \in Procs, LinkNext(p)
  PROVE  CalmInv'
<1> USE DEF At, Points, NeedsOwn, NeedsHome, LookupPoints, DerivePoints, FilePoints
<1>1. pc[p] \in {"resolve", "link", "get", "fetch"} /\ UNCHANGED <<disk, mode, answer>>
  BY DEF LinkNext, Find, GetRecord
<1>2. answer[p].is = "none" /\ (pc[p] \in {"link", "fetch"} => IsStored(Own))
  BY <1>1 DEF CallsInv, CallInv, CalmInv
<1>3. \A r \in Procs : r # p => got'[r] = got[r]
  BY DEF LinkNext, Find, GetRecord, TypeOK
<1>4. PICK q \in {"get", "fetch"} : Goto(p, q) /\ (q = "fetch" => pc[p] \in {"link", "fetch"})
  BY <1>1 DEF LinkNext, Find, GetRecord, Goto, TypeOK
<1> QED BY <1>1, <1>2, <1>3, <1>4, CalmMove

\* Nor does the rest of a lookup.
LEMMA LookupCalm ==
  ASSUME TypeOK, CallsInv, CalmInv, Undisturbed, NEW p \in Procs, LookupNext(p)
  PROVE  CalmInv'
<1> USE DEF At, Points, NeedsOwn, NeedsHome, LookupPoints, DerivePoints, FilePoints
<1>0. pc[p] # "idle" => answer[p].is = "none"
  BY DEF CallsInv, CallInv
<1>1. CASE Open(p) \/ Space(p) \/ Record(p) \/ FilesGone(p)
  BY <1>0, <1>1, CalmMove DEF Open, Space, Record, FilesGone, Move
<1>2. CASE OpenMissing(p)
  BY <1>2, CalmMove DEF OpenMissing, End, Return, TypeOK
<1>3. CASE SpaceError(p)
  BY <1>3, LinksAssumption DEF SpaceError, CalmInv
<1>4. CASE RecordMissing(p) \/ NoRowLeft(p)
  <2>1. CASE mode[p] = "derive"
    BY <1>0, <1>4, <2>1, CalmMove DEF RecordMissing, NoRowLeft, Missed
  <2>2. CASE mode[p] # "derive"
    <3>1. Return(p, "miss", <<>>) /\ UNCHANGED <<disk, mode>> /\ pc[p] # "publish"
      BY <1>4, <2>2 DEF RecordMissing, NoRowLeft, Missed
    <3>2. /\ Goto(p, "idle") /\ answer'[p].is = "miss"
          /\ \A r \in Procs : r # p => answer'[r] = answer[r] /\ got'[r] = got[r]
      BY <3>1 DEF Return, TypeOK
    <3> QED BY <3>1, <3>2, CalmMove
  <2> QED BY <2>1, <2>2
<1>5. CASE Rows(p)
  BY <1>0, <1>5, CalmMove DEF Rows
<1>6. CASE Pick(p)
  <2>1. PICK q \in {"resolve", "pick"} : Goto(p, q)
    BY <1>6 DEF Pick, Goto, TypeOK
  <2>2. \A r \in Procs : r # p => got'[r] = got[r]
    BY <1>6 DEF Pick, TypeOK
  <2>3. UNCHANGED <<disk, mode, answer>> /\ pc[p] = "pick"
    BY <1>6 DEF Pick
  <2> QED BY <1>0, <2>1, <2>2, <2>3, CalmMove
<1>7. CASE ResolveNext(p)
  <2>1. PICK q \in {"resolve", "files", "pick"} : Goto(p, q)
    BY <1>7 DEF ResolveNext
  <2>2. \A r \in Procs : r # p => got'[r] = got[r]
    BY <1>7 DEF ResolveNext, Resolves, HasTokens, TypeOK
  <2>3. UNCHANGED <<disk, mode, answer>> /\ pc[p] = "get"
    BY <1>7 DEF ResolveNext
  <2> QED BY <1>0, <2>1, <2>2, <2>3, CalmMove
<1>8. CASE Hit(p)
  BY <1>8, CalmMove DEF Hit, End, Return, TypeOK
<1> QED BY <1>1, <1>2, <1>3, <1>4, <1>5, <1>6, <1>7, <1>8 DEF LookupNext

\* Nor do the file requests, the calls, and what deletes directories.
LEMMA OtherCalm ==
  ASSUME TypeOK, CallsInv, CalmInv, Undisturbed,
         \/ \E p \in Procs : \/ FileNext(p) \/ \E m \in {"lookup", "derive"} : Call(p, m)
                             \/ \E k \in Keys : FileCall(p, k)
         \/ \E d \in Digests : DeleteDir(d)
  PROVE  CalmInv'
<1> USE DEF At, Points, NeedsOwn, NeedsHome, LookupPoints, DerivePoints, FilePoints
<1>1. ASSUME NEW p \in Procs, FileNext(p) PROVE CalmInv'
  <2>1. pc[p] \in FilePoints /\ mode[p] = "file" /\ answer[p].is = "none"
    BY <1>1 DEF FileNext, FileRecord, FileRow, FileMeta, FileGone, FileSend, Move, CalmInv, CallsInv, CallInv
  <2>2. CASE FileRecord(p) \/ FileRow(p) \/ FileMeta(p)
    BY <2>1, <2>2, CalmMove DEF FileRecord, FileRow, FileMeta, Move
  <2>3. CASE FileGone(p) \/ FileSend(p)
    <3>1. PICK is, key : End(p, is, key)
      BY <2>3 DEF FileGone, FileSend
    <3> QED BY <2>1, <3>1, CalmMove DEF End, Return, TypeOK
  <2> QED BY <1>1, <2>2, <2>3 DEF FileNext
<1>2. ASSUME NEW p \in Procs, NEW m \in {"lookup", "derive"}, Call(p, m)
      PROVE  CalmInv'
  BY <1>2, CalmMove DEF Call, TypeOK
<1>3. ASSUME NEW p \in Procs, NEW k \in Keys, FileCall(p, k)
      PROVE  CalmInv'
  BY <1>3, CalmMove DEF FileCall, TypeOK
<1>4. ASSUME NEW d \in Digests, DeleteDir(d)
      PROVE  CalmInv'
  BY <1>4 DEF DeleteDir, CalmInv
<1> QED BY <1>1, <1>2, <1>3, <1>4

\* The derivation puts back what it takes away.
LEMMA DeriveCalm ==
  ASSUME TypeOK, CallsInv, CalmInv, Undisturbed, Undisturbed', NEW p \in Procs, DeriveNext(p)
  PROVE  CalmInv'
<1> USE DEF At, Points, NeedsOwn, NeedsHome, LookupPoints, DerivePoints, FilePoints
<1>0. /\ pc[p] # "idle" => answer[p].is = "none"
      /\ pc[p] \in NeedsOwn => IsStored(Own)
      /\ pc[p] \in NeedsHome => home
      /\ \A d \in Digests : d \in dirs <=> IsStored(d)
  BY DEF CallsInv, CallInv, CalmInv
<1>1. CASE Context(p)
  <2>1. \A r \in Procs : r # p => got'[r] = got[r]
    BY <1>1 DEF Context, HasTokens, TypeOK
  <2> QED BY <1>0, <1>1, <2>1, CalmMove DEF Context
<1>2. CASE ContextMissing(p)
  BY <1>2, CalmMove DEF ContextMissing, End, Return, TypeOK
<1>3. CASE Link(p)
  <2>1. \A r \in Procs : r # p => got'[r] = got[r]
    BY <1>3 DEF Link, Resolves, HasTokens, TypeOK
  <2>2. PICK q \in {"link", "compute"} : Goto(p, q)
    BY <1>3 DEF Link
  <2> QED BY <1>0, <1>3, <2>1, <2>2, CalmMove DEF Link
<1>4. CASE Compute(p) \/ SwapNew(p)
  BY <1>0, <1>4, CalmMove DEF Compute, SwapNew, Move
<1>5. CASE ComputeFails(p) \/ Stage(p)
  BY <1>0, <1>5, CalmMove DEF ComputeFails, Stage
<1>6. CASE BadParams(p) \/ RowError(p)
  BY <1>6, SpendDisturbs DEF BadParams, RowError, Limit
<1>7. CASE SwapOld(p)
  <2>1. /\ pc'[p] = "away" /\ UNCHANGED <<disk, mode, got, answer>> /\ ResultKey(p) \in final
        /\ \A r \in Procs : r # p => pc'[r] = pc[r]
    BY <1>7 DEF SwapOld, Move, Goto, TypeOK
  <2>2. \A k \in Keys : Secured(k) => Secured(k)'
    BY <1>7, <2>1 DEF Secured, Renews, ResultKey, SwapOld, Move, disk
  <2>3. Secured(ResultKey(p))'
    BY <2>1 DEF Secured, ResultKey, disk
  <2>4. pc[p] = "swap"
    BY <1>7 DEF SwapOld, Move
  <2> QED BY <1>0, <2>1, <2>2, <2>3, <2>4, CalmStep DEF disk
<1>8. CASE Fail(p) \/ Index(p)
  <2>1. /\ pc'[p] = "idle" /\ answer'[p].is # "error" /\ UNCHANGED <<created, dirs, home, final, mode>>
        /\ \A r \in Procs : r # p => pc'[r] = pc[r] /\ answer'[r] = answer[r] /\ got'[r] = got[r]
    BY <1>8 DEF Fail, Index, RecordRow, Return, Goto, TypeOK
  <2>2. pc[p] \in {"fail", "index"}
    BY <1>8 DEF Fail, Index
  <2>3. \A k \in Keys : Secured(k) => Secured(k)'
    BY <2>1, <2>2 DEF Secured, Renews, ResultKey
  <2>4. \A k \in Keys : derived'[k] = "ready" => derived[k] = "ready" \/ Secured(k)'
    <3>1. CASE Fail(p)
      BY <3>1 DEF Fail, RecordRow, TypeOK
    <3>2. CASE Index(p)
      <4>1. Secured(ResultKey(p)) /\ derived' = [derived EXCEPT ![ResultKey(p)] = "ready"]
        BY <3>2 DEF Index, RecordRow, CalmInv
      <4>2. \A k \in Keys : k = ResultKey(p) => Secured(k)
        BY <4>1 DEF Secured
      <4> QED BY <2>3, <4>1, <4>2 DEF TypeOK
    <3> QED BY <1>8, <3>1, <3>2
  <2> QED BY <1>0, <2>1, <2>3, <2>4, CalmStep
<1>9. CASE Parents(p)
  <2>1. /\ pc'[p] = "swap" /\ dirs' = dirs \cup {Own} /\ home' = TRUE /\ pc[p] = "parents"
        /\ UNCHANGED <<created, final, derived, mode, got, answer>>
        /\ \A r \in Procs : r # p => pc'[r] = pc[r]
    BY <1>9 DEF Parents, Goto, TypeOK
  <2>2. \A k \in Keys : Secured(k) => Secured(k)'
    BY <2>1 DEF Secured, Renews, ResultKey
  <2> QED BY <1>0, <2>1, <2>2, CalmStep
<1>10. CASE Away(p)
  <2>1. /\ pc'[p] = "publish" /\ final' = final \ {ResultKey(p)} /\ pc[p] = "away"
        /\ UNCHANGED <<created, dirs, home, derived, mode, got, answer>>
        /\ \A r \in Procs : r # p => pc'[r] = pc[r]
    BY <1>10 DEF Away, Goto, TypeOK
  <2>2. ASSUME NEW k \in Keys, Secured(k) PROVE Secured(k)'
    <3>1. CASE k = ResultKey(p)
      BY <2>1, <3>1 DEF Secured, Renews, ResultKey
    <3>2. CASE k # ResultKey(p)
      BY <2>1, <2>2, <3>2 DEF Secured, Renews, ResultKey
    <3> QED BY <3>1, <3>2
  <2> QED BY <1>0, <2>1, <2>2, CalmStep
<1>11. CASE Publish(p)
  <2>1. /\ pc'[p] = "index" /\ final' = final \cup {ResultKey(p)} /\ pc[p] = "publish"
        /\ UNCHANGED <<created, dirs, home, derived, mode, got, answer>>
        /\ \A r \in Procs : r # p => pc'[r] = pc[r]
    BY <1>11 DEF Publish, Goto, TypeOK
  <2>2. \A k \in Keys : Secured(k) => Secured(k)'
    BY <2>1 DEF Secured, Renews, ResultKey
  <2>3. Secured(ResultKey(p))'
    BY <2>1 DEF Secured, ResultKey
  <2> QED BY <1>0, <2>1, <2>2, <2>3, CalmStep
<1>12. CASE StageError(p)
  <2>1. /\ pc'[p] = "idle" /\ answer'[p] = [is |-> "error", key |-> ResultKey(p)]
        /\ UNCHANGED <<created, dirs, home, final, derived, mode>>
        /\ \A r \in Procs : r # p => pc'[r] = pc[r] /\ answer'[r] = answer[r] /\ got'[r] = got[r]
    BY <1>12 DEF StageError, Discard, Return, Goto, TypeOK
  <2>2. \/ pc[p] = "away" /\ ResultKey(p) \notin final
        \/ pc[p] = "publish" /\ ~CanPublish(p)
    BY <1>12, SpendDisturbs DEF StageError, Limit
  <2>3. pc[p] = "publish" => ResultKey(p) \in final
    BY <1>0, <2>2 DEF CanPublish
  <2>4. ASSUME NEW k \in Keys, Secured(k) PROVE Secured(k)'
    <3>1. CASE k \in final
      BY <2>1, <3>1 DEF Secured
    <3>2. ASSUME NEW r \in Procs, Renews(r, k), k \notin final PROVE Secured(k)'
      <4>1. r # p
        BY <2>2, <2>3, <3>2 DEF Renews
      <4> QED BY <2>1, <3>2, <4>1 DEF Secured, Renews, ResultKey
    <3> QED BY <2>4, <3>1, <3>2 DEF Secured
  <2>5. Secured(ResultKey(p))
    BY <2>2, <2>3 DEF CalmInv, Secured
  <2>6. PICK k \in Keys : k = ResultKey(p)
    <3>1. ResultKey(p) \in Keys
      BY <2>2, ResultKeyType DEF Linking
    <3> QED BY <3>1
  <2>7. Secured(k)'
    BY <2>4, <2>5, <2>6 DEF Secured
  <2>8. Secured(answer[p].key)'
    BY <2>1, <2>6, <2>7 DEF Secured, Renews
  <2> QED BY <1>0, <2>1, <2>4, <2>8, CalmStep
<1> QED BY <1>1, <1>2, <1>3, <1>4, <1>5, <1>6, <1>7, <1>8, <1>9, <1>10, <1>11, <1>12 DEF DeriveNext

\* Whatever disturbs was disturbed before.
LEMMA CalmNext == TypeOK /\ CallsInv /\ CalmInv /\ [Next]_vars => CalmInv'
<1> SUFFICES ASSUME TypeOK, CallsInv, CalmInv, [Next]_vars, Undisturbed' PROVE CalmInv'
  BY DEF CalmInv
<1>1. CASE UNCHANGED vars
  BY <1>1 DEF vars, disk, CalmInv, Undisturbed, IsStored, Secured, Renews, At, ResultKey
<1>2. CASE Next
  <2>1. UNCHANGED used \/ \E b \in {"calls", "changes", "faults"} : Spend(b)
    BY <1>2
    DEF Next, LinkNext, Find, GetRecord, LookupNext, DeriveNext, FileNext, StoreNext, Open, OpenMissing, Space, SpaceError,
         Record, RecordMissing, Rows, NoRowLeft, Missed, Pick, ResolveNext, Hit, FilesGone, Context,
         ContextMissing, Link, Compute, BadParams, ComputeFails, Fail, Stage, Parents, SwapOld, SwapNew,
         Away, Publish, StageError, Index, RowError, FileRecord, FileRow, FileMeta, FileGone, FileSend,
         Die, Call, FileCall, Commit, DeleteRows, DeleteDir, Move
  <2>2. Undisturbed
    BY <2>1, SpendDisturbs DEF Undisturbed, Limit
  <2>3. ~\E p \in Procs : Die(p)
    BY SpendDisturbs DEF Die, Limit
  <2>4. ~\E d \in Digests : Commit(d) \/ DeleteRows(d)
    BY SpendDisturbs DEF Commit, DeleteRows, Limit
  <2> QED BY <1>2, <2>2, <2>3, <2>4, LinkCalm, LookupCalm, DeriveCalm, OtherCalm DEF Next, StoreNext
<1> QED BY <1>1, <1>2

-----------------------------------------------------------------------------
(* Theorems *)

\* At every point of a call, between the query for a link and the reads of its
\* records too, its tokens and its answer agree with the bundles of its instants.
THEOREM CacheInvariant == Spec => [](TypeOK /\ CallsInv)
<1> QED BY InitTypes, TypesNext, CallsNext, PTL DEF Spec

\* Type correctness; a result's place implies its bundle's directory, and what
\* is under staging/ belongs to a derivation that is being put in its place.
THEOREM CacheTypes == Spec => []TypeOK
BY CacheInvariant, PTL

\* Every link of an answer names a bundle that was stored while the link was
\* looked up, and none that comes before it was stored all the while since,
\* whatever was committed or deleted between the reads of the lookup.
THEOREM AnswersAreCurrent == Spec => []AnswerIsCurrent
<1>1. CallsInv => AnswerIsCurrent
  BY DEF CallsInv, CallInv, LinksKnown, AnswerIsCurrent
<1> QED BY <1>1, CacheInvariant, PTL

\* Without errors, deaths and changes to the bundles, a result that a process
\* took away is put back by it, and one that is ready or was not published
\* because of another is in its place.
THEOREM ResultsAreSecured == Spec => []CalmInv
<1> QED BY InitTypes, InitCalm, CacheInvariant, CalmNext, PTL DEF Spec

\* A ready row has its files, but for the moment between two renames.
THEOREM ReadyResults == Spec => []ReadyIsThere
<1>1. CalmInv => ReadyIsThere
  BY DEF CalmInv, ReadyIsThere, Secured
<1> QED BY <1>1, ResultsAreSecured, PTL

\* A derivation that failed for no reason of its own leaves a result of another.
THEOREM OneOfThemWins == Spec => []OneWins
<1>1. CalmInv => OneWins
  BY DEF CalmInv, OneWins, Secured
<1> QED BY <1>1, ResultsAreSecured, PTL
=============================================================================
