----------------------------- MODULE ListProofs -----------------------------
(***************************************************************************)
(* What a client that pages through a list is shown, for any number of     *)
(* connections, requests, bodies and limits.  The list only reads, so the  *)
(* invariants of the handlers hold beside it.                              *)
(***************************************************************************)
EXTENDS ConnectionList, StoreProofs, FiniteSetTheorems, SequenceTheorems

(***************************************************************************)
(* Sorted tables, their pages, and counting.                               *)
(***************************************************************************)
\* The sequences of a finite set have each element once.
LEMMA Permutation ==
    ASSUME NEW T, IsFiniteSet(T), NEW s \in SetToSeqs(T)
    PROVE  /\ Cardinality(T) \in Nat
           /\ s \in Seq(T) /\ Len(s) = Cardinality(T)
           /\ \A m, n \in 1 .. Len(s) : m # n => s[m] # s[n]
           /\ \A x \in T : \E n \in 1 .. Len(s) : s[n] = x
<1>1. Cardinality(T) \in Nat
  BY FS_CardinalityType
<1> DEFINE D == 1 .. Cardinality(T)
<1>2. s \in [D -> T] /\ \A m, n \in D : m # n => s[m] # s[n]
  BY DEF SetToSeqs
<1>3. s \in Seq(T) /\ Len(s) = Cardinality(T)
  BY <1>1, <1>2
<1>4. s \in Injection(D, T)
  BY <1>2 DEF Injection, IsInjective
<1>5. Cardinality(D) = Cardinality(T)
  BY <1>1, FS_Interval
<1>6. s \in Surjection(D, T)
  BY <1>4, <1>5, FS_Injection
<1> QED
  BY <1>1, <1>2, <1>3, <1>6 DEF Surjection

\* LIMIT and OFFSET cut a piece out of the rows.
LEMMA PageIs ==
    ASSUME NEW T, NEW s \in Seq(T), NEW skip \in Nat
    PROVE  /\ PageOf(s, skip) \in Seq(T)
           /\ \A n \in DOMAIN PageOf(s, skip) :
                 n + skip \in 1 .. Len(s) /\ PageOf(s, skip)[n] = s[n + skip]
           /\ PageOf(s, skip) = << >> => Len(s) <= skip
<1>1. Limit \in Nat \ {0} /\ Len(s) \in Nat
  BY ListAssumption
<1> DEFINE last == IF skip + Limit < Len(s) THEN skip + Limit ELSE Len(s)
<1>2. Min({skip + Limit, Len(s)}) = last
  <2>1. last \in {skip + Limit, Len(s)} /\ \A y \in {skip + Limit, Len(s)} : last <= y
    BY <1>1
  <2>2. \A x \in {skip + Limit, Len(s)} :
            (\A y \in {skip + Limit, Len(s)} : x <= y) => x = last
    BY <1>1
  <2> HIDE DEF last
  <2> QED
    BY <2>1, <2>2 DEF Min
<1>3. PageOf(s, skip) = SubSeq(s, skip + 1, last)
  BY <1>2 DEF PageOf
<1>4. last \in Nat /\ last <= Len(s) /\ (last <= skip => Len(s) <= skip)
  BY <1>1
<1> HIDE DEF last
<1>5. \A i \in skip + 1 .. last : s[i] \in T
  BY <1>4
<1>6. /\ SubSeq(s, skip + 1, last) \in Seq(T)
      /\ Len(SubSeq(s, skip + 1, last)) = IF skip + 1 <= last THEN last - skip ELSE 0
      /\ \A i \in 1 .. last - skip : SubSeq(s, skip + 1, last)[i] = s[skip + i]
  <2>1. skip + 1 \in Int /\ last \in Int
    BY <1>4
  <2> QED
    BY <1>4, <1>5, <2>1, SubSeqProperties
<1> DEFINE rows == SubSeq(s, skip + 1, last)
<1>7. ASSUME NEW n \in DOMAIN rows PROVE n + skip \in 1 .. Len(s) /\ rows[n] = s[n + skip]
  <2>1. n \in 1 .. last - skip
    BY <1>4, <1>6
  <2> QED
    BY <1>1, <1>4, <1>6, <2>1
<1>8. rows = << >> => Len(s) <= skip
  BY <1>1, <1>4, <1>6
<1> QED
  BY <1>3, <1>6, <1>7, <1>8

\* The first k elements of a sequence without repetition are k elements.
LEMMA Counting ==
    ASSUME NEW T, IsFiniteSet(T), NEW s \in Seq(T), NEW k \in 0 .. Len(s),
           \A m, n \in 1 .. Len(s) : m # n => s[m] # s[n], NEW S
    PROVE  /\ (\A x \in S : \E n \in 1 .. k : s[n] = x) => IsFiniteSet(S) /\ Cardinality(S) <= k
           /\ IsFiniteSet(S) /\ (\A n \in 1 .. k : s[n] \in S) => k <= Cardinality(S)
<1>1. IsFiniteSet(1 .. k) /\ Cardinality(1 .. k) = k
  BY FS_Interval
<1> DEFINE f == [n \in 1 .. k |-> s[n]]
<1> DEFINE H == {s[n] : n \in 1 .. k}
<1>2. f \in Surjection(1 .. k, H)
  BY DEF Surjection
<1>3. IsFiniteSet(H) /\ Cardinality(H) <= k /\ Cardinality(H) \in Nat
  BY <1>1, <1>2, FS_Surjection, FS_CardinalityType
<1>4. ASSUME \A x \in S : \E n \in 1 .. k : s[n] = x
      PROVE  IsFiniteSet(S) /\ Cardinality(S) <= k
  <2>1. S \in SUBSET H
    BY <1>4
  <2>2. IsFiniteSet(S) /\ Cardinality(S) <= Cardinality(H)
    BY <1>3, <2>1, FS_Subset
  <2> QED
    BY <1>3, <2>2, FS_CardinalityType
<1>5. ASSUME IsFiniteSet(S), \A n \in 1 .. k : s[n] \in S
      PROVE  k <= Cardinality(S)
  <2>1. f \in Injection(1 .. k, S)
    BY <1>5 DEF Injection, IsInjective
  <2> QED
    BY <1>1, <1>5, <2>1, FS_Injection
<1> QED
  BY <1>4, <1>5
------------------------------------------------------------------------------
\* Steps of the list leave the handlers alone.
LEMMA ListIsSpec == ListSpec => Spec
<1>1. ListInit => Init
  BY DEF ListInit
<1>2. ASSUME [ListNext]_listingVars PROVE [Next]_vars
  BY <1>2 DEF ListNext, ListStep, Fetch, Preload, Answer, ListBreaks, ListConfig, ListLease,
     ListRoleName, ListRole, listingVars, vars
<1> QED
  BY <1>1, <1>2, PTL DEF ListSpec, Spec

------------------------------------------------------------------------------
(***************************************************************************)
(* The shape of the list's state, and what a query returns.                *)
(***************************************************************************)
ListStage == {"fetch", "preload", "answer", "end", "failed", "broken"} \cup ReadStages

Shaped ==
    /\ list \in {"aws", "generic"}
    /\ step \in ListStage
    /\ page \in Seq(Entry) /\ shown \in Seq(Entry)
    /\ at \in Nat
    /\ step \in {"fetch", "end"} => page = << >>
    /\ step \in {"preload", "failed"} \cup ReadStages => list = "aws"
    /\ step \in {"failed"} \cup ReadStages => at \in DOMAIN page
    /\ step = "preload" => page # << >> /\ at = 1
    /\ list = "aws" => \A n \in DOMAIN page : page[n].id \in Ids

\* A table has finitely many rows.
LEMMA TableIsFinite == IsFiniteSet(Table) /\ Table \subseteq CIds
<1>1. IsFiniteSet(CIds)
  <2>1. IsFiniteSet(Ids)
    BY ListAssumption
  <2>2. CIds = Ids \cup {ZeroId}
    BY DEF CIds
  <2> QED
    BY <2>1, <2>2, FS_AddElement
<1>2. Table \in SUBSET CIds
  BY DEF Table, CIds
<1> QED
  BY <1>1, <1>2, FS_Subset

\* What is in a sorting of the table.
LEMMA SortingIs ==
    ASSUME NEW s \in Sortings
    PROVE  /\ s \in Seq(Table) /\ Len(s) = Cardinality(Table)
           /\ \A m, n \in 1 .. Len(s) : m # n => s[m] # s[n]
           /\ \A x \in Table : \E n \in 1 .. Len(s) : s[n] = x
           /\ \A m, n \in 1 .. Len(s) : m < n => ~Before(s[n], s[m])
<1>1. s \in SetToSeqs(Table) /\ IsFiniteSet(Table)
  BY TableIsFinite DEF Sortings
<1>2. /\ s \in Seq(Table) /\ Len(s) = Cardinality(Table)
      /\ \A m, n \in 1 .. Len(s) : m # n => s[m] # s[n]
      /\ \A x \in Table : \E n \in 1 .. Len(s) : s[n] = x
  BY <1>1, Permutation
<1>3. DOMAIN s = 1 .. Len(s)
  BY <1>2
<1> QED
  BY <1>2, <1>3 DEF Sortings

\* A page is a piece of a sorting of the table.
LEMMA FetchEffect ==
    ASSUME TypeOK, Shaped, Fetch
    PROVE  /\ UNCHANGED <<vars, list, shown>> /\ at' = 1
           /\ step' = IF page' = << >> THEN "end"
                      ELSE IF list = "aws" THEN "preload" ELSE "answer"
           /\ first' = IF shown = << >> THEN Table ELSE first
           /\ page' \in Seq(Entry)
           /\ \E s \in Sortings :
                 /\ \A n \in DOMAIN page' :
                       /\ n + Len(shown) \in 1 .. Len(s)
                       /\ s[n + Len(shown)] \in Table
                       /\ page'[n] = Fetched(s[n + Len(shown)])
                       /\ page'[n].id = s[n + Len(shown)]
                 /\ page' = << >> => Len(s) <= Len(shown)
<1>1. PICK rows \in Selected(Len(shown)) :
          /\ page' = [n \in DOMAIN rows |-> Fetched(rows[n])]
          /\ step' = IF rows = << >> THEN "end"
                     ELSE IF list = "aws" THEN "preload" ELSE "answer"
  BY DEF Fetch
<1>2. PICK s \in Sortings : rows = PageOf(s, Len(shown))
  BY <1>1 DEF Selected
<1>3. s \in Seq(Table) /\ Len(shown) \in Nat
  BY SortingIs DEF Shaped
<1>4. /\ rows \in Seq(Table)
      /\ \A n \in DOMAIN rows : n + Len(shown) \in 1 .. Len(s) /\ rows[n] = s[n + Len(shown)]
      /\ rows = << >> => Len(s) <= Len(shown)
  BY <1>2, <1>3, PageIs
<1>5. DOMAIN page' = DOMAIN rows /\ DOMAIN rows = 1 .. Len(rows) /\ Len(rows) \in Nat
  BY <1>1, <1>4
<1>6. ASSUME NEW k \in Table PROVE Fetched(k) \in Entry /\ Fetched(k).id = k
  <2>1. k \in CIds
    BY TableIsFinite
  <2>2. list = "aws" => k \in Ids /\ aws[k] \in CIds
    BY <1>6 DEF Table, TypeOK, StoreTypeOK
  <2>3. list # "aws" => conns[k] \in Row
    BY <1>6 DEF Table, TypeOK, StoreTypeOK
  <2> QED
    BY <2>1, <2>2, <2>3, Constants DEF Fetched, Entry
<1>7. page' \in Seq(Entry)
  BY <1>1, <1>4, <1>5, <1>6
<1>8. page' = << >> <=> rows = << >>
  BY <1>4, <1>5, <1>7
<1>9. ASSUME NEW n \in DOMAIN page'
      PROVE  /\ n + Len(shown) \in 1 .. Len(s)
             /\ s[n + Len(shown)] \in Table
             /\ page'[n] = Fetched(s[n + Len(shown)])
             /\ page'[n].id = s[n + Len(shown)]
  BY <1>1, <1>3, <1>4, <1>5, <1>6
<1>10. page' = << >> => Len(s) <= Len(shown)
  BY <1>4, <1>8
<1> QED
  BY <1>1, <1>7, <1>8, <1>9, <1>10 DEF Fetch

\* A step of the list is a step of one of its calls; other steps are those of
\* the handlers.
LEMMA ListCases ==
    ASSUME [ListNext]_listingVars
    PROVE  \/ UNCHANGED listingVars
           \/ ListStep /\ UNCHANGED vars
           \/ UNCHANGED listVars /\ \E p \in Req : Start(p) \/ Step(p) \/ Crash(p)
  BY DEF ListNext, ListStep, Fetch, Preload, Answer, ListBreaks, ListConfig, ListLease,
     ListRoleName, ListRole, Next

\* The second query and the calls that read an engine fill in the entries of the
\* page, and leave it at that.
Rewrites ==
    /\ UNCHANGED <<vars, list, shown, first>>
    /\ page' \in Seq(Entry) /\ DOMAIN page' = DOMAIN page
    /\ \A n \in DOMAIN page :
          /\ page'[n].id = page[n].id /\ page'[n].fk = page[n].fk
          /\ IF step = "preload"
             THEN page'[n].row \in {page[n].row, ZeroRow, conns[page[n].fk]}
             ELSE page'[n].row = page[n].row
          /\ n # at \/ step # "get_config" => page'[n].access = page[n].access
          /\ n # at \/ step # "get_role" => page'[n].ctype = page[n].ctype

\* These steps do nothing else.
LEMMA PageIsRewritten ==
    ASSUME TypeOK, Shaped,
           Preload \/ ListConfig \/ ListLease \/ ListRoleName \/ ListRole \/ ListBreaks
    PROVE  Rewrites
<1>1. CASE Preload
  <2>1. ASSUME NEW n \in DOMAIN page
        PROVE  /\ page[n] \in Entry /\ page[n].fk \in CIds
               /\ conns[page[n].fk] \in Row \cup {NoRow}
    <3>1. page[n] \in Entry
      BY DEF Shaped
    <3>2. page[n].fk \in CIds
      BY <3>1 DEF Entry
    <3> QED
      BY <3>1, <3>2 DEF TypeOK, StoreTypeOK
  <2>2. page' \in Seq(Entry) /\ DOMAIN page' = DOMAIN page
    BY <1>1, <2>1, Constants DEF Preload, Shaped, Entry
  <2> QED
    BY <1>1, <2>1, <2>2 DEF Preload, Rewrites, Entry, ReadStages
<1>2. CASE ListConfig \/ ListRole
  <2>1. at \in DOMAIN page /\ page[at] \in Entry /\ engine[page[at].id] \in Engine
    BY <1>2 DEF ListConfig, ListRole, Shaped, ReadStages, TypeOK, VaultTypeOK
  <2>2. CASE ListConfig
    <3>1. PICK access \in Keys \cup {Blank} : page' = [page EXCEPT ![at].access = access]
      BY <2>1, <2>2 DEF ListConfig, Mount, Engine, Root
    <3>2. [page[at] EXCEPT !.access = access] \in Entry
      BY <2>1 DEF Entry
    <3>3. page' \in Seq(Entry) /\ DOMAIN page' = DOMAIN page
      BY <2>1, <3>1, <3>2 DEF Shaped
    <3> QED
      BY <2>1, <2>2, <3>1, <3>3 DEF ListConfig, Rewrites, Shaped, Entry
  <2>3. CASE ListRole
    <3>1. PICK ctype \in CredentialTypes \cup {Blank} : page' = [page EXCEPT ![at].ctype = ctype]
      BY <2>1, <2>3 DEF ListRole, Mount, Engine, Role
    <3>2. [page[at] EXCEPT !.ctype = ctype] \in Entry
      BY <2>1 DEF Entry
    <3>3. page' \in Seq(Entry) /\ DOMAIN page' = DOMAIN page
      BY <2>1, <3>1, <3>2 DEF Shaped
    <3> QED
      BY <2>1, <2>3, <3>1, <3>3 DEF ListRole, Rewrites, Shaped, Entry
  <2> QED
    BY <1>2, <2>2, <2>3
<1>3. CASE ListLease \/ ListRoleName \/ ListBreaks
  BY <1>3 DEF ListLease, ListRoleName, ListBreaks, Rewrites, Shaped
<1> QED
  BY <1>1, <1>2, <1>3

\* The list's state keeps its shape.
LEMMA NextShaped ==
    ASSUME TypeOK, Shaped, [ListNext]_listingVars
    PROVE  Shaped'
<1>1. CASE UNCHANGED listVars
  BY <1>1 DEF listVars, Shaped
<1>2. CASE Fetch
  <2>1. ASSUME list' = "aws", NEW n \in DOMAIN page' PROVE page'[n].id \in Ids
    BY <1>2, <2>1, FetchEffect DEF Table
  <2> QED
    BY <1>2, <2>1, FetchEffect DEF Shaped, ListStage, ReadStages
<1>3. CASE Answer
  BY <1>3 DEF Answer, Shaped, ListStage, ReadStages
<1>4. CASE Preload \/ ListConfig \/ ListLease \/ ListRoleName \/ ListRole \/ ListBreaks
  <2>1. Rewrites
    BY <1>4, PageIsRewritten
  <2>2. page = << >> <=> page' = << >>
    BY <2>1 DEF Rewrites, Shaped
  <2>3. step' \in ListStage \ {"fetch", "end", "preload"} /\ at' \in Nat
    BY <1>4 DEF Preload, ListConfig, ListLease, ListRoleName, ListRole, ListBreaks, ListStage,
       ReadStages, Shaped
  <2>4. step' \in {"failed"} \cup ReadStages => list = "aws" /\ at' \in DOMAIN page
    <3>1. CASE Preload
      BY <3>1 DEF Preload, Shaped
    <3>2. CASE ListConfig \/ ListLease \/ ListRoleName \/ ListBreaks
      BY <3>2 DEF ListConfig, ListLease, ListRoleName, ListBreaks, Shaped, ReadStages
    <3>3. CASE ListRole
      BY <3>3 DEF ListRole, Shaped, ReadStages
    <3> QED
      BY <1>4, <3>1, <3>2, <3>3
  <2> QED
    BY <2>1, <2>2, <2>3, <2>4 DEF Shaped, Rewrites
<1> QED
  BY <1>1, <1>2, <1>3, <1>4 DEF ListNext, ListStep, listingVars, listVars
------------------------------------------------------------------------------
(***************************************************************************)
(* What the handlers hold to beside the list.                              *)
(***************************************************************************)
Beside == RowsInv /\ PublishedIsComplete /\ Exercised

\* No handler uses an endpoint or a body that is not exercised.
LEMMA ExercisedHolds == Spec => []Exercised
<1>1. Init => Exercised
  BY DEF Init, Exercised
<1>2. Inv /\ Exercised /\ [Next]_vars => Exercised'
  BY NextExercised DEF Next, vars, Exercised, Kind
<1> QED
  BY <1>1, <1>2, InvHolds, PTL DEF Spec

\* The list only reads: the handlers hold to it beside the list.
LEMMA BesideHolds == ListSpec => []Beside
  BY ListIsSpec, RowsInvHolds, PublishedAreComplete, ExercisedHolds, PTL DEF Beside

\* The list's state has that shape.
LEMMA ShapedHolds == ListSpec => []Shaped
<1>1. ListInit => Shaped
  BY DEF ListInit, Shaped, ListStage, ReadStages
<1>2. Beside /\ Shaped /\ [ListNext]_listingVars => Shaped'
  BY NextShaped DEF Beside, RowsInv, RegistryInv, TablesInv, Inv
<1> QED
  BY <1>1, <1>2, BesideHolds, PTL DEF ListSpec

\* What is asked of a connection stays asked, with every step of the composition.
LEMMA AskedStays ==
    ASSUME Beside, [ListNext]_listingVars, NEW i, NEW K, "none" \notin K, Targeted(i, K)
    PROVE  Targeted(i, K)'
<1> USE DEF Beside, RowsInv, RegistryInv, TablesInv
<1>1. CASE UNCHANGED vars
  BY <1>1 DEF vars, Targeted, Kind, Target
<1>2. ASSUME NEW p \in Req, Start(p) \/ Step(p) \/ Crash(p) PROVE Targeted(i, K)'
  BY <1>2, TargetedGrows
<1> QED
  BY <1>1, <1>2, ListCases DEF listingVars
------------------------------------------------------------------------------
(***************************************************************************)
(* When a list fails.                                                      *)
(***************************************************************************)
\* A row that was on the page when it was fetched is there, unless a DELETE was
\* sent for it.
PageIsThere ==
    list = "aws" => \A n \in DOMAIN page :
        aws[page[n].id] # NoRow \/ Targeted(page[n].id, {"delete"})

\* That stays so: a row goes only when a DELETE was sent for it.
LEMMA NextPageIsThere ==
    ASSUME Beside, Shaped, PageIsThere, [ListNext]_listingVars
    PROVE  PageIsThere'
<1> USE DEF Beside, RowsInv, RegistryInv, TablesInv, Inv
<1> SUFFICES ASSUME list' = "aws", NEW n \in DOMAIN page', NEW i, i = page'[n].id,
                    ~Targeted(i, {"delete"})'
             PROVE  aws'[i] # NoRow
  BY DEF PageIsThere
<1>1. ~Targeted(i, {"delete"})
  BY AskedStays
<1>2. CASE UNCHANGED <<vars, list, page>>
  BY <1>1, <1>2 DEF PageIsThere, vars
<1>3. CASE Fetch
  <2>1. i \in Table /\ UNCHANGED <<vars, list>>
    BY <1>3, FetchEffect
  <2> QED
    BY <2>1 DEF Table, vars
<1>4. CASE Answer
  BY <1>4 DEF Answer
<1>5. CASE Rewrites
  BY <1>1, <1>5 DEF Rewrites, PageIsThere, vars
<1>6. CASE UNCHANGED listVars /\ \E p \in Req : Start(p) \/ Step(p) \/ Crash(p)
  <2>1. page' = page /\ list = "aws"
    BY <1>6 DEF listVars
  <2>2. aws[i] # NoRow /\ i \in Ids
    BY <1>1, <2>1 DEF PageIsThere, Shaped
  <2> QED
    BY <1>1, <1>6, <2>1, <2>2, RowStays
<1> QED
  BY <1>2, <1>3, <1>4, <1>5, <1>6, ListCases, PageIsRewritten DEF ListStep, listingVars, listVars

\* As long as the servers answer, a list is an error only if it has come upon a
\* connection that somebody is patching or deleting: whatever a POST does, and
\* wherever it dies, its connection is not listed before its engine is whole.
THEOREM ListFailsForWriters == ListSpec => []FailsOnlyForWriters
<1>1. ListInit => PageIsThere /\ FailsOnlyForWriters
  BY DEF ListInit, PageIsThere, FailsOnlyForWriters
<1>2. Beside /\ Shaped /\ PageIsThere /\ FailsOnlyForWriters /\ [ListNext]_listingVars
        => PageIsThere' /\ FailsOnlyForWriters'
  <2> SUFFICES ASSUME Beside, Shaped, PageIsThere, FailsOnlyForWriters, [ListNext]_listingVars
               PROVE  FailsOnlyForWriters'
    BY NextPageIsThere
  <2> SUFFICES ASSUME step' = "failed", NEW i, i = page'[at'].id
               PROVE  Targeted(i, {"update", "delete"})'
    BY DEF FailsOnlyForWriters
  <2>1. CASE step = "failed" /\ UNCHANGED listVars
    BY <2>1, AskedStays DEF FailsOnlyForWriters, listVars
  <2>2. CASE ListLease \/ ListRoleName
    <3>0. i = page[at].id
      BY <2>2 DEF ListLease, ListRoleName
    <3>1. at \in DOMAIN page /\ i \in Ids /\ list = "aws" /\ UNCHANGED <<vars, page, at>>
      BY <2>2, <3>0 DEF ListLease, ListRoleName, Shaped, ReadStages
    <3>2. ~Complete(engine[i])
      BY <2>2, <3>0 DEF ListLease, ListRoleName, Mount, Complete
    <3>3. Targeted(i, {"update", "delete"})
      BY <3>0, <3>1, <3>2 DEF PageIsThere, Beside, PublishedIsComplete, Targeted
    <3> QED
      BY <3>1, <3>3 DEF vars, Targeted, Kind, Target
  <2>3. ~Fetch /\ ~Preload /\ ~Answer /\ ~ListBreaks /\ ~ListConfig /\ ~ListRole
    BY DEF Fetch, Preload, Answer, ListBreaks, ListConfig, ListRole
  <2> QED
    BY <2>1, <2>2, <2>3, ListCases DEF ListStep, listingVars, listVars
<1> QED
  BY <1>1, <1>2, BesideHolds, ShapedHolds, PTL DEF ListSpec
------------------------------------------------------------------------------
(***************************************************************************)
(* The names of the connections that nobody patches.                       *)
(***************************************************************************)
\* The name that a connection was made with.
GivenName(k) == IF k \in Preloaded THEN Seed[k].row.name ELSE call[k].body.name

HasName(row, k) == row \in {NoRow, NoWrite} \/ row.name = GivenName(k)

\* It keeps that name in the table, in every transaction and in every handler.
NamesKept ==
    \A k \in Ids : ~Targeted(k, {"update"}) =>
        /\ HasName(conns[k], k)
        /\ \A p \in Req : HasName(tx[p].conns[k], k)
        /\ \A p \in Req : loc[p].cid = k => loc[p].row.name = GivenName(k)

\* What a step does to the connections that its handler holds.
LEMMA NameEffect ==
    ASSUME Inv, NEW p \in Req, Step(p) \/ Crash(p)
    PROVE  \/ Kind(p) = "update"
           \/ loc'[p].cid = ZeroId
           \/ loc'[p].cid = loc[p].cid /\ loc'[p].row.name = loc[p].row.name
           \/ loc'[p].cid \in CIds /\ loc'[p].row = conns[loc'[p].cid] /\ loc'[p].row # NoRow
           \/ Kind(p) = "add" /\ loc'[p].cid = p /\ loc'[p].row.name = call[p].body.name
<1> USE DEF At, Inv, TypeOK, Goto
<1>1. ASSUME NEW code, FailWith(p, code) PROVE loc'[p].cid = ZeroId
  BY <1>1 DEF FailWith, ZeroLocal
<1>2. CASE Read(p)
  BY <1>1, <1>2 DEF Read, ReadAws, ReadConn, Fail, Local
<1>3. CASE UpdateMerge(p) \/ UpdateRemerge(p)
  BY <1>3 DEF UpdateMerge, UpdateRemerge, WellFormed, Serving
<1>4. CASE AddValidate(p)
  BY <1>1, <1>4 DEF AddValidate, WellFormed, Serving
<1>5. CASE AppendApp(p) \/ RemoveApp(p)
  BY <1>1, <1>5 DEF AppendApp, RemoveApp, Local, Row
<1>6. CASE ReadVault(p)
  <2>1. ASSUME AbandonRead(p)
        PROVE  \/ loc'[p].cid = ZeroId
               \/ loc'[p].cid = loc[p].cid /\ loc'[p].row.name = loc[p].row.name
    BY <1>1, <2>1 DEF AbandonRead, Fail, Local, Row
  <2>2. CASE GetConfig(p) \/ GetRole(p) \/ TestCreds(p)
    <3>1. loc[p] \in Local /\ loc[p].row \in Row
      BY DEF Local
    <3>2. CASE GetConfig(p)
      BY <3>1, <3>2 DEF GetConfig, Local
    <3>3. CASE GetRole(p)
      BY <3>1, <3>3 DEF GetRole, Local
    <3>4. CASE TestCreds(p)
      BY <3>1, <3>4 DEF TestCreds, Local, Row
    <3> QED
      BY <2>2, <3>2, <3>3, <3>4
  <2>3. CASE GetLease(p) \/ GetRoleName(p) \/ VaultReadFails(p)
    BY <2>1, <2>3 DEF GetLease, GetRoleName, VaultReadFails
  <2> QED
    BY <1>6, <2>2, <2>3 DEF ReadVault
<1>7. CASE WriteVault(p) \/ Statement(p) \/ Crash(p)
  <2>1. Outcome(p)
    BY <1>7, StepOutcome DEF Step
  <2>2. UNCHANGED loc \/ \E code : FailWith(p, code)
    BY <1>7 DEF WriteVault, EnableAWSSecretsEngine, ConfigureAWSSecretsEngine,
       ConfigureAWSRootCredentials, ConfigureAWSIAMRole, DisableAWSSecretsEngine, Proceed,
       Statement, CreateConn, CreateAws, SaveConn, SaveAws, DeleteAws, DeleteConn, Execute,
       SaveRow, CommitTx, DbFails, DeadlockVictim, Crash, Fail
  <2> QED
    BY <1>1, <2>2
<1> QED
  BY <1>2, <1>3, <1>4, <1>5, <1>6, <1>7 DEF Step, Memory

\* Where a row that is written comes from.
LEMMA WrittenEffect ==
    ASSUME Inv, NEW p \in Req, Step(p) \/ Crash(p), NEW k \in CIds
    PROVE  /\ conns'[k] # conns[k] =>
                 \/ CommitTx(p) /\ tx[p].conns[k] # NoWrite /\ conns'[k] = tx[p].conns[k]
                 \/ SaveRow(p) /\ k = loc[p].cid /\ conns'[k] = loc[p].row
           /\ \A q \in Req \ {p} : tx'[q] = tx[q]
           /\ tx'[p].conns[k] # tx[p].conns[k] =>
                 \/ tx'[p].conns[k] \in {NoRow, NoWrite}
                 \/ /\ k = loc[p].cid /\ tx'[p].conns[k] = loc[p].row
                    /\ CreateConn(p) \/ SaveConn(p)
                    /\ ConnOwners(p, k, loc[p].row) = {} /\ ~NameTaken(p, k, loc[p].row)
<1> USE DEF Inv, TypeOK, StoreTypeOK
<1>1. Outcome(p)
  BY StepOutcome
<1>2. \A q \in Req \ {p} : tx'[q] = tx[q]
  BY <1>1, TxIsLocal
<1>3. CASE Failed(p) \/ CommitTx(p)
  BY <1>2, <1>3 DEF Failed, FailWith, CommitTx, Commit, Rollback, Apply, Release, NoTx,
     ConnsSeenBy, Overlay
<1>4. CASE SaveRow(p)
  BY <1>4 DEF SaveRow
<1>5. CASE WroteConn(p)
  <2>1. UNCHANGED conns
    BY <1>5 DEF WroteConn
  <2>2. PICK c \in CIds : c = loc[p].cid
    BY DEF Local
  <2>3. CreateConn(p) \/ SaveConn(p) \/ DeleteConn(p)
    BY <1>5, WroteConnIs
  <2>4. ~Fail(p)
    BY <1>5 DEF WroteConn, Fail, FailWith, Reply, Goto
  <2>5. CASE DeleteConn(p)
    <3>1. WriteConn(p, c, NoRow)
      BY <2>2, <2>4, <2>5 DEF DeleteConn, Execute
    <3> QED
      BY <1>2, <2>1, <3>1, WriteConnEffect
  <2>6. CASE CreateConn(p) \/ SaveConn(p)
    <3>1. WriteConn(p, c, loc[p].row) /\ ~NameTaken(p, c, loc[p].row)
      BY <2>2, <2>4, <2>6 DEF CreateConn, SaveConn, Execute, SaveAccepted
    <3>2. ConnOwners(p, c, loc[p].row) = {}
      BY <2>2, <2>6 DEF CreateConn, SaveConn, CanExecute, At, WaitsFor
    <3> QED
      BY <1>2, <2>1, <2>2, <2>6, <3>1, <3>2, WriteConnEffect
  <2> QED
    BY <2>3, <2>5, <2>6
<1>6. CASE WroteAws(p)
  <2>1. tx'[p].conns = tx[p].conns
    BY <1>6 DEF WroteAws, WriteAws, Tx
  <2> QED
    BY <1>2, <1>6, <2>1 DEF WroteAws
<1> QED
  BY <1>1, <1>2, <1>3, <1>4, <1>5, <1>6 DEF Outcome, Called, Quiet, Shown

\* What is asked and what is new, over a step of a handler.
LEMMA GivenStays ==
    ASSUME RegistryInv, NEW p \in Req, Start(p) \/ Step(p) \/ Crash(p), NEW k \in Ids
    PROVE  GivenName(k)' = GivenName(k) \/ (Start(p) /\ k = p /\ Unknown(p) /\ Strange(p, p))
<1> USE DEF RegistryInv, TablesInv
<1>1. CASE Step(p) \/ Crash(p)
  BY <1>1, CallIsFixed DEF GivenName
<1>2. CASE Start(p) /\ k # p
  BY <1>2, StepIsLocal DEF Others, GivenName, Ids
<1>3. CASE Start(p) /\ k = p
  <2>1. Kind(p) # "add"
    BY <1>3, NotSent DEF Start, At
  <2> QED
    BY <1>3, <2>1 DEF UuidsAreNew, Over, Unknown
<1> QED
  BY <1>1, <1>2, <1>3

\* Nobody but a PATCH gives a connection another name.
LEMMA NextNamesKept ==
    ASSUME RowsInv, RowsInv', NamesKept, NEW p \in Req, Start(p) \/ Step(p) \/ Crash(p)
    PROVE  NamesKept'
<1> USE DEF RowsInv, RegistryInv, TablesInv
<1> SUFFICES ASSUME NEW k \in Ids, ~Targeted(k, {"update"})'
             PROVE  /\ HasName(conns[k], k)'
                    /\ \A q \in Req : HasName(tx[q].conns[k], k)'
                    /\ \A q \in Req : loc'[q].cid = k => loc'[q].row.name = GivenName(k)'
  BY DEF NamesKept
<1>1. /\ HasName(conns[k], k)
      /\ \A q \in Req : HasName(tx[q].conns[k], k)
      /\ \A q \in Req : loc[q].cid = k => loc[q].row.name = GivenName(k)
  BY UntargetedBefore DEF NamesKept
<1>2. k \in CIds /\ k # ZeroId
  BY DomainAssumption DEF CIds
<1>3. CASE Start(p)
  <2>1. UNCHANGED <<conns, tx>>
    BY <1>3, StartEffect
  <2>2. \A q \in Req : loc'[q].cid = loc[q].cid /\ loc'[q].row = loc[q].row
    BY <1>3 DEF Start, Inv, TypeOK, Local
  <2>3. CASE GivenName(k)' = GivenName(k)
    BY <1>1, <2>1, <2>2, <2>3 DEF HasName
  <2>4. CASE k = p /\ Unknown(p) /\ Strange(p, p)
    <3>1. conns[k] = NoRow
      BY <2>4 DEF Unknown
    <3>2. \A q \in Req : tx[q].conns[k] = NoWrite /\ loc[q].cid # k
      BY <2>4 DEF Unknown, Strange
    <3> QED
      BY <2>1, <2>2, <3>1, <3>2 DEF HasName
  <2> QED
    BY <1>3, <2>3, <2>4, GivenStays
<1>4. CASE Step(p) \/ Crash(p)
  <2>1. GivenName(k)' = GivenName(k) /\ UNCHANGED call
    BY <1>4, CallIsFixed DEF GivenName
  <2>2. HasName(conns[k], k)'
    <3>1. CASE conns'[k] = conns[k]
      BY <1>1, <2>1, <3>1 DEF HasName
    <3>2. CASE conns'[k] # conns[k]
      BY <1>1, <1>2, <1>4, <2>1, <3>2, WrittenEffect DEF HasName
    <3> QED
      BY <3>1, <3>2
  <2>3. ASSUME NEW q \in Req PROVE HasName(tx[q].conns[k], k)'
    <3>1. CASE tx'[q].conns[k] = tx[q].conns[k]
      BY <1>1, <2>1, <3>1 DEF HasName
    <3>2. CASE tx'[q].conns[k] # tx[q].conns[k]
      BY <1>1, <1>2, <1>4, <2>1, <3>2, WrittenEffect DEF HasName
    <3> QED
      BY <3>1, <3>2
  <2>4. ASSUME NEW q \in Req, loc'[q].cid = k PROVE loc'[q].row.name = GivenName(k)'
    <3>1. CASE q # p
      BY <1>1, <1>4, <2>1, <2>4, <3>1, StepIsLocal DEF Others
    <3>2. CASE q = p
      <4>1. Kind(p) # "update"
        <5>1. Target(p)' = k /\ Kind(p)' = Kind(p)
          BY <1>2, <2>1, <2>4, <3>2 DEF OwnKeys, Target, Kind
        <5> QED
          BY <5>1 DEF Targeted
      <4>2. CASE Kind(p) = "add" /\ k = p /\ loc'[p].row.name = call[p].body.name
        <5>1. p \notin Preloaded
          BY DomainAssumption
        <5> QED
          BY <2>1, <3>2, <4>2, <5>1 DEF GivenName
      <4>3. CASE loc'[p].row = conns[k] /\ loc'[p].row # NoRow
        <5>1. conns[k] # NoWrite
          BY <1>2, DomainAssumption DEF Inv, TypeOK, StoreTypeOK
        <5> QED
          BY <1>1, <2>1, <3>2, <4>3, <5>1 DEF HasName
      <4> QED
        BY <1>1, <1>2, <1>4, <2>1, <2>4, <3>2, <4>1, <4>2, <4>3, NameEffect
    <3> QED
      BY <3>1, <3>2
  <2> QED
    BY <2>2, <2>3, <2>4
<1> QED
  BY <1>3, <1>4

\* A connection has the name that it was given.
LEMMA NamesKeptHolds == Spec => []NamesKept
<1>1. Init => NamesKept
  <2> SUFFICES ASSUME Init, NEW k \in Ids
               PROVE  /\ HasName(conns[k], k)
                      /\ \A q \in Req : HasName(tx[q].conns[k], k) /\ loc[q].cid # k
    BY DEF NamesKept
  <2>1. HasName(conns[k], k)
    BY DEF Init, StoreInit, HasName, GivenName, CIds
  <2>2. \A q \in Req : tx[q].conns[k] = NoWrite
    BY DEF Init, StoreInit, NoTx, CIds
  <2>3. \A q \in Req : loc[q].cid # k
    BY DomainAssumption DEF Init, ZeroLocal
  <2> QED
    BY <2>1, <2>2, <2>3 DEF HasName
<1>2. RowsInv /\ RowsInv' /\ NamesKept /\ [Next]_vars => NamesKept'
  <2>1. UNCHANGED vars => (NamesKept => NamesKept')
    BY DEF vars, NamesKept, HasName, GivenName, Targeted, Kind, Target
  <2> QED
    BY <2>1, NextNamesKept DEF Next
<1> QED
  BY <1>1, <1>2, RowsInvHolds, PTL DEF Spec
------------------------------------------------------------------------------
(***************************************************************************)
(* The rows and the engine of a connection that nobody patches.            *)
(***************************************************************************)
\* A connection that has a row was there at the start or has been posted.
LEMMA RowsAreMade ==
    ASSUME RegistryInv, NEW i \in Ids, aws[i] # NoRow \/ conns[i] # NoRow
    PROVE  i \in Req => Over(i)
  BY DEF RegistryInv, TablesInv, UuidsAreNew, Unknown

\* A posted connection stays posted.
LEMMA OverStays ==
    ASSUME RegistryInv, NEW p \in Req, Start(p) \/ Step(p) \/ Crash(p), NEW i \in Req, Over(i)
    PROVE  Over(i)' /\ i # p
<1> USE DEF RegistryInv, TablesInv
<1>1. pc[p] # "done"
  BY StepsAreActive DEF Active, Start, At
<1> QED
  BY <1>1, StepIsLocal DEF Others, Over, Kind

\* Its name, once somebody posts it.
LEMMA GivenIsName ==
    ASSUME RegistryInv, Exercised, NEW k \in Ids, k \in Preloaded \/ Kind(k) = "add"
    PROVE  GivenName(k) \in Names
<1> USE DEF RegistryInv, TablesInv
<1>1. CASE k \in Preloaded
  <2>1. Seed[k].row \in Row /\ Seed[k].row.name # Blank
    BY <1>1, DomainAssumption, ListAssumption DEF SeedEntry
  <2> QED
    BY <1>1, <2>1 DEF GivenName, Row
<1>2. CASE k \notin Preloaded /\ Kind(k) = "add"
  <2>1. k \in Req /\ pc[k] # "idle"
    BY <1>2, NotSent DEF Ids
  <2>2. call[k].body \in Posts
    BY <1>2, <2>1 DEF Exercised, Bodies
  <2>3. call[k].body \in Body /\ call[k].body.name # Blank
    BY <2>2, CallAssumption
  <2> QED
    BY <1>2, <2>3 DEF GivenName, Body
<1> QED
  BY <1>1, <1>2

\* Without a PATCH, an aws_connections row has its own connections row.
RowsOwn ==
    \A i \in Ids : ~Targeted(i, {"update"}) =>
        aws[i] \in {i, NoRow} /\ (aws[i] # NoRow => conns[i] # NoRow)

\* The two rows stay together: only the COMMIT of a POST or a DELETE changes them.
LEMMA NextRowsOwn ==
    ASSUME RowsInv, RowsOwn, NEW p \in Req, Start(p) \/ Step(p) \/ Crash(p)
    PROVE  RowsOwn'
<1> USE DEF RowsInv, RegistryInv, TablesInv
<1> SUFFICES ASSUME NEW i \in Ids, ~Targeted(i, {"update"})'
             PROVE  aws'[i] \in {i, NoRow} /\ (aws'[i] # NoRow => conns'[i] # NoRow)
  BY DEF RowsOwn
<1>1. ~Targeted(i, {"update"}) /\ aws[i] \in {i, NoRow} /\ (aws[i] # NoRow => conns[i] # NoRow)
  BY UntargetedBefore DEF RowsOwn
<1>2. i \in CIds /\ i # ZeroId
  BY DomainAssumption DEF CIds
<1>3. PairPending(p) /\ WritesOwn(p)
  OBVIOUS
<1>4. CASE aws'[i] # aws[i] /\ aws'[i] # NoRow
  <2>1. /\ CommitTx(p) /\ i = Target(p) /\ HasWritten(p)
        /\ aws'[i] = tx[p].aws[i] /\ Kind(p) # "delete"
    BY <1>4, StepEffect
  <2>2. Kind(p) = "add" /\ pc[p] = "commit"
    BY <1>1, <2>1 DEF HasWritten, Targeted, CommitTx, At
  <2>3. loc[p].cid = p /\ i = p
    BY <1>3, <2>1, <2>2 DEF WritesOwn, Unread, Inv, WellFormed
  <2>4. HasConn(p) /\ Apply(p)
    BY <1>4, <2>1, <2>2 DEF HasConn, CommitTx, Commit, Rollback
  <2>5. tx[p].conns[i] \notin {NoRow, NoWrite}
    BY <1>2, <1>3, <2>2, <2>3, <2>4 DEF PairPending
  <2>6. conns'[i] = tx[p].conns[i]
    BY <1>2, <2>4, <2>5 DEF Apply, ConnsSeenBy, Overlay, Inv, TypeOK, StoreTypeOK
  <2> QED
    BY <1>3, <2>1, <2>3, <2>5, <2>6 DEF PairPending
<1>5. CASE aws'[i] = aws[i] /\ conns'[i] # conns[i] /\ conns'[i] = NoRow
  <2>1. i = loc[p].cid /\ CommitTx(p) /\ Apply(p) /\ Kind(p) = "delete"
    BY <1>2, <1>5, ConnsChange
  <2>2. i = Target(p)
    BY <1>2, <2>1 DEF OwnKeys
  <2> QED
    BY <2>1, <2>2, ApplyEffect
<1> QED
  BY <1>1, <1>4, <1>5

\* A connection that was there and is gone, with its engine.
Removed(i) == aws[i] = NoRow /\ ~engine[i].mounted /\ (i \in Req => Over(i))

\* Without a PATCH, a connection that was there is there or is removed.
LEMMA RemovedStays ==
    ASSUME RegistryInv, NEW p \in Req, Start(p) \/ Step(p) \/ Crash(p), NEW i \in Ids,
           ~Targeted(i, {"update"})', aws[i] # NoRow \/ Removed(i)
    PROVE  /\ aws'[i] # NoRow \/ Removed(i)'
           /\ Removed(i) => Removed(i)'
<1> USE DEF RegistryInv, TablesInv
<1>1. ~Targeted(i, {"update"})
  BY UntargetedBefore
<1>2. i \in Req => Over(i) /\ Over(i)' /\ i # p
  BY RowsAreMade, OverStays DEF Removed
<1>3. ASSUME aws'[i] # aws[i]
      PROVE  aws'[i] = NoRow /\ ~engine'[i].mounted
  <2>1. /\ CommitTx(p) /\ i = Target(p) /\ HasWritten(p) /\ UNCHANGED engine
        /\ aws'[i] = NoRow <=> Kind(p) = "delete"
    BY <1>3, StepEffect
  <2>2. Kind(p) = "delete"
    BY <1>1, <1>2, <2>1 DEF HasWritten, Targeted, Inv, WellFormed
  <2>3. Undisturbed(p)
    BY <1>1, <2>1, <2>2 DEF Undisturbed, Targeted
  <2> QED
    BY <2>1, <2>2, <2>3, CommitAhead
<1>4. ASSUME engine'[i] # engine[i]
      PROVE  ~engine'[i].mounted
  <2>1. WriteVault(p) /\ i = Target(p)
    BY <1>4, StepEffect
  <2>2. Kind(p) = "delete"
    BY <1>1, <1>2, <2>1, EngineEffect DEF Mutating, Targeted, Inv, WellFormed
  <2> QED
    BY <1>4, <2>1, <2>2, EngineEffect DEF Unmounted
<1> QED
  BY <1>2, <1>3, <1>4 DEF Removed

\* The engine of a connection that nobody patches has the access key of its POST.
KeysKept ==
    /\ \A i \in Ids : ~Targeted(i, {"update"}) =>
          (engine[i].root # None => engine[i].root.access # Blank)
    /\ \A p \in Req :
          Kind(p) = "add" /\ pc[p] \notin Unread \cup {"done"} => loc[p].access # Blank

\* A POST works on the body it was given.
LEMMA AddEffect ==
    ASSUME Inv, NEW p \in Req, Step(p) \/ Crash(p), Kind(p) = "add",
           pc'[p] \notin Unread \cup {"done"}
    PROVE  \/ loc'[p].access = call[p].body.access
           \/ loc'[p] = loc[p] /\ pc[p] \notin Unread \cup {"done"}
<1> USE DEF At, Inv, TypeOK, Goto, Unread
<1>1. ASSUME NEW code, FailWith(p, code) PROVE FALSE
  BY <1>1 DEF FailWith, Reply
<1>2. CASE AddValidate(p)
  BY <1>1, <1>2 DEF AddValidate
<1>3. ~Read(p) /\ ~ReadVault(p)
  BY <1>1 DEF Read, ReadAws, ReadConn, ReadVault, GetConfig, GetLease, GetRoleName, GetRole,
     TestCreds, VaultReadFails, AbandonRead, Fail, ReadStages, WellFormed, Serving
<1>4. ~UpdateMerge(p) /\ ~UpdateRemerge(p) /\ ~AppendApp(p) /\ ~RemoveApp(p)
  BY DEF UpdateMerge, UpdateRemerge, AppendApp, RemoveApp, WellFormed, Serving
<1>5. CASE WriteVault(p) \/ Statement(p) \/ Crash(p)
  <2>1. UNCHANGED loc
    BY <1>1, <1>5 DEF WriteVault, EnableAWSSecretsEngine, ConfigureAWSSecretsEngine,
       ConfigureAWSRootCredentials, ConfigureAWSIAMRole, DisableAWSSecretsEngine, Proceed,
       Statement, CreateConn, CreateAws, SaveConn, SaveAws, DeleteAws, DeleteConn, Execute,
       SaveRow, CommitTx, DbFails, DeadlockVictim, Crash, Fail
  <2>2. Active(p)
    BY <1>5, StepsAreActive DEF Step
  <2>3. pc[p] \notin {"validate", "read_aws", "read_conn"}
    BY <1>1, <1>5 DEF WriteVault, EnableAWSSecretsEngine, ConfigureAWSSecretsEngine,
       ConfigureAWSRootCredentials, ConfigureAWSIAMRole, DisableAWSSecretsEngine,
       Statement, CreateConn, CreateAws, SaveConn, SaveAws, DeleteAws, DeleteConn, CanExecute,
       SaveRow, CommitTx, DbFails, DeadlockVictim, Crash, Fail
  <2> QED
    BY <2>1, <2>2, <2>3 DEF Active
<1> QED
  BY <1>2, <1>3, <1>4, <1>5 DEF Step, Memory

\* Which root credentials a call to Vault leaves.
LEMMA RootEffect ==
    ASSUME Inv, NEW p \in Req, WriteVault(p), NEW i \in Ids,
           engine'[i].root # engine[i].root, engine'[i].root # None
    PROVE  i = Target(p) /\ pc[p] = "root" /\ engine'[i].root.access = loc[p].access
<1> USE DEF Inv, TypeOK, VaultTypeOK, At
<1>1. i = Target(p) /\ engine[i] \in Engine
  BY EngineEffect
<1>2. ~EnableAWSSecretsEngine(p)
  BY <1>1 DEF EnableAWSSecretsEngine, Enable, Call, FreshMount, Unmounted
<1>3. ~ConfigureAWSSecretsEngine(p)
  BY <1>1 DEF ConfigureAWSSecretsEngine, Tune, Call, Engine
<1>4. ~ConfigureAWSIAMRole(p)
  BY <1>1 DEF ConfigureAWSIAMRole, WriteRole, Call, Engine
<1>5. ~DisableAWSSecretsEngine(p)
  BY <1>1 DEF DisableAWSSecretsEngine, Disable, Call, Unmounted
<1>6. ConfigureAWSRootCredentials(p)
  BY <1>2, <1>3, <1>4, <1>5 DEF WriteVault
<1> QED
  BY <1>1, <1>6 DEF ConfigureAWSRootCredentials, WriteRoot, Call, Engine

\* The key stays: only a POST's root call writes one, and it has the body's.
LEMMA NextKeysKept ==
    ASSUME RegistryInv, Exercised, KeysKept, NEW p \in Req, Start(p) \/ Step(p) \/ Crash(p)
    PROVE  KeysKept'
<1> USE DEF RegistryInv, TablesInv
<1>1. ASSUME NEW i \in Ids, ~Targeted(i, {"update"})', engine'[i].root # None
      PROVE  engine'[i].root.access # Blank
  <2>1. ~Targeted(i, {"update"})
    BY <1>1, UntargetedBefore
  <2>2. CASE engine'[i].root = engine[i].root
    BY <1>1, <2>1, <2>2 DEF KeysKept
  <2>3. CASE engine'[i].root # engine[i].root
    <3>1. WriteVault(p)
      BY <2>3, StepEffect
    <3>2. i = Target(p) /\ pc[p] = "root" /\ engine'[i].root.access = loc[p].access
      BY <1>1, <2>3, <3>1, RootEffect
    <3>3. Kind(p) = "add"
      BY <2>1, <3>2 DEF Targeted, Inv, WellFormed, Serving, AddStages
    <3> QED
      BY <3>2, <3>3 DEF KeysKept, Unread
  <2> QED
    BY <2>2, <2>3
<1>2. ASSUME NEW q \in Req, Kind(q)' = "add", pc'[q] \notin Unread \cup {"done"}
      PROVE  loc'[q].access # Blank
  <2>1. CASE q # p
    BY <1>2, <2>1, StepIsLocal DEF Others, Kind, KeysKept
  <2>2. CASE q = p
    <3>1. Step(p) \/ Crash(p)
      BY <1>2, <2>2, StartEffect
    <3>2. Kind(p) = "add" /\ pc[p] # "idle"
      BY <1>2, <2>2, <3>1, CallIsFixed DEF Kind
    <3>3. call[p].body \in Posts
      BY <3>2 DEF Exercised, Bodies
    <3>4. call[p].body.access # Blank
      BY <3>3, CallAssumption
    <3> QED
      BY <1>2, <2>2, <3>1, <3>2, <3>4, AddEffect DEF KeysKept
  <2> QED
    BY <2>1, <2>2
<1> QED
  BY <1>1, <1>2 DEF KeysKept

\* What holds of connections that nobody patches, in all states.
Unpatched == RowsOwn /\ KeysKept /\ NamesKept

\* They hold of every behaviour of the handlers.
LEMMA UnpatchedHolds == Spec => []Unpatched
<1>1. Init => RowsOwn /\ KeysKept
  <2> SUFFICES ASSUME Init PROVE RowsOwn /\ KeysKept
    OBVIOUS
  <2>1. RowsOwn
    <3>1. ASSUME NEW i \in Preloaded PROVE conns[i] # NoRow
      <4>1. conns[i] = Seed[i].row /\ Seed[i].row \in Row
        BY DomainAssumption DEF Init, StoreInit, Ids, CIds, SeedEntry
      <4> QED
        BY <4>1, DomainAssumption
    <3> QED
      BY <3>1 DEF Init, StoreInit, RowsOwn
  <2>2. ASSUME NEW i \in Ids, engine[i].root # None PROVE engine[i].root.access # Blank
    <3>1. i \in Preloaded /\ engine[i].root.access = Seed[i].access
      BY <2>2 DEF Init, VaultInit, Unmounted
    <3> QED
      BY <3>1, DomainAssumption DEF SeedEntry
  <2> QED
    BY <2>1, <2>2 DEF Init, KeysKept, Unread
<1>2. RowsInv /\ Exercised /\ RowsOwn /\ KeysKept /\ [Next]_vars => RowsOwn' /\ KeysKept'
  <2>1. UNCHANGED vars => (RowsOwn /\ KeysKept => RowsOwn' /\ KeysKept')
    BY DEF vars, RowsOwn, KeysKept, Targeted, Kind, Target
  <2> QED
    BY <2>1, NextRowsOwn, NextKeysKept DEF Next, RowsInv
<1> QED
  BY <1>1, <1>2, RowsInvHolds, ExercisedHolds, NamesKeptHolds, PTL DEF Spec, Unpatched
------------------------------------------------------------------------------
(***************************************************************************)
(* What a list shows of a connection.                                      *)
(***************************************************************************)
\* An entry of a page, of a connection with an id and without a PATCH.
OfOwn(e) == e.id \in Ids /\ ~Targeted(e.id, {"update"})

\* Its connection has been posted; it has its row, or is removed; the second query
\* looks for its own row; its name is the given one, or it is removed.
Made(e)    == e.id \in Req => Over(e.id)
There(e)   == OfOwn(e) => aws[e.id] # NoRow \/ Removed(e.id)
OwnFk(e)   == OfOwn(e) => e.fk = e.id
HasGiven(e) == OfOwn(e) => e.row.name = GivenName(e.id)
GivenOrGone(e) == OfOwn(e) => e.row.name = GivenName(e.id) \/ Removed(e.id)

\* What Vault was asked for, if it answers, is there.
Untouched(e) == ~Flaky /\ e.id \in Ids /\ ~Targeted(e.id, {"update", "delete"})
WithKey(e)  == Untouched(e) => e.access # Blank
WithType(e) == Untouched(e) => e.ctype # Blank

\* Row n of the page is read, or is being read and at one of these calls.
Past(n, stages) ==
    \/ step = "answer"
    \/ step \in ReadStages /\ n < at
    \/ step \in stages /\ n = at

FilledAt(n, e) ==
    /\ Made(e)
    /\ list = "aws" => There(e)
    /\ step = "preload" => OwnFk(e)
    /\ step \in ReadStages => GivenOrGone(e)
    /\ Past(n, {"get_rolename", "get_role"}) => HasGiven(e)
    /\ list = "aws" /\ Past(n, ReadStages \ {"get_config"}) => WithKey(e)
    /\ list = "aws" /\ Past(n, {}) => WithType(e)

PageFilled == \A n \in DOMAIN page : FilledAt(n, page[n])

ShownFilled ==
    \A n \in DOMAIN shown :
        /\ Made(shown[n]) /\ HasGiven(shown[n])
        /\ list = "aws" => WithKey(shown[n]) /\ WithType(shown[n])

\* A step of a handler takes nothing back.
LEMMA EntriesStay ==
    ASSUME RegistryInv, NEW p \in Req, Start(p) \/ Step(p) \/ Crash(p), NEW e, Made(e)
    PROVE  /\ Made(e)'
           /\ There(e) => There(e)'
           /\ OwnFk(e) => OwnFk(e)'
           /\ HasGiven(e) => HasGiven(e)'
           /\ GivenOrGone(e) => GivenOrGone(e)'
           /\ WithKey(e) => WithKey(e)'
           /\ WithType(e) => WithType(e)'
<1> USE DEF RegistryInv, TablesInv
<1>1. Made(e)'
  BY OverStays DEF Made, Ids
<1>2. OfOwn(e)' => OfOwn(e)
  BY UntargetedBefore DEF OfOwn
<1>3. Untouched(e)' => Untouched(e)
  BY UntargetedBefore DEF Untouched
<1>4. OfOwn(e)' => (aws[e.id] # NoRow \/ Removed(e.id) => aws'[e.id] # NoRow \/ Removed(e.id)')
  BY RemovedStays DEF OfOwn
<1>5. OfOwn(e)' => (Removed(e.id) => Removed(e.id)')
  BY RemovedStays DEF OfOwn
<1>6. e.id \in Ids => GivenName(e.id)' = GivenName(e.id)
  <2>1. ASSUME e.id = p, Strange(p, p), Unknown(p), Start(p) PROVE FALSE
    BY <2>1 DEF Made, Over, Start, At
  <2> QED
    BY <2>1, GivenStays
<1>7. There(e) => There(e)'
  BY <1>2, <1>4 DEF There
<1>8. HasGiven(e) => HasGiven(e)'
  BY <1>2, <1>6 DEF HasGiven, OfOwn
<1>9. GivenOrGone(e) => GivenOrGone(e)'
  BY <1>2, <1>5, <1>6 DEF GivenOrGone, OfOwn
<1> QED
  BY <1>1, <1>2, <1>3, <1>7, <1>8, <1>9 DEF OwnFk, WithKey, WithType

\* Nor does a step of the list.
LEMMA EntriesRest ==
    ASSUME UNCHANGED vars, NEW e
    PROVE  /\ Made(e) => Made(e)'
           /\ There(e) => There(e)'
           /\ OwnFk(e) => OwnFk(e)'
           /\ HasGiven(e) => HasGiven(e)'
           /\ GivenOrGone(e) => GivenOrGone(e)'
           /\ WithKey(e) => WithKey(e)'
           /\ WithType(e) => WithType(e)'
  BY DEF vars, Made, There, OwnFk, HasGiven, GivenOrGone, WithKey, WithType, OfOwn, Untouched, Over,
     Removed, GivenName, Targeted, Kind, Target

\* The row and the engine that a list finds of an entry, now.
LEMMA FindsRow ==
    ASSUME Inv, Unpatched, NEW e, There(e), e.id \in Ids, OfOwn(e), ~Removed(e.id)
    PROVE  /\ aws[e.id] = e.id
           /\ conns[e.id] # NoRow /\ conns[e.id].name = GivenName(e.id)
<1>1. aws[e.id] # NoRow
  BY DEF There
<1>2. conns[e.id] # NoRow /\ aws[e.id] = e.id /\ HasName(conns[e.id], e.id)
  BY <1>1 DEF Unpatched, RowsOwn, NamesKept, OfOwn
<1>3. conns[e.id] # NoWrite
  BY DomainAssumption DEF Inv, TypeOK, StoreTypeOK, CIds
<1> QED
  BY <1>1, <1>2, <1>3 DEF HasName

\* Of an entry that is there, Vault has the whole engine.
LEMMA FindsEngine ==
    ASSUME Beside, Unpatched, NEW e, Untouched(e), aws[e.id] # NoRow
    PROVE  /\ engine[e.id].root # None /\ engine[e.id].root.access # Blank
           /\ engine[e.id].role # None /\ engine[e.id].role.ctype # Blank
<1>1. Complete(engine[e.id]) /\ ~Targeted(e.id, {"update"})
  BY DEF Beside, PublishedIsComplete, Untouched, Targeted
<1>2. engine[e.id] \in Engine
  BY DEF Untouched, Beside, RowsInv, RegistryInv, TablesInv, Inv, TypeOK, VaultTypeOK
<1>3. engine[e.id].role.ctype \in CredentialTypes
  BY <1>1, <1>2 DEF Complete, Engine, Role
<1> QED
  BY <1>1, <1>3 DEF Unpatched, KeysKept, Complete, Untouched, CredentialTypes, Blank

\* A row of the table, as the first query returns it.
LEMMA FetchFills ==
    ASSUME Beside, Unpatched, Shaped, Fetch, NEW n \in DOMAIN page', NEW e, e = page'[n]
    PROVE  FilledAt(n, e)'
<1> USE DEF Beside, RowsInv, RegistryInv, TablesInv, Inv
<1>1. /\ UNCHANGED <<vars, list>> /\ e.id \in Table /\ e = Fetched(e.id)
      /\ step' \in {"end", "preload", "answer"} /\ (step' = "answer" => list # "aws")
  BY FetchEffect
<1>2. aws[e.id] # NoRow \/ conns[e.id] # NoRow
  BY <1>1 DEF Table
<1>3. Made(e)
  BY <1>2, RowsAreMade DEF Made, Ids
<1>4. list = "aws" => There(e) /\ OwnFk(e)
  <2>1. list = "aws" => aws[e.id] # NoRow /\ e.fk = aws[e.id]
    BY <1>1 DEF Table, Fetched
  <2>2. OfOwn(e) => aws[e.id] \in {e.id, NoRow}
    BY DEF OfOwn, Unpatched, RowsOwn
  <2> QED
    BY <2>1, <2>2 DEF There, OwnFk
<1>5. list # "aws" => HasGiven(e)
  <2>1. list # "aws" => conns[e.id] # NoRow /\ e.row = conns[e.id]
    BY <1>1 DEF Table, Fetched
  <2>2. OfOwn(e) => HasName(conns[e.id], e.id)
    BY DEF OfOwn, Unpatched, NamesKept
  <2>3. OfOwn(e) => conns[e.id] # NoWrite
    BY DomainAssumption DEF OfOwn, TypeOK, StoreTypeOK, CIds
  <2> QED
    BY <2>1, <2>2, <2>3 DEF HasGiven, HasName
<1>6. Made(e)' /\ (list = "aws" => There(e)' /\ OwnFk(e)') /\ (list # "aws" => HasGiven(e)')
  BY <1>1, <1>3, <1>4, <1>5, EntriesRest
<1>7. step' = "preload" => list = "aws"
  BY <1>1, FetchEffect
<1> QED
  BY <1>1, <1>6, <1>7 DEF FilledAt, Past, ReadStages

\* An entry as the second query completes it.
LEMMA PreloadFills ==
    ASSUME Beside, Unpatched, Shaped, PageFilled, Preload,
           NEW n \in DOMAIN page', NEW e, e = page'[n]
    PROVE  FilledAt(n, e)'
<1> USE DEF Beside, RowsInv, RegistryInv, TablesInv
<1> DEFINE d == page[n]
<1>1. /\ step = "preload" /\ step' = "get_config" /\ UNCHANGED <<vars, list, at>>
      /\ n \in DOMAIN page /\ list = "aws" /\ at = 1
      /\ e.id = d.id
      /\ e.row = IF conns[d.fk] = NoRow THEN ZeroRow ELSE conns[d.fk]
  <2>1. n \in DOMAIN page /\ page[n] \in Entry
    BY DEF Preload, Shaped
  <2> QED
    BY <2>1 DEF Preload, Shaped, Entry
<1>2. Made(d) /\ There(d) /\ OwnFk(d) /\ n \in Nat /\ ~(n < at)
  BY <1>1 DEF PageFilled, FilledAt, Shaped
<1>3. GivenOrGone(e)
  BY <1>1, <1>2, FindsRow DEF GivenOrGone, OfOwn, OwnFk, There
<1>4. Made(e) /\ There(e)
  BY <1>1, <1>2 DEF Made, There, OfOwn
<1>5. Made(e)' /\ There(e)' /\ GivenOrGone(e)'
  BY <1>1, <1>3, <1>4, EntriesRest
<1> QED
  BY <1>1, <1>2, <1>5 DEF FilledAt, Past, ReadStages

\* An entry while the engines of the page are read.
LEMMA ReadFills ==
    ASSUME Beside, Unpatched, Shaped, PageIsThere, PageFilled,
           ListConfig \/ ListLease \/ ListRoleName \/ ListRole \/ (ListBreaks /\ step # "preload"),
           NEW n \in DOMAIN page', NEW e, e = page'[n]
    PROVE  FilledAt(n, e)'
<1> USE DEF Beside, RowsInv, RegistryInv, TablesInv
<1> DEFINE d == page[n]
<1>1. Rewrites /\ step # "preload"
  BY PageIsRewritten DEF Inv, ListConfig, ListLease, ListRoleName, ListRole
<1>2. /\ UNCHANGED <<vars, list>> /\ n \in DOMAIN page /\ e.id = d.id /\ e.row = d.row
      /\ (n # at \/ step # "get_config" => e.access = d.access)
      /\ (n # at \/ step # "get_role" => e.ctype = d.ctype)
      /\ n \in Nat /\ at \in Nat
  BY <1>1 DEF Rewrites, Shaped
<1>3. FilledAt(n, d)
  BY <1>2 DEF PageFilled
<1>4. Made(e) /\ (list = "aws" => There(e))
  BY <1>2, <1>3 DEF FilledAt, Made, There, OfOwn
<1>5. GivenOrGone(d) => GivenOrGone(e)
  BY <1>2 DEF GivenOrGone, OfOwn
<1>6. HasGiven(d) => HasGiven(e)
  BY <1>2 DEF HasGiven, OfOwn
<1>7. WithKey(d) /\ e.access = d.access => WithKey(e)
  BY <1>2 DEF WithKey, Untouched
<1>8. WithType(d) /\ e.ctype = d.ctype => WithType(e)
  BY <1>2 DEF WithType, Untouched
<1>9. ASSUME n = at, step \in ReadStages, Untouched(e)
      PROVE  /\ engine[e.id].root # None /\ engine[e.id].root.access # Blank
             /\ engine[e.id].role # None /\ engine[e.id].role.ctype # Blank
  <2>1. aws[e.id] # NoRow
    BY <1>2, <1>9 DEF Shaped, PageIsThere, Untouched, Targeted
  <2> QED
    BY <1>9, <2>1, FindsEngine
<1>10. CASE ListBreaks
  <2>1. step' = "broken"
    BY <1>10 DEF ListBreaks
  <2>2. Made(e)' /\ (list = "aws" => There(e)')
    BY <1>2, <1>4, EntriesRest
  <2> QED
    BY <1>2, <2>1, <2>2 DEF FilledAt, Past, ReadStages
<1>11. CASE ListConfig
  <2>1. step = "get_config" /\ step' = "get_lease" /\ at' = at /\ list = "aws"
    BY <1>11 DEF ListConfig, Shaped, ReadStages
  <2>2. n = at => WithKey(e)
    <3> SUFFICES ASSUME n = at, Untouched(e) PROVE e.access # Blank
      BY DEF WithKey
    <3>1. engine[e.id].root # None /\ engine[e.id].root.access # Blank
      BY <1>9, <2>1 DEF ReadStages
    <3>2. page' = [page EXCEPT ![at].access = engine[e.id].root.access]
      BY <1>2, <1>11, <3>1 DEF ListConfig, Mount, Untouched
    <3>3. page \in Seq(Entry) /\ page[n] \in Entry /\ n \in DOMAIN page
      BY <1>2 DEF Shaped
    <3>4. page'[n].access = engine[e.id].root.access
      BY <3>2, <3>3 DEF Entry
    <3> QED
      BY <3>1, <3>4
  <2>3. GivenOrGone(e) /\ (n < at => HasGiven(e) /\ WithKey(e) /\ WithType(e))
    BY <1>2, <1>3, <1>5, <1>6, <1>7, <1>8, <2>1 DEF FilledAt, Past, ReadStages
  <2>4. /\ Made(e)' /\ There(e)' /\ GivenOrGone(e)'
        /\ n < at => HasGiven(e)' /\ WithKey(e)' /\ WithType(e)'
        /\ n = at => WithKey(e)'
    BY <1>2, <1>4, <2>1, <2>2, <2>3, EntriesRest
  <2> QED
    BY <1>2, <2>1, <2>4 DEF FilledAt, Past, ReadStages
<1>12. CASE ListLease \/ ListRoleName
  <2>1. /\ step \in ReadStages \ {"get_config", "get_role"} /\ at' = at /\ list = "aws"
        /\ step' \in {"get_rolename", "get_role", "failed"}
        /\ step' = "get_rolename" => engine[page[at].id].mounted
        /\ step' = "get_role" => step = "get_rolename"
    BY <1>12 DEF ListLease, ListRoleName, Shaped, ReadStages, Mount
  <2>2. /\ GivenOrGone(e) /\ (n < at => HasGiven(e) /\ WithKey(e) /\ WithType(e))
        /\ n = at => WithKey(e)
    BY <1>2, <1>3, <1>5, <1>6, <1>7, <1>8, <2>1 DEF FilledAt, Past, ReadStages
  <2>3. n = at /\ step' # "failed" => HasGiven(e)
    <3>1. n = at /\ step' = "get_rolename" => HasGiven(e)
      BY <1>2, <2>1, <2>2 DEF GivenOrGone, Removed, HasGiven
    <3>2. n = at /\ step' = "get_role" => HasGiven(e)
      BY <1>2, <1>3, <1>6, <2>1 DEF FilledAt, Past, ReadStages
    <3> QED
      BY <2>1, <3>1, <3>2
  <2>4. /\ Made(e)' /\ There(e)' /\ GivenOrGone(e)'
        /\ n < at => HasGiven(e)' /\ WithKey(e)' /\ WithType(e)'
        /\ n = at => WithKey(e)'
        /\ n = at /\ step' # "failed" => HasGiven(e)'
    BY <1>2, <1>4, <2>1, <2>2, <2>3, EntriesRest
  <2> QED
    BY <1>2, <2>1, <2>4 DEF FilledAt, Past, ReadStages
<1>13. CASE ListRole
  <2>1. /\ step = "get_role" /\ at' = at + 1 /\ list = "aws"
        /\ step' = IF at = Len(page) THEN "answer" ELSE "get_config"
    BY <1>13 DEF ListRole, Shaped, ReadStages
  <2>2. n = at => WithType(e)
    <3> SUFFICES ASSUME n = at, Untouched(e) PROVE e.ctype # Blank
      BY DEF WithType
    <3>1. engine[e.id].role # None /\ engine[e.id].role.ctype # Blank
      BY <1>9, <2>1 DEF ReadStages
    <3>2. page' = [page EXCEPT ![at].ctype = engine[e.id].role.ctype]
      BY <1>2, <1>13, <3>1 DEF ListRole, Mount, Untouched
    <3>3. page \in Seq(Entry) /\ page[n] \in Entry /\ n \in DOMAIN page
      BY <1>2 DEF Shaped
    <3>4. page'[n].ctype = engine[e.id].role.ctype
      BY <3>2, <3>3 DEF Entry
    <3> QED
      BY <3>1, <3>4
  <2>3. /\ GivenOrGone(e)
        /\ n <= at => HasGiven(e) /\ WithKey(e) /\ WithType(e)
    BY <1>2, <1>3, <1>5, <1>6, <1>7, <1>8, <2>1, <2>2 DEF FilledAt, Past, ReadStages
  <2>4. /\ Made(e)' /\ There(e)' /\ GivenOrGone(e)'
        /\ n <= at => HasGiven(e)' /\ WithKey(e)' /\ WithType(e)'
    BY <1>2, <1>4, <2>1, <2>3, EntriesRest
  <2>5. step' = "answer" => n <= at
    BY <1>2, <2>1 DEF Shaped
  <2> QED
    BY <1>2, <2>1, <2>4, <2>5 DEF FilledAt, Past, ReadStages
<1> QED
  BY <1>10, <1>11, <1>12, <1>13

\* The entries of the page are filled in as far as the list has come.
LEMMA NextPageFilled ==
    ASSUME Beside, Unpatched, Shaped, PageIsThere, PageFilled, [ListNext]_listingVars
    PROVE  PageFilled'
<1> USE DEF Beside, RowsInv, RegistryInv, TablesInv
<1> SUFFICES ASSUME NEW n \in DOMAIN page', NEW e, e = page'[n]
             PROVE  FilledAt(n, e)'
  BY DEF PageFilled, FilledAt, Made, There, OwnFk, HasGiven, GivenOrGone, WithKey, WithType, OfOwn,
     Untouched
<1>1. CASE UNCHANGED listVars
  <2>1. n \in DOMAIN page /\ FilledAt(n, e) /\ UNCHANGED <<list, step, at>>
    BY <1>1 DEF listVars, PageFilled
  <2>2. Made(e)
    BY <2>1 DEF FilledAt
  <2>3. /\ Made(e)'
        /\ There(e) => There(e)'
        /\ OwnFk(e) => OwnFk(e)'
        /\ HasGiven(e) => HasGiven(e)'
        /\ GivenOrGone(e) => GivenOrGone(e)'
        /\ WithKey(e) => WithKey(e)'
        /\ WithType(e) => WithType(e)'
    <3>1. CASE UNCHANGED vars
      BY <2>2, <3>1, EntriesRest
    <3>2. CASE \E p \in Req : Start(p) \/ Step(p) \/ Crash(p)
      BY <2>2, <3>2, EntriesStay
    <3> QED
      BY <3>1, <3>2, ListCases DEF listingVars
  <2> QED
    BY <2>1, <2>3 DEF FilledAt, Past
<1>2. CASE Fetch
  BY <1>2, FetchFills
<1>3. CASE Preload
  BY <1>3, PreloadFills
<1>4. CASE ListConfig \/ ListLease \/ ListRoleName \/ ListRole \/ (ListBreaks /\ step # "preload")
  BY <1>4, ReadFills
<1>5. CASE ListBreaks /\ step = "preload"
  <2>1. /\ n \in DOMAIN page /\ FilledAt(n, e) /\ UNCHANGED <<vars, list, at>>
        /\ step' = "broken" /\ list = "aws"
    BY <1>5 DEF ListBreaks, PageFilled, Shaped
  <2>2. Made(e)' /\ There(e)'
    BY <2>1, EntriesRest DEF FilledAt
  <2> QED
    BY <2>1, <2>2 DEF FilledAt, Past, ReadStages
<1>6. CASE Answer
  BY <1>6 DEF Answer
<1> QED
  BY <1>1, <1>2, <1>3, <1>4, <1>5, <1>6, ListCases DEF ListStep, listingVars, listVars

\* What was shown stays filled in.
LEMMA NextShownFilled ==
    ASSUME Beside, Shaped, PageFilled, ShownFilled, [ListNext]_listingVars
    PROVE  ShownFilled'
<1> USE DEF Beside, RowsInv, RegistryInv, TablesInv
<1> SUFFICES ASSUME NEW n \in DOMAIN shown', NEW e, e = shown'[n]
             PROVE  Made(e)' /\ HasGiven(e)' /\ (list' = "aws" => WithKey(e)' /\ WithType(e)')
  BY DEF ShownFilled, Made, HasGiven, WithKey, WithType, OfOwn, Untouched
<1>1. list' = list
  BY DEF ListNext, ListStep, Fetch, Preload, Answer, ListBreaks, ListConfig, ListLease,
     ListRoleName, ListRole, listingVars, listVars
<1>2. Made(e) /\ HasGiven(e) /\ (list = "aws" => WithKey(e) /\ WithType(e))
  <2>1. CASE shown' = shown
    BY <2>1 DEF ShownFilled
  <2>2. CASE Answer
    <3>1. (n \in DOMAIN shown /\ e = shown[n]) \/ \E m \in DOMAIN page : e = page[m]
      <4>1. shown' = shown \o page /\ shown \in Seq(Entry) /\ page \in Seq(Entry)
        BY <2>2 DEF Answer, Shaped
      <4>2. /\ n \in 1 .. Len(shown) + Len(page)
            /\ e = IF n <= Len(shown) THEN shown[n] ELSE page[n - Len(shown)]
        BY <4>1
      <4>3. Len(shown) \in Nat /\ Len(page) \in Nat
        BY <4>1
      <4>4. n > Len(shown) => n - Len(shown) \in 1 .. Len(page)
        BY <4>2, <4>3
      <4> QED
        BY <4>1, <4>2, <4>3, <4>4
    <3>2. \A m \in DOMAIN page : /\ Made(page[m]) /\ HasGiven(page[m])
                                 /\ list = "aws" => WithKey(page[m]) /\ WithType(page[m])
      BY <2>2 DEF Answer, PageFilled, FilledAt, Past
    <3> QED
      BY <3>1, <3>2 DEF ShownFilled
  <2> QED
    BY <2>1, <2>2, ListCases, FetchEffect, PageIsRewritten
    DEF ListStep, listingVars, listVars, Rewrites, Inv
<1>3. CASE UNCHANGED vars
  BY <1>1, <1>2, <1>3, EntriesRest
<1>4. CASE \E p \in Req : Start(p) \/ Step(p) \/ Crash(p)
  BY <1>1, <1>2, <1>4, EntriesStay
<1> QED
  BY <1>3, <1>4, ListCases DEF listingVars

\* What is shown is filled in.
LEMMA FilledHolds == ListSpec => []ShownFilled
<1>1. ListInit => PageIsThere /\ PageFilled /\ ShownFilled
  BY DEF ListInit, PageIsThere, PageFilled, ShownFilled
<1>2. Beside /\ Unpatched /\ Shaped /\ PageIsThere /\ PageFilled /\ ShownFilled
      /\ [ListNext]_listingVars => PageIsThere' /\ PageFilled' /\ ShownFilled'
  BY NextPageIsThere, NextPageFilled, NextShownFilled
<1> QED
  BY <1>1, <1>2, ListIsSpec, BesideHolds, UnpatchedHolds, ShapedHolds, PTL DEF ListSpec

\* Every connection that a list shows has its name, unless it is patched, and its
\* key and type, unless it is patched or deleted, or Vault fails: whatever commits
\* between the two queries of the list and its calls to Vault.
THEOREM ListShowsWhole == ListSpec => []ShownIsWhole
<1>1. Beside /\ Shaped /\ ShownFilled => ShownIsWhole
  <2> SUFFICES ASSUME Beside, Shaped, ShownFilled, NEW n \in DOMAIN shown, NEW e, e = shown[n],
                      e.id # ZeroId
               PROVE  /\ Targeted(e.id, {"update"}) \/ e.row.name # Blank
                      /\ \/ list = "generic"
                         \/ Flaky
                         \/ Targeted(e.id, {"update", "delete"})
                         \/ e.access # Blank /\ e.ctype # Blank
    BY DEF ShownIsWhole
  <2>1. e.id \in Ids /\ list \in {"aws", "generic"}
    <3>1. e \in Entry
      BY DEF Shaped
    <3> QED
      BY <3>1 DEF Shaped, Entry, CIds
  <2>2. Made(e) /\ HasGiven(e) /\ (list = "aws" => WithKey(e) /\ WithType(e))
    BY DEF ShownFilled
  <2>3. GivenName(e.id) \in Names
    BY <2>1, <2>2, GivenIsName DEF Made, Over, Ids, Beside, RowsInv
  <2>4. Targeted(e.id, {"update"}) \/ e.row.name # Blank
    BY <2>1, <2>2, <2>3, DomainAssumption DEF HasGiven, OfOwn
  <2>5. list = "aws" /\ ~Flaky /\ ~Targeted(e.id, {"update", "delete"})
          => e.access # Blank /\ e.ctype # Blank
    BY <2>1, <2>2 DEF WithKey, WithType, Untouched
  <2> QED
    BY <2>1, <2>4, <2>5
<1> QED
  BY <1>1, FilledHolds, BesideHolds, ShapedHolds, PTL
------------------------------------------------------------------------------
(***************************************************************************)
(* The unique index on names.                                              *)
(***************************************************************************)
\* Nobody patches, and nobody writes back what somebody deletes.
Calm == NoneAsked({"update"}) /\ \A i \in Ids : ~Contended(i)

\* Connection k has a row, or a POST has written it and not committed.
Claimed(k) == conns[k] # NoRow \/ (k \in Req /\ Kind(k) = "add" /\ HasConn(k))

NamesDistinct ==
    Calm => \A j, k \in Ids :
        Claimed(j) /\ Claimed(k) /\ GivenName(j) = GivenName(k) => j = k

\* It was calm before.
LEMMA CalmBefore ==
    ASSUME RegistryInv, NEW p \in Req, Start(p) \/ Step(p) \/ Crash(p), Calm'
    PROVE  Calm
<1>1. NoneAsked({"update"})
  BY UntargetedBefore DEF Calm, NoneAsked
<1>2. ASSUME NEW i \in Ids PROVE ~Contended(i)
  BY UntargetedBefore DEF Calm, Contended, WriteBack
<1> QED
  BY <1>1, <1>2 DEF Calm

\* Then only the COMMIT of a POST adds a row of connections.
LEMMA RowIsNew ==
    ASSUME RowsInv, Calm, NEW p \in Req, Start(p) \/ Step(p) \/ Crash(p), NEW k \in Ids,
           conns[k] = NoRow, conns'[k] # NoRow
    PROVE  k = p /\ Kind(p) = "add" /\ CommitTx(p) /\ HasConn(p)
<1> USE DEF RowsInv, RegistryInv, TablesInv
<1>1. k \in CIds /\ k # ZeroId
  BY DomainAssumption DEF CIds
<1>2. /\ UNCHANGED call /\ k = loc[p].cid
      /\ \/ CommitTx(p) /\ Apply(p) /\ (conns'[k] = NoRow <=> Kind(p) = "delete")
         \/ SaveRow(p) /\ conns'[k] # NoRow
  BY <1>1, ConnsChange
<1>3. Target(p) = k
  BY <1>1, <1>2 DEF OwnKeys
<1>4. ~Contended(Target(p))
  BY <1>3 DEF Calm
<1>5. CASE SaveRow(p)
  <2>1. Kind(p) # "delete"
    BY <1>5 DEF SaveRow, CanExecute, At, Inv, WellFormed, Serving
  <2>2. aws[k] # NoRow
    BY <1>3, <1>4, <1>5, <2>1, WritesItsOwn
  <2> QED
    BY <1>3, <1>4, <2>2 DEF RowsPaired, RowsAgree
<1>6. CASE CommitTx(p) /\ Apply(p) /\ Kind(p) # "delete"
  <2>1. pc[p] = "commit" /\ Kind(p) \in {"add", "update", "delete"}
    BY <1>6 DEF CommitTx, At, Inv, WellFormed, Serving, Mutating
  <2>2. Kind(p) # "update"
    BY <1>3 DEF Calm, NoneAsked, Targeted
  <2>3. Kind(p) = "add" /\ Target(p) = p /\ HasConn(p)
    BY <1>6, <2>1, <2>2 DEF HasConn, Inv, WellFormed
  <2> QED
    BY <1>3, <1>6, <2>3
<1> QED
  BY <1>2, <1>5, <1>6

\* A connection with a name is claimed by the POST that writes its row, and the
\* index has seen that nobody else claims it.
LEMMA ClaimIsNew ==
    ASSUME RowsInv, RowsInv', Unpatched, Calm, NEW p \in Req, Step(p) \/ Crash(p), NEW k \in Ids,
           ~Claimed(k), Claimed(k)'
    PROVE  \A j \in Ids \ {k} : Claimed(j) => GivenName(j) # GivenName(k)
<1> USE DEF RowsInv, RegistryInv, TablesInv, Unpatched
<1>1. UNCHANGED call
  BY CallIsFixed
<1>2. conns[k] = NoRow
  BY DEF Claimed
<1>3. conns'[k] = NoRow
  BY <1>2, RowIsNew DEF Claimed
<1>4. k \in Req /\ Kind(k) = "add" /\ HasConn(k)' /\ ~HasConn(k)
  BY <1>1, <1>3 DEF Claimed, Kind
<1>5. k = p
  BY <1>1, <1>4, StepIsLocal DEF Others, HasConn, Kind
<1>6. k \in CIds
  BY DEF CIds
<1>7. /\ \A c \in CIds : tx[k].conns[c] = NoWrite
      /\ tx'[k].conns[k] # NoWrite /\ tx'[k].conns[k] # NoRow
  <2>1. PairPending(k) /\ PairPending(k)' /\ WritesOwn(k)'
    BY <1>4
  <2>2. loc'[k].cid = k
    BY <1>1, <1>4, <2>1 DEF WritesOwn, HasConn, Kind, Unread, AddStages
  <2> QED
    BY <1>1, <1>4, <1>6, <2>1, <2>2 DEF PairPending, Kind
<1>8. /\ k = loc[k].cid
      /\ ConnOwners(k, k, loc[k].row) = {} /\ ~NameTaken(k, k, loc[k].row)
  BY <1>5, <1>6, <1>7, WrittenEffect
<1>9. ~Targeted(k, {"update"}) /\ loc[k].row.name = GivenName(k) /\ loc[k].row # NoRow
  <2>1. ~Targeted(k, {"update"}) /\ loc[k].row \in Row
    BY <1>4 DEF Calm, NoneAsked, Inv, TypeOK, Local
  <2> QED
    BY <1>4, <1>8, <2>1, DomainAssumption DEF NamesKept
<1>10. ASSUME NEW j \in Ids \ {k}, Claimed(j), GivenName(j) = GivenName(k)
       PROVE  FALSE
  <2>1. j \in CIds \ {k} /\ ~Targeted(j, {"update"})
    BY DEF CIds, Calm, NoneAsked
  <2>2. CASE conns[j] # NoRow
    <3>1. Named(conns[j], loc[k].row.name)
      <4>1. conns[j] # NoWrite
        BY <2>1, DomainAssumption DEF Inv, TypeOK, StoreTypeOK
      <4> QED
        BY <1>9, <1>10, <2>1, <2>2, <4>1 DEF NamesKept, HasName, Named
    <3>2. ConnsSeenBy(k)[j] = conns[j]
      BY <1>7, <2>1 DEF ConnsSeenBy, Overlay, Inv, TypeOK, StoreTypeOK
    <3> QED
      BY <1>8, <2>1, <3>1, <3>2 DEF NameTaken
  <2>3. CASE j \in Req /\ Kind(j) = "add" /\ HasConn(j)
    <3>1. loc[j].cid = j /\ PairPending(j)
      BY <2>3 DEF WritesOwn, HasConn, Unread, AddStages
    <3>2. tx[j].conns[j] # NoWrite /\ tx[j].conns[j] # NoRow
      BY <2>1, <2>3, <3>1 DEF PairPending
    <3>3. Named(tx[j].conns[j], loc[k].row.name)
      BY <1>9, <1>10, <2>1, <2>3, <3>2 DEF NamesKept, HasName, Named
    <3> QED
      BY <1>8, <1>9, <2>1, <2>3, <3>2, <3>3 DEF ConnOwners
  <2> QED
    BY <1>10, <2>2, <2>3 DEF Claimed
<1> QED
  BY <1>10

\* No step gives a name twice.
LEMMA NextDistinct ==
    ASSUME RowsInv, RowsInv', Unpatched, NamesDistinct, NEW p \in Req,
           Start(p) \/ Step(p) \/ Crash(p)
    PROVE  NamesDistinct'
<1> USE DEF RowsInv, RegistryInv, TablesInv
<1> SUFFICES ASSUME Calm', NEW j \in Ids, NEW k \in Ids, Claimed(j)', Claimed(k)',
                    GivenName(j)' = GivenName(k)', j # k
             PROVE  FALSE
  BY DEF NamesDistinct
<1>1. Calm
  BY CalmBefore
<1>2. ~(Claimed(j) /\ Claimed(k) /\ GivenName(j) = GivenName(k))
  BY <1>1 DEF NamesDistinct
<1>3. CASE Start(p)
  <2>1. UNCHANGED <<conns, tx>> /\ pc'[p] \in Unread
    BY <1>3, StartEffect
  <2>2. ASSUME NEW i \in Ids, Claimed(i)' PROVE Claimed(i) /\ GivenName(i)' = GivenName(i)
    <3>1. i = p => conns[i] # NoRow
      BY <2>1, <2>2 DEF Claimed, HasConn, Unread, AddStages
    <3>2. i # p => Claimed(i)
      BY <1>3, <2>1, <2>2, StepIsLocal DEF Others, Claimed, HasConn, Kind
    <3> QED
      BY <1>3, <3>1, <3>2, GivenStays DEF Unknown, Claimed
  <2> QED
    BY <1>2, <2>2
<1>4. CASE Step(p) \/ Crash(p)
  <2>1. \A i \in Ids : GivenName(i)' = GivenName(i)
    BY <1>4, CallIsFixed DEF GivenName
  <2>2. ~Claimed(j) \/ ~Claimed(k)
    BY <1>2, <2>1
  <2>3. ~Claimed(j) /\ ~Claimed(k)
    BY <1>1, <1>4, <2>1, <2>2, ClaimIsNew
  <2>4. ASSUME NEW i \in Ids, ~Claimed(i), Claimed(i)' PROVE i = p
    <3>1. conns'[i] = NoRow
      BY <1>1, <2>4, RowIsNew DEF Claimed
    <3> QED
      BY <1>4, <2>4, <3>1, CallIsFixed, StepIsLocal DEF Others, Claimed, HasConn, Kind
  <2> QED
    BY <2>3, <2>4
<1> QED
  BY <1>3, <1>4

\* No two connections that are there, or about to be, have the same name.
LEMMA DistinctHolds == Spec => []NamesDistinct
<1>1. Init => NamesDistinct
  <2> SUFFICES ASSUME Init, NEW j \in Ids, NEW k \in Ids, Claimed(j), Claimed(k),
                      GivenName(j) = GivenName(k)
               PROVE  j = k
    BY DEF NamesDistinct
  <2>1. ASSUME NEW i \in Ids, Claimed(i) PROVE i \in Preloaded
    <3>1. i \in Req => ~HasConn(i)
      BY DEF Init, HasConn, AddStages
    <3> QED
      BY <2>1, <3>1 DEF Claimed, Init, StoreInit, CIds
  <2> QED
    BY <2>1, ListAssumption DEF GivenName
<1>2. RowsInv /\ RowsInv' /\ Unpatched /\ NamesDistinct /\ [Next]_vars => NamesDistinct'
  <2>1. UNCHANGED vars => (NamesDistinct => NamesDistinct')
    BY DEF vars, NamesDistinct, Calm, NoneAsked, Contended, Claimed, GivenName, HasConn, Targeted,
       Kind, Target
  <2> QED
    BY <2>1, NextDistinct DEF Next
<1> QED
  BY <1>1, <1>2, RowsInvHolds, UnpatchedHolds, PTL DEF Spec
------------------------------------------------------------------------------
(***************************************************************************)
(* The order of the pages.                                                 *)
(***************************************************************************)
\* While it is calm the tables have the same ids, and each has its own name.
Orderly ==
    Calm => /\ Table = {i \in Ids : conns[i] # NoRow}
            /\ \A i \in Table : /\ Joined(i) # NoRow /\ Joined(i).name = GivenName(i)
                               /\ GivenName(i) \in Names
            /\ \A i, j \in Table : GivenName(i) = GivenName(j) => i = j

\* The two lists read the same connections as long as it is calm.
LEMMA OrderlyHolds == ListSpec => []Orderly
<1>1. Beside /\ Unpatched /\ NamesDistinct /\ Shaped => Orderly
  <2> SUFFICES ASSUME Beside, Unpatched, NamesDistinct, Shaped, Calm
               PROVE  /\ Table = {i \in Ids : conns[i] # NoRow}
                      /\ \A i \in Table : /\ Joined(i) # NoRow /\ Joined(i).name = GivenName(i)
                                         /\ GivenName(i) \in Names
                      /\ \A i, j \in Table : GivenName(i) = GivenName(j) => i = j
    BY DEF Orderly
  <2> USE DEF Beside, RowsInv, RegistryInv, TablesInv
  <2>1. conns[ZeroId] = NoRow /\ \A i \in Ids : RowsAgree(i) /\ i \in CIds
    BY DEF RowsPaired, Calm, CIds
  <2>2. Table = {i \in Ids : conns[i] # NoRow}
    BY <2>1 DEF Table, RowsAgree, CIds
  <2>3. ASSUME NEW i \in Table
        PROVE  Joined(i) # NoRow /\ Joined(i).name = GivenName(i) /\ GivenName(i) \in Names
    <3>1. i \in Ids /\ conns[i] # NoRow /\ ~Targeted(i, {"update"})
      BY <2>2 DEF Calm, NoneAsked
    <3>2. conns[i] # NoWrite
      BY <3>1, DomainAssumption DEF Inv, TypeOK, StoreTypeOK, CIds
    <3>3. Joined(i) = conns[i]
      BY <2>1, <3>1 DEF Joined, RowsAgree
    <3>4. i \in Preloaded \/ Kind(i) = "add"
      BY <3>1, RowsAreMade DEF Over, Ids
    <3>5. GivenName(i) \in Names
      BY <3>1, <3>4, GivenIsName
    <3> QED
      BY <3>1, <3>2, <3>3, <3>5 DEF Unpatched, NamesKept, HasName
  <2>4. \A i, j \in Table : GivenName(i) = GivenName(j) => i = j
    BY <2>2 DEF NamesDistinct, Claimed
  <2> QED
    BY <2>2, <2>3, <2>4
<1> QED
  BY <1>1, ListIsSpec, BesideHolds, UnpatchedHolds, DistinctHolds, ShapedHolds, PTL

\* The place of a connection in the order of names, and those before it.
Place(i) == Rank[GivenName(i)]
Lower(r) == {j \in Table : Place(j) < r}

\* They can be counted.
LEMMA LowerIsFinite ==
    ASSUME NEW r
    PROVE  IsFiniteSet(Lower(r)) /\ Cardinality(Lower(r)) \in Nat
<1>1. Lower(r) \in SUBSET Table
  BY DEF Lower
<1> QED
  BY <1>1, TableIsFinite, FS_Subset, FS_CardinalityType

\* A sorting is the table in the order of places: before row k there are k - 1 rows,
\* those of the lower places.
LEMMA CalmSorting ==
    ASSUME Orderly, Calm, NEW s \in Sortings, NEW k \in 1 .. Len(s)
    PROVE  /\ Len(s) \in Nat /\ s[k] \in Table /\ Place(s[k]) \in Nat
           /\ \A n \in 1 .. Len(s) : k < n => Place(s[k]) < Place(s[n])
           /\ Cardinality(Lower(Place(s[k]))) = k - 1
           /\ \A r \in Nat : Place(s[k]) <= r => k - 1 <= Cardinality(Lower(r))
<1>1. /\ s \in Seq(Table) /\ Len(s) \in Nat
      /\ \A m, n \in 1 .. Len(s) : m # n => s[m] # s[n]
      /\ \A x \in Table : \E n \in 1 .. Len(s) : s[n] = x
      /\ \A m, n \in 1 .. Len(s) : m < n => ~Before(s[n], s[m])
  BY SortingIs
<1>2. ASSUME NEW i \in Table
      PROVE  Place(i) \in Nat /\ Joined(i) # NoRow /\ Collation(Joined(i).name) = Place(i)
  <2>1. Joined(i) # NoRow /\ Joined(i).name = GivenName(i) /\ GivenName(i) \in Names
    BY DEF Orderly
  <2> QED
    BY <2>1, ListAssumption, DomainAssumption DEF Place, Collation
<1>3. ASSUME NEW i \in Table, NEW j \in Table, i # j PROVE Place(i) # Place(j)
  BY <1>3, ListAssumption DEF Orderly, Place
<1>4. ASSUME NEW m \in 1 .. Len(s), NEW n \in 1 .. Len(s), m < n PROVE Place(s[m]) < Place(s[n])
  <2>0. m # n
    BY <1>1, <1>4
  <2>1. s[m] \in Table /\ s[n] \in Table /\ s[m] # s[n]
    <3>1. \A i \in 1 .. Len(s) : s[i] \in Table
      BY <1>1
    <3>2. s[m] # s[n]
      BY <1>1, <2>0
    <3> QED
      BY <3>1, <3>2
  <2>2. ~(Place(s[n]) < Place(s[m]))
    BY <1>1, <1>2, <1>4, <2>1 DEF Before
  <2> QED
    BY <1>2, <1>3, <2>1, <2>2
<1>5. s[k] \in Table /\ k - 1 \in 0 .. Len(s) /\ k \in Nat
  BY <1>1
<1>6. \A x \in Lower(Place(s[k])) : \E n \in 1 .. k - 1 : s[n] = x
  <2> SUFFICES ASSUME NEW x \in Table, Place(x) < Place(s[k])
               PROVE  \E n \in 1 .. k - 1 : s[n] = x
    BY DEF Lower
  <2>1. PICK n \in 1 .. Len(s) : s[n] = x
    BY <1>1
  <2>2. ~(k < n) /\ n # k
    BY <1>2, <1>4, <1>5, <2>1
  <2> QED
    BY <1>5, <2>1, <2>2
<1>7. ASSUME NEW r \in Nat, Place(s[k]) <= r PROVE \A n \in 1 .. k - 1 : s[n] \in Lower(r)
  <2> SUFFICES ASSUME NEW n \in 1 .. k - 1 PROVE s[n] \in Table /\ Place(s[n]) < r
    BY DEF Lower
  <2>1. n \in 1 .. Len(s) /\ n < k
    BY <1>1
  <2>2. Place(s[n]) < Place(s[k]) /\ s[n] \in Table
    BY <1>1, <1>4, <2>1
  <2> QED
    BY <1>2, <1>5, <1>7, <2>2
<1>8. Cardinality(Lower(Place(s[k]))) <= k - 1
  BY <1>1, <1>5, <1>6, TableIsFinite, Counting
<1>9. ASSUME NEW r \in Nat, Place(s[k]) <= r PROVE k - 1 <= Cardinality(Lower(r))
  BY <1>1, <1>5, <1>7, <1>9, TableIsFinite, LowerIsFinite, Counting
<1>10. Place(s[k]) \in Nat
  BY <1>2, <1>5
<1>11. Cardinality(Lower(Place(s[k]))) = k - 1
  <2>1. k - 1 <= Cardinality(Lower(Place(s[k])))
    BY <1>9, <1>10
  <2> QED
    BY <1>5, <1>8, <2>1, LowerIsFinite
<1>12. \A n \in 1 .. Len(s) : k < n => Place(s[k]) < Place(s[n])
  BY <1>4
<1>13. \A r \in Nat : Place(s[k]) <= r => k - 1 <= Cardinality(Lower(r))
  BY <1>9
<1> QED
  BY <1>1, <1>5, <1>10, <1>11, <1>12, <1>13

\* What the client has, and what it will have with the page being made.
Served == shown \o page

\* Its elements are those of the pages that were shown, and then of the page.
LEMMA ServedIs ==
    ASSUME Shaped
    PROVE  /\ Served \in Seq(Entry) /\ Len(Served) = Len(shown) + Len(page)
           /\ DOMAIN Served = 1 .. Len(Served) /\ Len(shown) \in Nat /\ Len(page) \in Nat
           /\ \A n \in 1 .. Len(Served) :
                 Served[n] = IF n <= Len(shown) THEN shown[n] ELSE page[n - Len(shown)]
<1>1. shown \in Seq(Entry) /\ page \in Seq(Entry)
  BY DEF Shaped
<1> QED
  BY <1>1 DEF Served

\* Steps of the list other than the first query serve the same connections.
LEMMA ServedStays ==
    ASSUME Shaped, Shaped', Rewrites \/ Answer
    PROVE  /\ DOMAIN Served' = DOMAIN Served /\ Len(Served') = Len(Served)
           /\ \A n \in DOMAIN Served : Served'[n].id = Served[n].id
<1>1. /\ shown \in Seq(Entry) /\ page \in Seq(Entry)
      /\ shown' \in Seq(Entry) /\ page' \in Seq(Entry)
  BY DEF Shaped
<1>2. CASE Answer
  BY <1>1, <1>2 DEF Answer, Served
<1>3. CASE Rewrites
  <2>1. Len(page') = Len(page)
    BY <1>1, <1>3 DEF Rewrites
  <2> QED
    BY <1>1, <1>3, <2>1 DEF Rewrites, Served
<1> QED
  BY <1>2, <1>3

\* A POST of a name before that of connection i.
LowerAdd(i) == \E p \in Req : Kind(p) = "add" /\ Rank[call[p].body.name] < Place(i)

\* While the handlers rest, so does the order.
LEMMA OrderRests ==
    ASSUME UNCHANGED <<vars, list>>
    PROVE  /\ \A i : Place(i)' = Place(i) /\ (i \in Table' <=> i \in Table)
           /\ \A i : Lower(Place(i))' = Lower(Place(i)) /\ (LowerAdd(i)' <=> LowerAdd(i))
           /\ \A i \in Req : Over(i)' <=> Over(i)
           /\ Calm' => Calm
           /\ \A K : NoneAsked(K)' => NoneAsked(K)
<1>1. \A i : Place(i)' = Place(i) /\ (i \in Table' <=> i \in Table)
  BY DEF vars, Place, GivenName, Table
<1>2. \A i : Lower(Place(i))' = Lower(Place(i)) /\ (LowerAdd(i)' <=> LowerAdd(i))
  BY <1>1 DEF vars, Lower, LowerAdd, Kind
<1> QED
  BY <1>1, <1>2 DEF vars, Over, Calm, NoneAsked, Contended, Targeted, Kind, Target

\* A step of a handler gives no place to another connection, and only the COMMIT
\* of a POST adds a row.
LEMMA TableFollows ==
    ASSUME Beside, Orderly, Orderly', Calm', NEW p \in Req, Start(p) \/ Step(p) \/ Crash(p),
           NEW i \in Ids
    PROVE  /\ i \in Table => (i \in Req => Over(i))
           /\ (i \in Req => Over(i)) => (i \in Req => Over(i)') /\ Place(i)' = Place(i)
           /\ i \in Table' /\ i \notin Table =>
                 /\ i \in Req /\ Kind(i)' = "add"
                 /\ Place(i)' = Rank[call'[i].body.name]
<1> USE DEF Beside, RowsInv, RegistryInv, TablesInv
<1>1. Calm
  BY CalmBefore
<1>2. (i \in Table <=> conns[i] # NoRow) /\ (i \in Table' <=> conns'[i] # NoRow)
  BY <1>1 DEF Orderly
<1>3. i \in Table => (i \in Req => Over(i))
  BY <1>2, RowsAreMade
<1>4. (i \in Req => Over(i)) => (i \in Req => Over(i)') /\ Place(i)' = Place(i)
  <2> SUFFICES ASSUME i \in Req => Over(i) PROVE (i \in Req => Over(i)') /\ Place(i)' = Place(i)
    OBVIOUS
  <2>1. i \in Req => Over(i)' /\ i # p
    BY OverStays
  <2>2. GivenName(i)' = GivenName(i)
    BY <2>1, GivenStays
  <2> QED
    BY <2>1, <2>2 DEF Place
<1>5. ASSUME i \in Table', i \notin Table
      PROVE  i \in Req /\ Kind(i)' = "add" /\ Place(i)' = Rank[call'[i].body.name]
  <2>1. i = p /\ Kind(p) = "add" /\ CommitTx(p)
    BY <1>1, <1>2, <1>5, RowIsNew
  <2>2. UNCHANGED call /\ p \notin Preloaded
    BY <2>1, DomainAssumption DEF CommitTx
  <2> QED
    BY <2>1, <2>2 DEF Kind, Place, GivenName
<1> QED
  BY <1>3, <1>4, <1>5

\* Without a POST of a lower name, nothing comes before what is there.
LEMMA LowerShrinks ==
    ASSUME Beside, Orderly, Orderly', Calm', NEW p \in Req, Start(p) \/ Step(p) \/ Crash(p),
           NEW i \in Ids, i \in Req => Over(i), ~LowerAdd(i)'
    PROVE  ~LowerAdd(i) /\ Lower(Place(i))' \subseteq Lower(Place(i))
<1> USE DEF Beside, RowsInv, RegistryInv, TablesInv
<1>1. Place(i)' = Place(i)
  BY TableFollows
<1>2. ~LowerAdd(i)
  <2>1. ASSUME NEW q \in Req, Kind(q) = "add" PROVE call'[q] = call[q]
    <3>1. pc[q] # "idle"
      BY <2>1, NotSent
    <3> QED
      BY <3>1, StepIsLocal, CallIsFixed DEF Others, Start, At
  <2> QED
    BY <1>1, <2>1 DEF LowerAdd, Kind
<1>3. ASSUME NEW j \in Lower(Place(i))' PROVE j \in Lower(Place(i))
  <2>1. j \in Table' /\ Place(j)' < Place(i)'
    BY <1>3 DEF Lower
  <2>2. j \in Ids
    BY <2>1 DEF Orderly
  <2>3. j \in Table
    BY <2>1, <2>2, TableFollows DEF LowerAdd
  <2> QED
    BY <1>1, <2>1, <2>2, <2>3, TableFollows DEF Lower
<1> QED
  BY <1>2, <1>3

\* Without a DELETE, what is there stays, and what comes before it.
LEMMA LowerGrows ==
    ASSUME Beside, Orderly, Orderly', Calm', NoneAsked({"update", "delete"})',
           NEW p \in Req, Start(p) \/ Step(p) \/ Crash(p), NEW i \in Table
    PROVE  i \in Table' /\ Lower(Place(i)) \subseteq Lower(Place(i))'
<1> USE DEF Beside, RowsInv, RegistryInv, TablesInv
<1>1. Calm
  BY CalmBefore
<1>2. ASSUME NEW j \in Table PROVE j \in Table' /\ Place(j)' = Place(j)
  <2>1. j \in Ids /\ conns[j] # NoRow /\ j \in CIds /\ j # ZeroId
    BY <1>1, DomainAssumption DEF Orderly, CIds
  <2>2. conns'[j] # NoRow
    <3> SUFFICES ASSUME conns'[j] = NoRow PROVE FALSE
      OBVIOUS
    <3>1. UNCHANGED call /\ j = loc[p].cid /\ Kind(p) = "delete"
      BY <2>1, ConnsChange
    <3> QED
      BY <2>1, <3>1 DEF OwnKeys, NoneAsked, Targeted, Kind, Target
  <2> QED
    BY <2>1, <2>2, TableFollows DEF Orderly
<1> QED
  BY <1>2 DEF Lower

\* What the first query adds to what is served.
LEMMA FetchServes ==
    ASSUME TypeOK, Shaped, Shaped', Fetch
    PROVE  /\ page = << >> /\ Len(Served) = Len(shown) /\ Len(Served') = Len(shown) + Len(page')
           /\ Len(shown) \in Nat /\ Len(page') \in Nat
           /\ DOMAIN Served = 1 .. Len(Served) /\ DOMAIN Served' = 1 .. Len(Served')
           /\ \A n \in DOMAIN Served : Served'[n].id = Served[n].id
           /\ \E s \in Sortings :
                 /\ page' = << >> => Len(s) <= Len(shown)
                 /\ \A n \in Len(shown) + 1 .. Len(Served') :
                       n \in 1 .. Len(s) /\ s[n] \in Table /\ Served'[n].id = s[n]
<1>1. page = << >> /\ shown' = shown
  BY DEF Fetch, Shaped
<1>2. /\ shown \in Seq(Entry) /\ page' \in Seq(Entry)
      /\ Len(shown) \in Nat /\ Len(page') \in Nat
      /\ DOMAIN shown = 1 .. Len(shown) /\ DOMAIN page' = 1 .. Len(page')
  BY DEF Shaped
<1>3. Served = shown /\ Served' = shown \o page'
  BY <1>1, <1>2 DEF Served
<1>4. PICK s \in Sortings :
          /\ \A n \in DOMAIN page' :
                /\ n + Len(shown) \in 1 .. Len(s)
                /\ s[n + Len(shown)] \in Table
                /\ page'[n].id = s[n + Len(shown)]
          /\ page' = << >> => Len(s) <= Len(shown)
  BY FetchEffect
<1>5. /\ Len(Served') = Len(shown) + Len(page') /\ DOMAIN Served' = 1 .. Len(Served')
      /\ \A n \in 1 .. Len(shown) : Served'[n] = shown[n]
      /\ \A n \in Len(shown) + 1 .. Len(Served') : Served'[n] = page'[n - Len(shown)]
  BY <1>2, <1>3
<1>6. ASSUME NEW n \in Len(shown) + 1 .. Len(Served')
      PROVE  n \in 1 .. Len(s) /\ s[n] \in Table /\ Served'[n].id = s[n]
  <2>1. PICK k \in DOMAIN page' : k = n - Len(shown)
    BY <1>2, <1>5
  <2>2. k + Len(shown) = n
    BY <1>2, <2>1
  <2> QED
    BY <1>4, <1>5, <2>1, <2>2
<1> QED
  BY <1>1, <1>2, <1>3, <1>4, <1>5, <1>6

\* Unless a POST of a lower name was sent, there are fewer rows before what the
\* client has than it has got, and what it got next has higher places.
Ordered ==
    Calm => \A m \in DOMAIN Served, i \in CIds : Served[m].id = i =>
        /\ i \in Ids /\ (i \in Req => Over(i))
        /\ LowerAdd(i) \/ /\ Cardinality(Lower(Place(i))) < m
                          /\ \A n \in DOMAIN Served, j \in CIds :
                                m < n /\ Served[n].id = j => Place(i) < Place(j)

\* The first query goes on where the client is.
LEMMA FetchIsOrdered ==
    ASSUME Beside, Shaped, Shaped', Orderly, Ordered, Calm, Fetch, NEW m \in DOMAIN Served',
           NEW i \in CIds, Served'[m].id = i
    PROVE  /\ i \in Ids /\ (i \in Req => Over(i))
           /\ LowerAdd(i) \/ /\ Cardinality(Lower(Place(i))) < m
                             /\ \A n \in DOMAIN Served', j \in CIds :
                                   m < n /\ Served'[n].id = j => Place(i) < Place(j)
<1> USE DEF Beside, RowsInv, RegistryInv, TablesInv, Inv
<1>1. /\ Len(Served) = Len(shown) /\ Len(shown) \in Nat /\ Len(Served') \in Nat
      /\ DOMAIN Served = 1 .. Len(Served) /\ DOMAIN Served' = 1 .. Len(Served')
      /\ \A n \in DOMAIN Served : Served'[n].id = Served[n].id
  BY FetchServes
<1>2. PICK s \in Sortings :
          \A n \in Len(shown) + 1 .. Len(Served') :
              n \in 1 .. Len(s) /\ s[n] \in Table /\ Served'[n].id = s[n]
  BY FetchServes
<1>3. m \in Nat
  BY <1>1
<1>4. CASE m > Len(shown)
  <2>1. m \in 1 .. Len(s) /\ i \in Table /\ i = s[m]
    BY <1>1, <1>2, <1>4
  <2>2. i \in Ids /\ conns[i] # NoRow
    BY <2>1 DEF Orderly
  <2>3. i \in Req => Over(i)
    BY <2>2, RowsAreMade
  <2>4. /\ Cardinality(Lower(Place(i))) = m - 1
        /\ \A n \in 1 .. Len(s) : m < n => Place(i) < Place(s[n])
    BY <2>1, CalmSorting
  <2>5. ASSUME NEW n \in DOMAIN Served', m < n PROVE n \in 1 .. Len(s) /\ Served'[n].id = s[n]
    <3>1. n \in Len(shown) + 1 .. Len(Served')
      BY <1>1, <1>3, <1>4, <2>5
    <3> QED
      BY <1>2, <3>1
  <2> QED
    BY <1>3, <2>2, <2>3, <2>4, <2>5
<1>5. CASE m <= Len(shown)
  <2>1. m \in DOMAIN Served /\ Served[m].id = i
    BY <1>1, <1>3, <1>5
  <2>2. /\ i \in Ids /\ (i \in Req => Over(i))
        /\ LowerAdd(i) \/ /\ Cardinality(Lower(Place(i))) < m
                          /\ \A n \in DOMAIN Served, j \in CIds :
                                m < n /\ Served[n].id = j => Place(i) < Place(j)
    BY <2>1 DEF Ordered
  <2>3. ASSUME ~LowerAdd(i), NEW n \in DOMAIN Served', NEW j \in CIds, m < n, Served'[n].id = j
        PROVE  Place(i) < Place(j)
    <3>1. CASE n <= Len(shown)
      <4>1. n \in DOMAIN Served /\ Served[n].id = j
        BY <1>1, <2>3, <3>1
      <4> QED
        BY <2>2, <2>3, <4>1
    <3>2. CASE n > Len(shown)
      <4>1. n \in 1 .. Len(s) /\ j = s[n] /\ n \in Nat
        BY <1>1, <1>2, <2>3, <3>2
      <4>2. /\ Place(j) \in Nat
            /\ \A r \in Nat : Place(j) <= r => n - 1 <= Cardinality(Lower(r))
        BY <4>1, CalmSorting
      <4>3. Place(i) \in Nat
        <5>1. GivenName(i) \in Names
          BY <2>2, GivenIsName DEF Over, Ids
        <5> QED
          BY <5>1, ListAssumption DEF Place
      <4>4. Cardinality(Lower(Place(i))) < m /\ Cardinality(Lower(Place(i))) \in Nat
        BY <2>2, <2>3, LowerIsFinite
      <4>5. ~(n - 1 <= Cardinality(Lower(Place(i))))
        BY <1>3, <2>3, <4>1, <4>4
      <4> QED
        BY <4>2, <4>3, <4>5
    <3> QED
      BY <1>1, <3>1, <3>2
  <2>4. Cardinality(Lower(Place(i))) < m \/ LowerAdd(i)
    BY <2>2
  <2> QED
    BY <2>2, <2>3, <2>4
<1> QED
  BY <1>1, <1>3, <1>4, <1>5

\* The pages stay in order, with every step of the composition.
LEMMA NextOrdered ==
    ASSUME Beside, Shaped, Shaped', Orderly, Orderly', Ordered, [ListNext]_listingVars
    PROVE  Ordered'
<1> USE DEF Beside, RowsInv, RegistryInv, TablesInv, Inv
<1> SUFFICES ASSUME Calm', NEW m \in DOMAIN Served', NEW i \in CIds, Served'[m].id = i
             PROVE  /\ i \in Ids /\ (i \in Req => Over(i)')
                    /\ \/ LowerAdd(i)'
                       \/ /\ Cardinality(Lower(Place(i))') < m
                          /\ \A n \in DOMAIN Served', j \in CIds :
                                m < n /\ Served'[n].id = j => Place(i)' < Place(j)'
  BY DEF Ordered
<1>1. CASE Fetch
  <2>1. UNCHANGED <<vars, list>>
    BY <1>1 DEF Fetch
  <2>2. Calm
    BY <2>1, OrderRests
  <2> QED
    BY <1>1, <2>1, <2>2, OrderRests, FetchIsOrdered
<1>2. CASE Rewrites \/ Answer \/ UNCHANGED listingVars
  <2>1. UNCHANGED <<vars, list>>
    BY <1>2 DEF Rewrites, Answer, listingVars, listVars
  <2>2. DOMAIN Served' = DOMAIN Served /\ \A n \in DOMAIN Served : Served'[n].id = Served[n].id
    <3>1. CASE UNCHANGED listingVars
      BY <3>1 DEF listingVars, listVars, Served
    <3> QED
      BY <1>2, <3>1, ServedStays
  <2>3. Calm
    BY <2>1, OrderRests
  <2>4. /\ i \in Ids /\ (i \in Req => Over(i))
        /\ LowerAdd(i) \/ /\ Cardinality(Lower(Place(i))) < m
                          /\ \A n \in DOMAIN Served', j \in CIds :
                                m < n /\ Served'[n].id = j => Place(i) < Place(j)
    BY <2>2, <2>3 DEF Ordered
  <2> QED
    BY <2>1, <2>4, OrderRests
<1>3. ASSUME NEW p \in Req, Start(p) \/ Step(p) \/ Crash(p), UNCHANGED listVars
      PROVE  /\ i \in Ids /\ (i \in Req => Over(i)')
             /\ \/ LowerAdd(i)'
                \/ /\ Cardinality(Lower(Place(i))') < m
                   /\ \A n \in DOMAIN Served', j \in CIds :
                         m < n /\ Served'[n].id = j => Place(i)' < Place(j)'
  <2>1. Served' = Served /\ m \in DOMAIN Served
    BY <1>3 DEF listVars, Served
  <2>2. Calm
    BY <1>3, CalmBefore
  <2>3. /\ i \in Ids /\ (i \in Req => Over(i))
        /\ LowerAdd(i) \/ /\ Cardinality(Lower(Place(i))) < m
                          /\ \A n \in DOMAIN Served, j \in CIds :
                                m < n /\ Served[n].id = j => Place(i) < Place(j)
    BY <2>1, <2>2 DEF Ordered
  <2>4. (i \in Req => Over(i)') /\ Place(i)' = Place(i)
    BY <1>3, <2>3, TableFollows
  <2>5. ASSUME ~LowerAdd(i)' PROVE Cardinality(Lower(Place(i))') < m
    <3>1. ~LowerAdd(i) /\ Lower(Place(i))' \subseteq Lower(Place(i))
      BY <1>3, <2>3, <2>5, LowerShrinks
    <3>2. /\ IsFiniteSet(Lower(Place(i)))
          /\ Cardinality(Lower(Place(i))) \in Nat /\ Cardinality(Lower(Place(i))) < m
      BY <2>3, <3>1, LowerIsFinite
    <3>3. m \in Nat
      BY <2>1, ServedIs
    <3> QED
      <4>1. PICK S \in SUBSET Lower(Place(i)) : S = Lower(Place(i))'
        BY <3>1
      <4>2. Cardinality(S) <= Cardinality(Lower(Place(i))) /\ Cardinality(S) \in Nat
        BY <3>2, FS_Subset, FS_CardinalityType
      <4> QED
        BY <3>2, <3>3, <4>1, <4>2
  <2>6. ASSUME ~LowerAdd(i)', NEW n \in DOMAIN Served', NEW j \in CIds, m < n, Served'[n].id = j
        PROVE  Place(i)' < Place(j)'
    <3>1. ~LowerAdd(i)
      BY <1>3, <2>3, <2>6, LowerShrinks
    <3>2. Place(i) < Place(j) /\ j \in Ids /\ (j \in Req => Over(j))
      BY <2>1, <2>2, <2>3, <2>6, <3>1 DEF Ordered
    <3> QED
      BY <1>3, <2>4, <3>2, TableFollows
  <2> QED
    BY <2>3, <2>4, <2>5, <2>6
<1> QED
  BY <1>1, <1>2, <1>3, ListCases, PageIsRewritten DEF ListStep

\* As long as no name is lower than what the client was shown, and nobody patches
\* or writes back what is deleted, the pages follow each other in the order of
\* names and nothing is shown twice, however the offsets and the table move.
THEOREM ListPagesAscend == ListSpec => []PagesAscend
<1>1. ListInit => Ordered
  BY DEF ListInit, Ordered, Served
<1>2. Beside /\ Shaped /\ Shaped' /\ Orderly /\ Orderly' /\ Ordered /\ [ListNext]_listingVars
        => Ordered'
  BY NextOrdered
<1>3. Shaped /\ ShownFilled /\ Ordered => PagesAscend
  <2> SUFFICES ASSUME Shaped, ShownFilled, Ordered, NoneAsked({"update"}),
                      NEW m \in DOMAIN shown, NEW n \in DOMAIN shown, m < n,
                      NEW x, x = shown[m].row.name, NEW y, y = shown[n].row.name,
                      \A p \in Req : ~(Kind(p) = "add" /\ Rank[call[p].body.name] < Rank[x]),
                      \A i \in Ids : ~Contended(i)
               PROVE  Rank[x] < Rank[y]
    BY DEF PagesAscend
  <2>1. Calm
    BY DEF Calm
  <2>2. ASSUME NEW l \in DOMAIN shown
        PROVE  /\ l \in DOMAIN Served /\ Served[l].id = shown[l].id /\ shown[l].id \in CIds
               /\ shown[l].row.name = GivenName(shown[l].id)
    <3>1. l \in DOMAIN Served /\ Served[l] = shown[l] /\ shown[l] \in Entry
      <4>1. DOMAIN shown = 1 .. Len(shown) /\ shown[l] \in Entry
        BY DEF Shaped
      <4> QED
        BY <4>1, ServedIs
    <3>2. shown[l].id \in CIds
      BY <3>1 DEF Entry
    <3>3. shown[l].id \in Ids
      BY <2>1, <3>1, <3>2 DEF Ordered
    <3>4. ~Targeted(shown[l].id, {"update"})
      BY <3>3 DEF NoneAsked
    <3> QED
      BY <3>1, <3>2, <3>3, <3>4 DEF ShownFilled, HasGiven, OfOwn
  <2>3. Rank[x] = Place(shown[m].id) /\ Rank[y] = Place(shown[n].id)
    BY <2>2 DEF Place
  <2>4. ~LowerAdd(shown[m].id)
    BY <2>3 DEF LowerAdd
  <2> QED
    BY <2>1, <2>2, <2>3, <2>4 DEF Ordered
<1> QED
  BY <1>1, <1>2, <1>3, FilledHolds, BesideHolds, ShapedHolds, OrderlyHolds, PTL DEF ListSpec
------------------------------------------------------------------------------
(***************************************************************************)
(* What a list leaves out.                                                 *)
(***************************************************************************)
\* What was there at the beginning is served, or is there and comes after what is.
Covered ==
    NoneAsked({"update", "delete"}) =>
        \A i \in first :
            \/ \E n \in DOMAIN Served : Served[n].id = i
            \/ i \in Table /\ Len(Served) <= Cardinality(Lower(Place(i)))

\* Nobody asks for a change: then it is calm.
LEMMA QuietIsCalm ==
    ASSUME NoneAsked({"update", "delete"})
    PROVE  Calm
  BY DEF NoneAsked, Calm, Contended, Targeted

\* The first query passes over no row, and finds an empty page only at the end.
LEMMA FetchCovers ==
    ASSUME Beside, Shaped, Shaped', Orderly, Covered, NoneAsked({"update", "delete"}), Fetch,
           NEW i \in first'
    PROVE  /\ \/ \E n \in DOMAIN Served' : Served'[n].id = i
              \/ i \in Table /\ Len(Served') <= Cardinality(Lower(Place(i)))
           /\ page' = << >> => \E n \in DOMAIN Served' : Served'[n].id = i
<1> USE DEF Beside, RowsInv, RegistryInv, TablesInv, Inv
<1>1. Calm
  BY QuietIsCalm
<1>2. /\ Len(Served) = Len(shown) /\ Len(shown) \in Nat /\ Len(page') \in Nat
      /\ Len(Served') = Len(shown) + Len(page') /\ page = << >>
      /\ DOMAIN Served = 1 .. Len(Served) /\ DOMAIN Served' = 1 .. Len(Served')
      /\ \A n \in DOMAIN Served : Served'[n].id = Served[n].id
  BY FetchServes
<1>3. PICK s \in Sortings :
          /\ page' = << >> => Len(s) <= Len(shown)
          /\ \A n \in Len(shown) + 1 .. Len(Served') :
                n \in 1 .. Len(s) /\ s[n] \in Table /\ Served'[n].id = s[n]
  BY FetchServes
<1>4. CASE \E n \in DOMAIN Served : Served[n].id = i
  BY <1>2, <1>4
<1>5. CASE ~\E n \in DOMAIN Served : Served[n].id = i
  <2>1. i \in Table /\ (shown # << >> => Len(shown) <= Cardinality(Lower(Place(i))))
    <3>1. CASE shown = << >>
      BY <3>1 DEF Fetch
    <3>2. CASE shown # << >>
      BY <1>2, <1>5, <3>2 DEF Fetch, Covered
    <3> QED
      BY <3>1, <3>2
  <2>2. PICK k \in 1 .. Len(s) : s[k] = i
    BY <2>1, SortingIs
  <2>3. Len(s) \in Nat /\ Cardinality(Lower(Place(i))) = k - 1 /\ k \in Nat
    BY <1>1, <2>2, CalmSorting
  <2>4. k > Len(shown)
    <3>1. CASE shown = << >>
      BY <2>2, <2>3, <3>1
    <3>2. CASE shown # << >>
      BY <1>2, <2>1, <2>3, <3>2
    <3> QED
      BY <3>1, <3>2
  <2>5. page' # << >>
    BY <1>2, <1>3, <2>2, <2>3, <2>4
  <2>6. CASE k <= Len(Served')
    <3>1. k \in Len(shown) + 1 .. Len(Served') /\ k \in DOMAIN Served'
      BY <1>2, <2>3, <2>4, <2>6
    <3>2. Served'[k].id = i
      BY <1>3, <2>2, <3>1
    <3> QED
      BY <2>5, <3>1, <3>2
  <2>7. CASE k > Len(Served')
    <3>1. Len(Served') <= k - 1
      BY <1>2, <2>3, <2>7
    <3> QED
      BY <2>1, <2>3, <2>5, <3>1
  <2> QED
    BY <1>2, <2>3, <2>6, <2>7
<1> QED
  BY <1>4, <1>5

\* Nothing is passed over, with every step of the composition.
LEMMA NextCovered ==
    ASSUME Beside, Shaped, Shaped', Orderly, Orderly', Covered, NothingSkipped,
           [ListNext]_listingVars
    PROVE  Covered' /\ NothingSkipped'
<1> USE DEF Beside, RowsInv, RegistryInv, TablesInv, Inv
<1> SUFFICES ASSUME NoneAsked({"update", "delete"})', NEW i \in first'
             PROVE  /\ \/ \E n \in DOMAIN Served' : Served'[n].id = i
                       \/ i \in Table' /\ Len(Served') <= Cardinality(Lower(Place(i))')
                    /\ step' = "end" => \E n \in DOMAIN shown' : shown'[n].id = i
  BY DEF Covered, NothingSkipped
<1>1. CASE Fetch
  <2>1. UNCHANGED <<vars, list, shown>> /\ (step' = "end" <=> page' = << >>)
    BY <1>1, FetchEffect
  <2>2. NoneAsked({"update", "delete"})
    BY <2>1, OrderRests
  <2>3. page' = << >> => Served' = shown'
    BY DEF Shaped, Served
  <2> QED
    BY <1>1, <2>1, <2>2, <2>3, OrderRests, FetchCovers
<1>2. CASE \/ Preload \/ ListConfig \/ ListLease \/ ListRoleName \/ ListRole \/ ListBreaks
           \/ Answer \/ UNCHANGED listingVars
  <2>0. Rewrites \/ Answer \/ UNCHANGED listingVars
    BY <1>2, PageIsRewritten
  <2>1. UNCHANGED <<vars, list, first>>
    BY <2>0 DEF Rewrites, Answer, listingVars, listVars
  <2>2. /\ DOMAIN Served' = DOMAIN Served /\ Len(Served') = Len(Served)
        /\ \A n \in DOMAIN Served : Served'[n].id = Served[n].id
    <3>1. CASE UNCHANGED listingVars
      BY <3>1 DEF listingVars, listVars, Served
    <3> QED
      BY <2>0, <3>1, ServedStays
  <2>3. NoneAsked({"update", "delete"})
    BY <2>1, OrderRests
  <2>4. \/ \E n \in DOMAIN Served : Served[n].id = i
        \/ i \in Table /\ Len(Served) <= Cardinality(Lower(Place(i)))
    BY <2>1, <2>3 DEF Covered
  <2>5. step' = "end" => \E n \in DOMAIN shown' : shown'[n].id = i
    <3> SUFFICES ASSUME step' = "end" PROVE UNCHANGED <<step, shown>>
      BY <2>1, <2>3 DEF NothingSkipped
    <3> QED
      BY <1>2 DEF Preload, ListConfig, ListLease, ListRoleName, ListRole, ListBreaks, Answer,
         listingVars, listVars
  <2> QED
    BY <2>1, <2>2, <2>4, <2>5, OrderRests
<1>3. ASSUME NEW p \in Req, Start(p) \/ Step(p) \/ Crash(p), UNCHANGED listVars
      PROVE  /\ \/ \E n \in DOMAIN Served' : Served'[n].id = i
                \/ i \in Table' /\ Len(Served') <= Cardinality(Lower(Place(i))')
             /\ step' = "end" => \E n \in DOMAIN shown' : shown'[n].id = i
  <2>1. Served' = Served /\ UNCHANGED <<step, shown, first>>
    BY <1>3 DEF listVars, Served
  <2>2. NoneAsked({"update", "delete"})
    BY <1>3, UntargetedBefore DEF NoneAsked
  <2>3. step' = "end" => \E n \in DOMAIN shown' : shown'[n].id = i
    BY <2>1, <2>2 DEF NothingSkipped
  <2>4. Calm'
    <3>1. \A j \in Ids : ~Targeted(j, {"update", "delete"})'
      BY DEF NoneAsked
    <3> QED
      BY <3>1 DEF Calm, NoneAsked, Contended, Targeted
  <2>5. CASE i \in Table /\ Len(Served) <= Cardinality(Lower(Place(i)))
    <3>1. i \in Table' /\ Lower(Place(i)) \subseteq Lower(Place(i))'
      BY <1>3, <2>4, <2>5, LowerGrows
    <3>2. PICK T \in SUBSET Ids : T = Lower(Place(i))'
      BY <2>4 DEF Lower, Orderly
    <3>3. IsFiniteSet(T)
      BY ListAssumption, FS_Subset
    <3>4. Cardinality(Lower(Place(i))) <= Cardinality(T)
      BY <3>1, <3>2, <3>3, FS_Subset
    <3>5. Len(Served) <= Cardinality(T)
      BY <2>5, <3>3, <3>4, ServedIs, LowerIsFinite, FS_CardinalityType
    <3> QED
      BY <2>1, <2>3, <3>1, <3>2, <3>5
  <2> QED
    BY <2>1, <2>2, <2>3, <2>5 DEF Covered
<1> QED
  BY <1>1, <1>2, <1>3, ListCases DEF ListStep

\* As long as nothing is changed or deleted, the client has been shown every
\* connection that was there when it began, by the time it is shown an empty page.
THEOREM ListSkipsNothing == ListSpec => []NothingSkipped
<1>1. ListInit => Covered /\ NothingSkipped
  BY DEF ListInit, Covered, NothingSkipped
<1>2. Beside /\ Shaped /\ Shaped' /\ Orderly /\ Orderly' /\ Covered /\ NothingSkipped
      /\ [ListNext]_listingVars => Covered' /\ NothingSkipped'
  BY NextCovered
<1> QED
  BY <1>1, <1>2, BesideHolds, ShapedHolds, OrderlyHolds, PTL DEF ListSpec
=============================================================================
