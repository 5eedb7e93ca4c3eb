------------------------- MODULE ContentsSource_proofs -------------------------
(***************************************************************************)
(* For every set of files, versions and collections: TypeOK,               *)
(* CachedWasReceived, ListedWasReceived and, from what a cached listing     *)
(* stands for, CleanUnlessCachedPartially.                                 *)
(***************************************************************************)
EXTENDS ContentsSource, TLAPS

Tags == [Files -> 0..MaxVersion]

LEMMA NextType == TypeOK /\ [Next]_vars => TypeOK'
<1> SUFFICES ASSUME TypeOK, [Next]_vars PROVE TypeOK'
  OBVIOUS
<1> USE ContentsAssumption DEF ContentsAssumption
<1>0. /\ server \in [Files -> 1..MaxVersion] /\ server \in Tags
      /\ listingTag \in Tags /\ tag \in Tags /\ reportOf \in Tags
  <2>1. 1..MaxVersion \subseteq 0..MaxVersion
    OBVIOUS
  <2> QED BY <2>1 DEF TypeOK, Tags
<1>1. CASE UNCHANGED vars
  BY <1>1 DEF TypeOK, vars, cacheVars, ghosts
<1>2. CASE StartCollection
  <2>1. runs' \in 0..MaxRuns /\ reportOf' \in Tags
    BY <1>2 DEF StartCollection, TypeOK, NoListing, Tags
  <2> QED BY <1>2, <2>1 DEF StartCollection, TypeOK, Tags, cacheVars, ghosts
<1>3. CASE ListingFails \/ ListingNotModified \/ EndCollection
  BY <1>0, <1>3
     DEF ListingFails, ListingNotModified, EndCollection, TypeOK, Tags, cacheVars, ghosts
<1>4. CASE ListingBody
  <2>1. groups'[1] \subseteq TextFiles \ Unparsable /\ groups'[2] \subseteq JsonFiles \ Unparsable
    BY <1>4 DEF ListingBody, GroupsOf, TypeOK
  <2>2. listingTag' \in Tags /\ reportOf' \in Tags
    BY <1>0, <1>4 DEF ListingBody
  <2> QED BY <1>4, <2>1, <2>2 DEF ListingBody, TypeOK, Tags, ghosts
<1>5. ASSUME NEW f \in Files, Commit(f) PROVE TypeOK'
  <2>1. server' \in [Files -> 1..MaxVersion]
    BY <1>5 DEF Commit, TypeOK
  <2> QED BY <1>5, <2>1 DEF Commit, TypeOK, cacheVars, ghosts
<1>6. ASSUME NEW f \in Files, FileFails(f) \/ FileNotModified(f) \/ FileBody(f)
      PROVE  TypeOK'
  <2>1. groups'[1] \subseteq TextFiles \ Unparsable /\ groups'[2] \subseteq JsonFiles \ Unparsable
    BY <1>6 DEF FileFails, FileNotModified, FileBody, Fetched, TypeOK
  <2>2. tag' \in Tags
    BY <1>0, <1>6
       DEF FileFails, FileNotModified, FileBody, TagAfterFailure, Tags, cacheVars
  <2>3. failures' \subseteq Files \cup {Listing}
    BY <1>6 DEF FileFails, FileNotModified, FileBody, TypeOK
  <2>4. received' \subseteq Versions /\ partial' \in BOOLEAN
    <3>1. <<f, server[f]>> \in Versions
      BY <1>0 DEF Versions
    <3> QED BY <1>6, <3>1 DEF FileFails, FileNotModified, FileBody, TypeOK, ghosts
  <2> QED BY <1>6, <2>1, <2>2, <2>3, <2>4
          DEF FileFails, FileNotModified, FileBody, TypeOK, Tags, cacheVars
<1> QED BY <1>1, <1>2, <1>3, <1>4, <1>5, <1>6 DEF Next

\* Every variable keeps its type.
THEOREM TypeCorrect == Spec => []TypeOK
<1>1. Init => TypeOK
  <2>1. 0 \in 0..MaxRuns /\ 0 \in 0..MaxVersion /\ 1 \in 1..MaxVersion
    BY ContentsAssumption DEF ContentsAssumption
  <2>2. NoListing \in [Files -> 0..MaxVersion]
    BY <2>1 DEF NoListing
  <2> SUFFICES ASSUME Init PROVE TypeOK
    OBVIOUS
  <2>3. /\ server \in [Files -> 1..MaxVersion] /\ tag \in [Files -> 0..MaxVersion]
        /\ runs \in 0..MaxRuns
    BY <2>1 DEF Init
  <2>4. /\ groups[1] = {} /\ groups[2] = {} /\ failures = {} /\ received = {}
        /\ partial \in BOOLEAN /\ pc = "idle"
        /\ listingTag = NoListing /\ reportOf = NoListing
    BY DEF Init
  <2> QED BY <2>2, <2>3, <2>4 DEF TypeOK
<1> QED BY <1>1, NextType, PTL DEF Spec

-----------------------------------------------------------------------------
(* What a validator stands for.                                            *)

\* While the files of a listing are fetched, one that is neither still to be
\* fetched nor failed has been received, in the listed version or later.
Progressed ==
  pc = "files" =>
    \A f \in Files \ Unparsable :
      /\ reportOf[f] <= server[f]
      /\ \/ f \in groups[1] \cup groups[2] \/ f \in failures
         \/ \E v \in reportOf[f]..MaxVersion : <<f, v>> \in received

CacheInv == CachedWasReceived /\ Progressed

\* A step that touches nothing CacheInv speaks of, but may end the files.
LEMMA CacheKept ==
  ASSUME CacheInv, pc' # "files" \/ UNCHANGED <<pc, server, groups, failures, reportOf>>,
         UNCHANGED <<tag, received>>
  PROVE  CacheInv'
BY DEF CacheInv, CachedWasReceived, Progressed

LEMMA ListingCache ==
  ASSUME TypeOK, CacheInv, ListingBody
  PROVE  CacheInv'
<1> USE ContentsAssumption DEF ContentsAssumption
<1>1. CASE pc' # "files"
  BY <1>1, CacheKept DEF ListingBody
<1>2. CASE groups' = GroupsOf(Files \ Unparsable) /\ reportOf' = server
  <2>1. \A f \in Files \ Unparsable : f \in groups'[1] \cup groups'[2]
    BY <1>2 DEF GroupsOf, Files
  <2>2. \A f \in Files : reportOf'[f] <= server'[f]
    BY <1>2 DEF ListingBody, TypeOK
  <2>3. Progressed'
    BY <2>1, <2>2 DEF Progressed
  <2> QED BY <2>3 DEF ListingBody, CacheInv, CachedWasReceived
<1> QED BY <1>1, <1>2 DEF ListingBody

LEMMA CommitCache ==
  ASSUME TypeOK, CacheInv, NEW f \in Files, Commit(f)
  PROVE  CacheInv'
<1>1. \A g \in Files : server[g] \in Nat /\ server'[g] \in Nat /\ server[g] <= server'[g]
  BY ContentsAssumption DEF Commit, TypeOK, ContentsAssumption
<1>2. \A g \in Files : reportOf[g] \in Nat
  BY ContentsAssumption DEF TypeOK, ContentsAssumption
<1>3. Progressed'
  <2> SUFFICES ASSUME pc' = "files", NEW g \in Files \ Unparsable
               PROVE  /\ reportOf'[g] <= server'[g]
                      /\ \/ g \in groups'[1] \cup groups'[2] \/ g \in failures'
                         \/ \E v \in reportOf'[g]..MaxVersion : <<g, v>> \in received'
    BY DEF Progressed
  <2>1. UNCHANGED <<pc, reportOf, groups, failures, received>>
    BY DEF Commit, ghosts
  <2> QED BY <1>1, <1>2, <2>1 DEF CacheInv, Progressed
<1> QED BY <1>3 DEF Commit, CacheInv, CachedWasReceived, cacheVars, ghosts

LEMMA FileCache ==
  ASSUME TypeOK, CacheInv, NEW f \in Files,
         FileFails(f) \/ FileNotModified(f) \/ FileBody(f)
  PROVE  CacheInv'
<1> USE ContentsAssumption DEF ContentsAssumption
<1>1. /\ pc = "files" /\ UNCHANGED <<pc, server, reportOf>>
      /\ groups' = <<groups[1] \ {f}, groups[2] \ {f}>>
      /\ received \subseteq received' /\ failures \subseteq failures'
  BY DEF FileFails, FileNotModified, FileBody, Next1, Fetched, ghosts
<1>2. server[f] \in 1..MaxVersion /\ reportOf[f] \in 0..MaxVersion /\ tag \in Tags
  BY DEF TypeOK, Tags
<1>3. CachedWasReceived'
  <2>1. CASE tag' = tag
    BY <1>1, <2>1 DEF CacheInv, CachedWasReceived
  <2>2. CASE FileFails(f)
    BY <1>1, <1>2, <2>2 DEF FileFails, TagAfterFailure, CacheInv, CachedWasReceived, Tags
  <2>3. CASE FileBody(f)
    <3>1. PICK t \in {0, server[f]} : tag' = [tag EXCEPT ![f] = t]
      BY <2>3 DEF FileBody
    <3>2. <<f, server[f]>> \in received'
      BY <2>3 DEF FileBody
    <3> QED BY <1>1, <1>2, <3>1, <3>2 DEF CacheInv, CachedWasReceived, Tags
  <2> QED BY <2>1, <2>2, <2>3 DEF FileNotModified, cacheVars
<1>5. Progressed'
  <2>1. \/ f \in Unparsable \/ f \in failures'
        \/ \E v \in reportOf[f]..MaxVersion : <<f, v>> \in received'
    <3>1. CASE FileFails(f)
      BY <3>1 DEF FileFails
    <3>2. ASSUME f \notin Unparsable, <<f, server[f]>> \in received'
          PROVE  \E v \in reportOf[f]..MaxVersion : <<f, v>> \in received'
      <4>1. server[f] \in reportOf[f]..MaxVersion
        BY <1>1, <1>2, <3>2 DEF CacheInv, Progressed
      <4> QED BY <3>2, <4>1
    <3>3. CASE FileNotModified(f)
      <4>1. <<f, server[f]>> \in received
        BY <1>2, <3>3 DEF FileNotModified, CacheInv, CachedWasReceived
      <4>2. <<f, server[f]>> \in received'
        BY <1>1, <4>1
      <4> QED BY <3>2, <4>2
    <3>4. CASE FileBody(f)
      <4>1. <<f, server[f]>> \in received'
        BY <3>4 DEF FileBody
      <4> QED BY <3>2, <4>1
    <3> QED BY <3>1, <3>3, <3>4
  <2>2. \A g \in Files \ Unparsable : g # f =>
          \/ g \in groups'[1] \cup groups'[2] \/ g \in failures'
          \/ \E v \in reportOf[g]..MaxVersion : <<g, v>> \in received'
    BY <1>1 DEF CacheInv, Progressed
  <2>3. \A g \in Files \ Unparsable : reportOf'[g] <= server'[g]
    BY <1>1 DEF CacheInv, Progressed
  <2> QED BY <1>1, <2>1, <2>2, <2>3 DEF Progressed
<1> QED BY <1>3, <1>5 DEF CacheInv

LEMMA NextCache == TypeOK /\ CacheInv /\ [Next]_vars => CacheInv'
<1> SUFFICES ASSUME TypeOK, CacheInv, [Next]_vars PROVE CacheInv'
  OBVIOUS
<1>1. CASE UNCHANGED vars
  BY <1>1, CacheKept DEF vars, cacheVars, ghosts
<1>2. CASE StartCollection \/ ListingFails \/ ListingNotModified \/ EndCollection
  BY <1>2, CacheKept
     DEF StartCollection, ListingFails, ListingNotModified, EndCollection, cacheVars,
         ghosts
<1>3. CASE ListingBody
  BY <1>3, ListingCache
<1>4. ASSUME NEW f \in Files, Commit(f) PROVE CacheInv'
  BY <1>4, CommitCache
<1>5. ASSUME NEW f \in Files, FileFails(f) \/ FileNotModified(f) \/ FileBody(f)
      PROVE  CacheInv'
  BY <1>5, FileCache
<1> QED BY <1>1, <1>2, <1>3, <1>4, <1>5 DEF Next

LEMMA CacheInvariant == Spec => []CacheInv
<1>1. Init => CacheInv
  BY DEF Init, CacheInv, CachedWasReceived, Progressed
<1> QED BY <1>1, NextCache, TypeCorrect, PTL DEF Spec

\* A cached validator stands for a body that was received.
THEOREM CachedWasReceivedHolds == Spec => []CachedWasReceived
<1>1. CacheInv => CachedWasReceived
  BY DEF CacheInv
<1> QED BY <1>1, CacheInvariant, PTL

\* A listing whose files all answered has been received completely.
THEOREM ListedWasReceivedHolds == Spec => []ListedWasReceived
<1>1. CacheInv => ListedWasReceived
  BY DEF CacheInv, Progressed, ListedWasReceived, Complete
<1> QED BY <1>1, CacheInvariant, PTL

-----------------------------------------------------------------------------
(* What a cached listing stands for.                                       *)

\* Between collections, a listing cached by one without failures is complete;
\* while its files are fetched, it is the one the report is about.
ListingInv ==
  /\ pc # "files" /\ ~partial /\ listingTag # NoListing => Complete(listingTag)
  /\ pc = "files" => reportOf = listingTag /\ (partial <=> failures # {})
  /\ CleanUnlessCachedPartially

LEMMA NextListing ==
  ASSUME TypeOK, CacheInv, ListingInv, [Next]_vars
  PROVE  ListingInv'
<1> USE ContentsAssumption DEF ContentsAssumption
<1>1. CASE UNCHANGED vars
  BY <1>1 DEF ListingInv, CleanUnlessCachedPartially, Complete, vars, cacheVars,
    ghosts
<1>2. CASE StartCollection
  BY <1>2 DEF StartCollection, ListingInv, CleanUnlessCachedPartially, Complete,
    cacheVars, ghosts
<1>3. CASE ListingFails
  BY <1>3 DEF ListingFails, ListingInv, CleanUnlessCachedPartially, Complete,
    cacheVars, ghosts
<1>4. CASE ListingNotModified
  <2>1. /\ pc = "listing" /\ pc' = "idle" /\ reportOf' = listingTag
        /\ UNCHANGED <<listingTag, partial, received>>
    BY <1>4 DEF ListingNotModified, cacheVars, ghosts
  <2>2. ~partial => Complete(listingTag)
    <3>1. CASE Files \ Unparsable = {}
      BY <3>1 DEF Complete
    <3>2. CASE listingTag = NoListing
      <4>1. \A f \in Files : server[f] = 0
        BY <1>4, <3>2 DEF ListingNotModified, NoListing
      <4>2. \A f \in Files : server[f] \in 1..MaxVersion
        BY DEF TypeOK
      <4>3. Files = {}
        BY <4>1, <4>2
      <4> QED BY <4>3, <3>1
    <3>3. CASE listingTag # NoListing
      BY <2>1, <3>3 DEF ListingInv
    <3> QED BY <3>2, <3>3
  <2> QED BY <2>1, <2>2 DEF ListingInv, CleanUnlessCachedPartially, Complete
<1>5. CASE ListingBody
  <2>1. /\ partial' = (failures' # {}) /\ received' = received
        /\ listingTag' = server
        /\ \/ pc' = "files" /\ reportOf' = server
           \/ pc' = "idle" /\ failures' = {Listing}
    BY <1>5 DEF ListingBody
  <2> QED BY <2>1 DEF ListingInv, CleanUnlessCachedPartially, Complete
<1>6. ASSUME NEW f \in Files, FileFails(f) \/ FileNotModified(f) \/ FileBody(f)
      PROVE  ListingInv'
  <2>1. /\ pc = "files" /\ UNCHANGED <<pc, reportOf, listingTag>>
        /\ \/ UNCHANGED <<failures, partial>>
           \/ partial' = (failures' # {})
           \/ partial' = TRUE /\ failures' = failures \cup {f}
    BY <1>6 DEF FileFails, FileNotModified, FileBody, Next1, ghosts, cacheVars
  <2>2. partial' <=> failures' # {}
    <3>1. CASE UNCHANGED <<failures, partial>>
      BY <2>1, <3>1 DEF ListingInv
    <3>2. CASE partial' = (failures' # {})
      BY <3>2
    <3>3. CASE partial' = TRUE /\ failures' = failures \cup {f}
      <4>1. failures' # {}
        BY <3>3
      <4> QED BY <3>3, <4>1
    <3> QED BY <2>1, <3>1, <3>2, <3>3
  <2>3. reportOf' = listingTag' /\ pc' = "files"
    BY <2>1 DEF ListingInv
  <2> QED BY <2>2, <2>3 DEF ListingInv, CleanUnlessCachedPartially
<1>7. ASSUME NEW f \in Files, Commit(f) PROVE ListingInv'
  BY <1>7 DEF Commit, ListingInv, CleanUnlessCachedPartially, Complete, cacheVars,
    ghosts
<1>8. CASE EndCollection
  <2>1. /\ pc = "files" /\ groups = <<{}, {}>> /\ pc' = "idle"
        /\ UNCHANGED <<listingTag, partial, received, failures, reportOf>>
    BY <1>8 DEF EndCollection, cacheVars, ghosts
  <2>2. ~partial => Complete(listingTag) /\ reportOf = listingTag
    BY <2>1 DEF ListingInv, CacheInv, Progressed, Complete
  <2> QED BY <2>1, <2>2 DEF ListingInv, CleanUnlessCachedPartially, Complete
<1> QED BY <1>1, <1>2, <1>3, <1>4, <1>5, <1>6, <1>7, <1>8 DEF Next

\* A report without failures is of a complete collection, unless its listing
\* answered 304 to a validator cached by a collection that had failures.
THEOREM CleanUnlessCachedPartiallyHolds == Spec => []CleanUnlessCachedPartially
<1>1. Init => ListingInv
  BY DEF Init, ListingInv, CleanUnlessCachedPartially
<1>2. ListingInv => CleanUnlessCachedPartially
  BY DEF ListingInv
<1> QED BY <1>1, <1>2, NextListing, CacheInvariant, TypeCorrect, PTL DEF Spec
=============================================================================
