-------------------------- MODULE BridgePublication --------------------------
(***************************************************************************)
(* The published tree and the operations on it: bridge/ with its manifest  *)
(* and ZIP, README.md, and the vantage log under data/                     *)
(* (src/bridge_publication.rs, scripts/publication_contract.sh).           *)
(*                                                                         *)
(* A file is the set of the works whose result it holds.  The payload is   *)
(* kept in two parts: "history", the canonical inputs (bridge_history.json *)
(* and iran_results.json), and "lists", every file projected from them.  A *)
(* hash is the content it was taken of.                                    *)
(***************************************************************************)

CONSTANT Work   \* what a run can add to a published file

Payload  == [history : SUBSET Work, lists : SUBSET Work]
Manifest == Payload

\* The Rust publisher and the Python of publication_contract.sh compress the
\* same files to different bytes.
Builders == {"publisher", "contract"}
Archive  == [by : Builders, pay : Payload, man : Manifest]
Tree     == [pay : Payload, man : Manifest, zip : Archive, readme : Archive,
             log : SUBSET Work]

\* The files one after the other, each from what is in the tree: the hashes
\* of the payload, the archive of payload and manifest, the archive's hash.
WithManifest(t)    == [t EXCEPT !.man = t.pay]
WithArchive(t, by) == [t EXCEPT !.zip = [by |-> by, pay |-> t.pay, man |-> t.man]]
WithReadme(t)      == [t EXCEPT !.readme = t.zip]

\* publication_contract.sh --rebuild
Attested(t) == WithReadme(WithArchive(WithManifest(t), "contract"))

\* The trees a --rebuild that is killed can leave: it replaces three files.
CutRebuilds(t) ==
  {t, WithManifest(t), WithArchive(WithManifest(t), "contract"), Attested(t)}

WithLists(t, lists)     == [t EXCEPT !.pay.lists = lists]
WithHistory(t, history) == [t EXCEPT !.pay.history = history]

\* publish_at: project the history, write the manifest, build the archive,
\* verify them and render the README.
Publish(t) ==
  LET projected == WithLists(t, t.pay.history)
  IN WithReadme(WithArchive(WithManifest(projected), "publisher"))

\* verify_publication
Verified(t) == t.man = t.pay /\ t.zip.pay = t.pay /\ t.zip.man = t.man

\* publication_contract.sh --check: the README too.
Contract(t) == Verified(t) /\ t.readme = t.zip

(***************************************************************************)
(* git rebase -X theirs: the commit of a tree "mine" that was made on      *)
(* "base" is replayed on "onto", file by file.  Lines both changed stay as *)
(* in mine; a file of one value (the ZIP, a hash) is taken from the side   *)
(* that changed it, from mine when both did.                               *)
(***************************************************************************)

\* Mutant: -X ours.
MergedLines_Ours(mine, base, onto) == {onto}

MergedLines(mine, base, onto) ==
  IF mine = base THEN {onto}
  ELSE {(mine \ gone) \cup new :
          gone \in SUBSET ((mine \cap base) \ onto),
          new  \in SUBSET (onto \ (mine \cup base))}

MergedValue(mine, base, onto) == IF mine = base THEN onto ELSE mine

Rebased(mine, base, onto) ==
  {[pay    |-> [history |-> h, lists |-> l],
    man    |-> [history |-> MergedValue(mine.man.history, base.man.history,
                                        onto.man.history),
                lists   |-> MergedValue(mine.man.lists, base.man.lists,
                                        onto.man.lists)],
    zip    |-> MergedValue(mine.zip, base.zip, onto.zip),
    readme |-> MergedValue(mine.readme, base.readme, onto.readme),
    log    |-> onto.log] :
     h \in MergedLines(mine.pay.history, base.pay.history, onto.pay.history),
     l \in MergedLines(mine.pay.lists, base.pay.lists, onto.pay.lists)}

Bridge(t) == [t EXCEPT !.log = {}]    \* the tree apart from the log
=============================================================================
