--------------------------- MODULE VersionArchive ---------------------------
(***************************************************************************)
(* What the workspace storage promises its callers, with no write path in  *)
(* sight: every document has numbered versions that only move forward, one *)
(* at a time; a version that was archived can be looked up later and is    *)
(* what the document was; a version archived under a name is never         *)
(* forgotten, while an unnamed one may be.                                 *)
(*                                                                         *)
(* WorkspaceRevisions implements this specification, whatever the number   *)
(* of tabs, the reloads and the failed writes.                             *)
(***************************************************************************)
EXTENDS Naturals

CONSTANTS Workspaces, Contents, Blank

VARIABLES
  current,  \* the latest version of each workspace, number 0 before the first
  archive   \* the versions that can be restored

Archived(w, n, named, c) ==
  [workspaceId |-> w, revision |-> n, named |-> named, content |-> c]

\* An archive that may have lost unnamed versions and gained only `new`.
MayBecome(new) ==
  /\ archive' \subseteq archive \union new
  /\ \A e \in archive : e.named => e \in archive'

Init ==
  /\ current = [w \in Workspaces |-> [revision |-> 0, content |-> Blank]]
  /\ archive = {}

\* A new version; a failed write may leave it out of the archive.
Advance(w) ==
  \E c \in Contents :
    LET n == current[w].revision + 1
    IN  /\ current' = [current EXCEPT ![w] = [revision |-> n, content |-> c]]
        /\ MayBecome({Archived(w, n, FALSE, c)})

\* The current version is archived under a name.
Name(w) ==
  /\ current[w].revision > 0
  /\ MayBecome({Archived(w, current[w].revision, TRUE, current[w].content)})
  /\ UNCHANGED current

Next == \E w \in Workspaces : Advance(w) \/ Name(w)

Spec == Init /\ [][Next]_<<current, archive>>

=============================================================================
