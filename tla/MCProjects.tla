----------------------------- MODULE MCProjects -----------------------------
(***************************************************************************)
(* Instances of a project, its pool and the likes of it for TLC.           *)
(***************************************************************************)
EXTENDS Projects, TLC

CONSTANTS o1, o2, s1, s2, r1, r2

\* Clicks read nothing of a project but that it has a pool, and what is served
\* besides writes nothing of theirs but a publication.  They are let in, and
\* served, where the project is stored and published whole.
isClicked == rows # {} \/ likes # 0 \/ behind \/ \E r \in Clicks : pc[r] # "idle"
isPublishedWhole ==
    isLive /\ isWhole /\ pool = project.statistics /\ poolFile = manifest
ClicksAreOnWholePools ==
    isClicked => isPublishedWhole /\ \A o \in served : work[o].kind = "publish"

\* Requests and scenes stand for nothing but themselves.
MCSymmetry ==
    Permutations({o1, o2}) \cup Permutations({s1, s2}) \cup Permutations({r1, r2})

=============================================================================
