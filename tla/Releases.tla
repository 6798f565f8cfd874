-------------------------------- MODULE Releases --------------------------------
(***************************************************************************)
(* The check for a newer release (updater.rs).  A tag is the parts of its  *)
(* version, -1 for what is no number; the leading v and what git describe  *)
(* appends are cut off.  An asset has the platform it is for.              *)
(***************************************************************************)
EXTENDS Integers, Sequences

NoVersion == <<>>

\* Exactly three numbers of eight bits.
parse_semver_tag(tag) ==
  IF Len(tag) = 3 /\ \A n \in 1..3 : tag[n] \in 0..255 THEN tag ELSE NoVersion

\* Mutant: one part that is greater makes a version newer.
SomePartNewer(v, w) == \E n \in 1..3 : v[n] > w[n]

Newer(v, w) == \E n \in 1..3 : v[n] > w[n] /\ \A k \in 1..n - 1 : v[k] = w[k]

NoRelease == [version |-> NoVersion]

\* A release is offered if it is newer; a download only where the platform has assets.
check_for_app_update(tag, assets, built, platform) ==
  LET remote == parse_semver_tag(tag)
      current == parse_semver_tag(built)
      fits == SelectSeq(assets, LAMBDA a : a.platform = platform)
  IN  IF remote = NoVersion \/ current = NoVersion THEN NoRelease
      ELSE IF ~Newer(remote, current) THEN NoRelease
      ELSE [version |-> remote,
            download |-> IF platform = "mac" /\ fits # <<>> THEN fits[1].url ELSE "none"]
=============================================================================
