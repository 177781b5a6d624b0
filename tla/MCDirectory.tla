---------------------------- MODULE MCDirectory ----------------------------
(* Small instances of the directory.                                       *)
EXTENDS Directory, TLC

CONSTANTS d1, d2, s1, s2, s3

\* Two processes of the first device, one of the second.
TwoOnOne == (s1 :> d1) @@ (s2 :> d2) @@ (s3 :> d1)
LeaseOps == (s1 :> {"create", "publish", "release"})
         @@ (s2 :> {"take", "publish", "quiet"})
         @@ (s3 :> {"acquire"})

\* The first device moves the identity and revokes the second, which goes on.
OwnSession == (s1 :> d1) @@ (s2 :> d2)
GovernOps == (s1 :> {"create", "revoke", "freeze", "retire", "close"})
          @@ (s2 :> {"create", "take", "beat", "put", "thaw", "freeze"})
=============================================================================
