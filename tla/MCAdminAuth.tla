---------------------------- MODULE MCAdminAuth ----------------------------
(* Two owners and an admin, who all have a session, and one more session and
   one key to create; the admin signs in. *)
EXTENDS AdminAuth, TLC

CONSTANTS o1, o2, a1, s1, s2, s3

MCUsers == {o1, o2, a1}
MCSigningIn == {a1}
MCInitMembers == (o1 :> Owner) @@ (o2 :> Owner) @@ (a1 :> Admin)
MCInitFailed == (o1 :> 0) @@ (o2 :> 0) @@ (a1 :> 1)
MCSessions == {s1, s2, s3}
MCInitSessions == (s1 :> o1) @@ (s2 :> a1) @@ (s3 :> Nobody)
=============================================================================
