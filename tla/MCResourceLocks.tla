-------------------------- MODULE MCResourceLocks --------------------------
(* Five callers: a directory, a file below it with a page, a second         *)
(* directory with the same page, both directories, and an unknown effect.   *)
EXTENDS ResourceLocks, TLC

CONSTANTS r1, r2, r3, r4, r5

MCKeysOf == (r1 :> {"ws/a"}) @@ (r2 :> {"ws/a/x", "page"}) @@ (r3 :> {"ws/b", "page"})
              @@ (r4 :> {"ws/a", "ws/b"}) @@ (r5 :> {"shell"})
MCKind == ("ws/a" :> "workspace") @@ ("ws/a/x" :> "workspace") @@ ("ws/b" :> "workspace")
            @@ ("page" :> "other") @@ ("shell" :> "unknown")
MCPath == ("ws/a" :> <<"a">>) @@ ("ws/a/x" :> <<"a", "x">>) @@ ("ws/b" :> <<"b">>)
            @@ ("page" :> << >>) @@ ("shell" :> << >>)
=============================================================================
