-------------------------- MODULE MCUpdateCheck --------------------------
(* UpdateCheck with two apps, and responses that offer an update to none, *)
(* one or both of them, or to an app that is not in the app set.          *)
EXTENDS UpdateCheck

CONSTANTS a, b, u

App(id, status) == [id |-> id, status |-> status]

SmallResponses ==
    { <<App(a, "noupdate"), App(b, "noupdate")>>,
      <<App(a, "noupdate"), App(b, "ok")>>,
      <<App(b, "ok"), App(a, "ok")>>,
      <<App(a, "ok"), App(b, "noupdate"), App(u, "ok")>>,
      <<App(u, "ok"), App(a, "ok"), App(b, "noupdate")>> }

SmallRetryAfter == {-1, 86401}
=============================================================================
