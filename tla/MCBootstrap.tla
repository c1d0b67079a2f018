----------------------------- MODULE MCBootstrap -----------------------------
(***************************************************************************)
(* Instance of Bootstrap: inits with two passphrases, and adds that may    *)
(* use what another add has added.                                         *)
(***************************************************************************)
EXTENDS Bootstrap, TLC

CONSTANTS i1, i2, i3, a1, a2, a3

MCPass == (i1 :> "p") @@ (i2 :> "q") @@ (i3 :> "p")
          @@ (a1 :> "p") @@ (a2 :> "p") @@ (a3 :> "r")
MCNewPass == (a1 :> "r") @@ (a2 :> "q") @@ (a3 :> "s")
=============================================================================
