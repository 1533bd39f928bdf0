----------------------------- MODULE MCKdbxTree -----------------------------
(* An entry with a key, one in the bin, and room for more.                 *)
EXTENDS KdbxTree

Costs == "" :> 0 @@ "short" :> 1 @@ "long" :> 2

AttrSets == {<<>>, "title" :> "git" @@ "username" :> "github", "URL" :> "git",
             "application" :> "git" @@ "kpxcd_dbname" :> ThisDb @@ "Password" :> "long",
             "custom_application" :> "git"}

Symmetry == Permutations(PrivateKeys)
=============================================================================
