-------------------------------- MODULE MCBanks --------------------------------
(* Banks with five directories: the workspace root, the memory directory,  *)
(* two shared directories, and one below the first of these that does not  *)
(* exist.  Two shared banks may coexist, or nest either way round.         *)
EXTENDS Banks, TLC

TheDirs == {"root", "memory", "team", "sub", "other"}
TheBelow == [d \in TheDirs |->
                CASE d = "root" -> TheDirs
                  [] d = "team" -> {"team", "sub"}
                  [] OTHER      -> {d}]
TheDefaultDir == ("a" :> "sub" @@ "b" :> "team")
=============================================================================
