--------------------------- MODULE MCGenerations ---------------------------
(***************************************************************************)
(* Generations on small instances: g1 has the limits of the image and lets *)
(* it lend its _probe, g2 brings one of its own and other limits, "odd"    *)
(* has other limits and no _probe, "bad" a profile that does not validate. *)
(***************************************************************************)
EXTENDS Generations

MCProfiles == {"default", "api", "_probe"}
MCGens == {"g1", "g2", "odd", "bad"}
GoodGens == {"g1", "g2"}
RacingGens == {"g1", "g2", "bad"}
MCIgnored == {"deleted"}
MCBases == {"base", "broken"}
OneBase == {"base"}
Nothing == {}
MCBad == {<<"bad", "api">>, <<"broken", "default">>, <<"broken", "_probe">>} \cap (Sources \X Profiles)
MCNames == [g \in Sources |->
              IF g \in Bases \cup {"g2"} THEN Profiles ELSE Profiles \ {"_probe"}]
MCLimits == [g \in Sources |-> IF g \in {"g2", "odd"} THEN "other" ELSE "image"]

=============================================================================
