---- MODULE MCOta ----
\* Instances of Ota for TLC.
EXTENDS Ota

MCOwners == {"update", "check"}

\* new is newer than the factory image, old is older although its middle
\* number is larger, and both were built after it; bad has no digest.
MCVerOf == [f \in Files \cup {Factory} |->
              CASE f = Factory -> <<2, 1, 0>>
                [] f = "new"   -> <<2, 2, 0>>
                [] f = "old"   -> <<1, 5, 9>>
                [] OTHER       -> <<2, 1, 1>>]

MCTimeOf == [f \in Files \cup {Factory} |-> IF f = Factory THEN 5 ELSE 6]

MCGood == Files \ {"bad"}
MCSources == Files \cup Metas

\* One meta file per image, with its version; the one of bad gives no digest.
MCMetaFile == [m \in Metas |-> IF m = "mnew" THEN "new" ELSE IF m = "mold" THEN "old" ELSE IF m = "mmid" THEN "mid" ELSE "bad"]
MCMetaSha == [m \in Metas |-> IF m = "mbad" THEN None ELSE MCMetaFile[m]]
MCMetaVer == [m \in Metas |-> MCVerOf[MCMetaFile[m]]]
MCMetaTime == [m \in Metas |-> MCTimeOf[MCMetaFile[m]]]
MCMetaValid == Metas

MCAll == {"update", "check", "check_apply", "apply", "cancel"}
MCAuto == {"check", "check_apply", "apply"}
MCCheckApply == {"check_apply"}
MCManual == {"update", "check"}
MCCheckOnly == {"check"}
MCNone == {}

MCNoStrategies == {}
MCTwoStrategies == {[newer |-> n, ver |-> TRUE, time |-> FALSE] : n \in BOOLEAN}
MCStrategies == [newer : BOOLEAN, ver : BOOLEAN, time : BOOLEAN]
====
