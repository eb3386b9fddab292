------------------------------ MODULE NodeTypes ------------------------------
(***************************************************************************)
(* types/src/lib.rs: the network of a node and its conversions to and from *)
(* the strings kept in Redis.  A nil read of the network key is turned     *)
(* into the empty string by `unwrap_or_default` before it is converted, so *)
(* the empty string also stands for an absent key.                         *)
(***************************************************************************)

\* CKBNetworkType
Networks == {"Mirana", "Pudge", "Dev"}

\* CKBNetworkType::into_str
IntoStr(n) == IF n = "Mirana" THEN "mirana"
              ELSE IF n = "Pudge" THEN "pudge" ELSE "dev"

\* CKBNetworkType::into_legacy_str
IntoLegacyStr(n) == IF n = "Mirana" THEN "ckb"
                    ELSE IF n = "Pudge" THEN "ckb_testnet" ELSE "ckb_dev"

PudgeNames  == {"pudge", "ckb_testnet", "test", "testnet"}
DevNames    == {"dev", "ckb_dev"}

\* Mutant: only the legacy names are known.
FromStringLegacy(s) == IF s = "ckb_testnet" THEN "Pudge"
                       ELSE IF s = "ckb_dev" THEN "Dev" ELSE "Mirana"

\* impl From<String> for CKBNetworkType: every other string is Mirana.
FromString(s) == IF s \in PudgeNames THEN "Pudge"
                 ELSE IF s \in DevNames THEN "Dev" ELSE "Mirana"

\* The strings a network key of Redis can hold.
NetworkStrings == {IntoStr(n) : n \in Networks}
==============================================================================
