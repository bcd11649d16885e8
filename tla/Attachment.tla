----------------------------- MODULE Attachment -----------------------------
(* What opening an attachment promises its caller: it ends, encrypted or in *)
(* plain text as the WireCrypt posture allows, or with an error.            *)

VARIABLES state, posture

Postures == {"Disabled", "Enabled", "Required"}

(* Outcomes a posture permits. *)
Allowed(p) ==
    {"refused"} \cup (IF p = "Required" THEN {} ELSE {"plain"})
                \cup (IF p = "Disabled" THEN {} ELSE {"secure"})

Init == state = "opening" /\ posture \in Postures

Open ==
    /\ state = "opening"
    /\ state' \in Allowed(posture)
    /\ UNCHANGED posture

Safety == Init /\ [][Open]_<<state, posture>>

Spec == Safety /\ WF_<<state, posture>>(Open)
==============================================================================
