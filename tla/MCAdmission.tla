----------------------------- MODULE MCAdmission -----------------------------
(***************************************************************************)
(* Admission on small payloads: up to two groups, the same one twice       *)
(* included, and policy documents that miss phases, empty the deletion's   *)
(* slice or turn its approval off.                                         *)
(***************************************************************************)
EXTENDS Admission

GroupLists == {<<>>, <<"g1">>, <<"g1", "g2">>, <<"g1", "g1">>}

MCPayloads ==
    {[groups |-> g, regenerate |-> b, attributes |-> b, addGroups |-> g,
      removeGroups |-> <<>>, transferDriveTo |-> s] :
        g \in GroupLists, b \in BOOLEAN, s \in {NoSuccessor, "al"}}

NoDocument == [phase \in {} |-> NoPolicy]
Emptied == [phase \in {"delete"} |-> NoPolicy]
TurnedOff == [phase \in {"delete", "create"} |->
                IF phase = "create" THEN [name \in {"assign-group"} |-> Gate("approver")]
                ELSE [name \in {"delete-user"} |-> NoApproval]]

MCPolicyDocuments == {NoDocument, Emptied, TurnedOff}

=============================================================================
