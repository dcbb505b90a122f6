---------------------------- MODULE ApprovalGate ----------------------------
(***************************************************************************)
(* src/approval-stage.ts: the one signed authorization.  buildBinding      *)
(* recomputes what there is to sign from the file and compares it with     *)
(* what the spec_decision gate recorded; approveRun verifies the           *)
(* operator's signature over a fresh binding and commits the approval.     *)
(***************************************************************************)
EXTENDS RunState

VARIABLE signed   \* the bindings the operator's key has signed

(* The part of a binding that can change between request and approval: the   *)
(* starting commit and the profile are frozen, and the scope is a function   *)
(* of the specification.                                                     *)
Bindings == SpecGates

Binding == {[spec |-> s, risk |-> RiskOf[s]] : s \in disk.spec}

(* buildBinding: the spec on disk has the hash and the risk that the latest  *)
(* spec_decision.gate.pass event recorded.                                   *)
BindingIsOffered ==
  /\ MayStart("awaiting_approval", "spec_decision")
  /\ Binding # {}
  /\ Binding \subseteq gate.decision

(* approval-request shows the binding; the operator signs it outside. *)
SignBinding ==
  /\ BindingIsOffered
  /\ signed' = signed \cup Binding
  /\ UNCHANGED <<runVars, ctlVars, fileVars, gitVars, reviewedSpec>>

(* Not the code: the approval row keeps the specification without its risk. *)
ApproveHashOnly ==
  /\ BindingIsOffered
  /\ Binding \subseteq signed
  /\ chain' = Append(chain, [kind |-> "awaiting_approval", status |-> "passed"])
  /\ approval' = disk.spec
  /\ UNCHANGED <<status, gate, answers, signed, ctlVars, fileVars, gitVars, reviewedSpec>>

(* approveRun: five writes in one transaction. *)
Approve ==
  /\ BindingIsOffered
  /\ Binding \subseteq signed
  /\ chain' = Append(chain, [kind |-> "awaiting_approval", status |-> "passed"])
  /\ approval' = Binding
  /\ UNCHANGED <<status, gate, answers, signed, ctlVars, fileVars, gitVars, reviewedSpec>>
=============================================================================
