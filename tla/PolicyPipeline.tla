--------------------------- MODULE PolicyPipeline ---------------------------
(***************************************************************************)
(* What eshu-gateway.sh asks of the text of a command in stages 1 to 4, and *)
(* the same verdict as the dashboard computes it for the policy tester and  *)
(* the what-if preview (core/policy_eval.py, core/cmd_blocklist.py).        *)
(*                                                                         *)
(* A command is a model value; its text is what its traits say.  A list of  *)
(* policy lines is the set of the commands that a line of it matches.       *)
(***************************************************************************)

CONSTANTS
  Commands,  \* commands an agent may send
  Traits     \* Traits[c]: what the text of c contains

(* "self"     a path or name of the gateway's own files                    *)
(* "which"    a command substitution with which                            *)
(* "esh"      authorized_keys, or a wildcard next to a word esh...          *)
(* "encoded"  a wrapper that decodes or evaluates text                      *)
(* "hidden"   a wrapper whose decoded text hits a blocklist                 *)
(* "meta"     a shell metacharacter                                         *)
AllTraits == {"self", "which", "esh", "encoded", "hidden", "meta"}

\* $(which holds $(, and only what is encoded hides something.
ASSUME TraitsAssumption ==
  /\ Commands # {}
  /\ Traits \in [Commands -> SUBSET AllTraits]
  /\ \A c \in Commands : /\ "which" \in Traits[c] => "meta" \in Traits[c]
                         /\ "hidden" \in Traits[c] => "encoded" \in Traits[c]

Lists == [exact : SUBSET Commands, regex : SUBSET Commands, black : SUBSET Commands]

\* Stage 1: refused for good.
HardBlocked(c) == Traits[c] \cap {"self", "which"} # {}

\* Stages 1.5, 2.6, 2.7: not run by an allowlist, whatever it says.  In the
\* bug the metacharacter gate is missing.
ForcedToJitButMeta(c) == Traits[c] \cap {"esh", "encoded"} # {}
ForcedToJit(c) == Traits[c] \cap {"esh", "encoded", "meta"} # {}

\* evaluate_policy_verdict
Mirror(c, lists) ==
  IF HardBlocked(c) \/ c \in lists.black THEN "blocked"
  ELSE IF Traits[c] \cap {"esh", "meta"} = {} /\ c \in lists.exact \cup lists.regex
       THEN "auto_approved"
       ELSE "jit"
=============================================================================
