---------------------------- MODULE MCDlineCover ----------------------------
(***************************************************************************)
(* Observer for the D-line duplicate check: `asked' records, per server,   *)
(* every permanent D-line mask a command carried that passed the wildcard, *)
(* mask-type and prefix checks of dline_handle, i.e. every mask the        *)
(* handler either stored or refused as already D-lined.                    *)
(***************************************************************************)
EXTENDS MCBanHandlers

VARIABLE asked

PassesValidation(service, host) ==
  /\ service \/ ValidWildCard(host.nonwild)
  /\ IsCidr(host)
  /\ service \/ host.net.bits >= DlineMinCidr[host.net.fam]

ObsInit == Init /\ asked = [s \in Servers |-> {}]

ObsNext ==
  \/ \E s \in Servers, service \in BOOLEAN, host \in DlineReqs :
       /\ DlineHandle(s, service, host, 0)
       /\ asked' = IF PassesValidation(service, host)
                     THEN [asked EXCEPT ![s] = @ \cup {host}] ELSE asked
  \/ Next /\ UNCHANGED asked

ObsSpec == ObsInit /\ [][ObsNext]_<<vars, asked>>

(* Spec 4.2: add() refuses a D-line only when one with the identical       *)
(* pattern exists, so after a valid permanent D-line command every address *)
(* of its mask is D-lined.                                                 *)
DlineRequestCovered ==
  \A s \in Servers : \A host \in asked[s] :
    \A ip \in NetRange(host.net) : \E d \in dline[s] : MatchIp(ip, d.host.net)
=============================================================================
