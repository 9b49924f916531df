--------------------------- MODULE VblankProtocol ---------------------------
(***************************************************************************)
(* What the frame loop promises a game, without dots or cycles.  A frame   *)
(* is rendered, then the PPU enters vblank and may interrupt the program;  *)
(* an NMI it raises is taken while that same vblank lasts; the vblank flag *)
(* is seen at most once per vblank; and exactly one frame is handed to the *)
(* front end between the end of a vblank and the start of the next.        *)
(***************************************************************************)
EXTENDS Naturals

CONSTANT FrameRate

VARIABLES stage, nmi, flag, frame
abstractVars == <<stage, nmi, flag, frame>>

Stages == {"render", "vblank", "prerender", "present"}

PromisedTypes ==
    /\ stage \in Stages
    /\ nmi \in BOOLEAN /\ flag \in BOOLEAN
    /\ frame \in 0 .. FrameRate - 1

Start == stage = "render" /\ ~nmi /\ ~flag /\ frame = 0

\* The PPU reaches vblank; it interrupts the program if asked to.
EnterVblank ==
    /\ stage = "render" /\ stage' = "vblank"
    /\ flag' = TRUE
    /\ nmi' \in BOOLEAN
    /\ UNCHANGED frame

\* The program takes the NMI, or reads (and so clears) the flag, or both.
ProgramLooks ==
    /\ stage = "vblank"
    /\ nmi' = FALSE
    /\ flag' \in {flag, FALSE}
    /\ UNCHANGED <<stage, frame>>

\* Vblank ends only once its NMI has been taken.
LeaveVblank ==
    /\ stage = "vblank" /\ stage' = "prerender"
    /\ ~nmi
    /\ flag' = FALSE
    /\ UNCHANGED <<nmi, frame>>

CompleteFrame ==
    /\ stage = "prerender" /\ stage' = "present"
    /\ UNCHANGED <<nmi, flag, frame>>

PresentFrame ==
    /\ stage = "present" /\ stage' = "render"
    /\ frame' = (frame + 1) % FrameRate
    /\ UNCHANGED <<nmi, flag>>

Promised == Start /\ [][\/ EnterVblank \/ ProgramLooks \/ LeaveVblank
                        \/ CompleteFrame \/ PresentFrame]_abstractVars
=============================================================================
