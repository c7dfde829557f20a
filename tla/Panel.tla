------------------------------- MODULE Panel --------------------------------
(***************************************************************************)
(* The key counter and the display in one loop: they take turns in a pass, *)
(* look at the same clock and restart together.                            *)
(***************************************************************************)
EXTENDS KeyCounter, Display

panelVars == <<pc, millis, ticks, counterVars, displayVars>>

\* Power-up long ago: the clock may be about to wrap.
PanelInit ==
  /\ pc = "top" /\ ticks = 0 /\ millis \in {0, Minus(0, 2)}
  /\ CounterInit /\ DisplayInit

Boots == CounterBoots /\ DisplayBoots

Tick == CounterTick /\ ~(Waiting /\ rx # << >>) /\ UNCHANGED displayVars

PanelNext ==
  \/ CounterNext /\ UNCHANGED displayVars
  \/ (DisplayNext \/ DisplayEnv) /\ UNCHANGED counterVars
  \/ Boots \/ Tick

PanelSpec == PanelInit /\ [][PanelNext]_panelVars
=============================================================================
