---------------------------- MODULE MCPanelTabs ----------------------------
(* Three panels, two groups: two panels start at the bottom, one at left.  *)
EXTENDS PanelTabs, TLC

CONSTANTS problems, log, browser, left

MCOrder == <<problems, log, browser>>

MCDefault == problems :> Bottom @@ log :> Bottom @@ browser :> left

MCGroups == {Bottom, left}

=============================================================================
