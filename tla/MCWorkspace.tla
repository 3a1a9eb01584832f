---------------------------- MODULE MCWorkspace ----------------------------
(* A page for one client: every project is the client's, every finding of the *)
(* same project.                                                              *)
EXTENDS Workspace

TheClient == CHOOSE c \in Client : TRUE
TheEngagement == CHOOSE e \in Engagement : TRUE
MCClientOf == [e \in Engagement |-> TheClient]
MCEngagementOf == [f \in Finding |-> TheEngagement]
=============================================================================
