------------------------------ MODULE MCPlanner ------------------------------
EXTENDS Planner
=============================================================================
