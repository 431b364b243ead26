---------------------------- MODULE MCDeployment ----------------------------
EXTENDS Deployment
============================================================================
