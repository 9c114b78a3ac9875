---------------------------- MODULE DeploymentMC ----------------------------
EXTENDS Deployment

EditedGrants == {<<"DISPATCH_OFFICER", "report.export">>, <<"VIEWER", "audit.read_sensitive">>,
                 <<"SYSTEM_ADMIN", "audit.read">>}
=============================================================================
