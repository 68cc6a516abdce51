---------------------- MODULE MCConfigurationCaches -----------------------
(* Threads that share the dictionaries, for TLC.                           *)
EXTENDS ConfigurationCaches

(* One type of Database, two custom entities, and one kind of insert.      *)
AllRequests == {<<Configurations, "a">>, <<CustomEntities, "a">>, <<CustomEntities, "b">>, <<"Inserters", "a">>}
=============================================================================
