---------------------------- MODULE MCNvsClients ----------------------------
(* Two tasks, each the writer of one key; the second also reads strings.   *)
EXTENDS NvsClients

MCCalls ==
    {<<"gpio_task", SaveU32, "CONFIG">>, <<"gpio_task", GetU32, "CONFIG">>,
     <<"httpd", SaveU32, "cons">>, <<"httpd", SaveStr, "mode">>,
     <<"httpd", GetStr, "mode">>}

=============================================================================
