-------------------------------- MODULE MCMutex --------------------------------
(* A small instance of Mutex for TLC: two mutexes of rtos_init_mutex,      *)
(* which queue by priority, around one of sys_mutex_new, which queues by   *)
(* arrival.  The thread of lowest priority nests them, the other two take  *)
(* one at a time.                                                          *)
EXTENDS Mutex

MCFlag == <<"PRIO", "FIFO", "PRIO">>
MCPriority == [t1 |-> 3, t2 |-> 2, t3 |-> 1]
===============================================================================
