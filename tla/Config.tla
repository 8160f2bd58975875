------------------------------- MODULE Config -------------------------------
(***************************************************************************)
(* parse_cli_arguments: one action per turn of the getopt loop.  Texts are *)
(* abstract; what the parsers make of them is in Address and Cidr, here    *)
(* each of them may throw.  GNU getopt moves operands behind the options,  *)
(* so an operand never ends the loop.                                      *)
(***************************************************************************)
EXTENDS Naturals, Integers

CONSTANTS
    MtuValues,   \* what stoll may make of the argument of -m
    MaxProxies   \* bound on the -p options of a run

ASSUME ConfigAssumption ==
    /\ MtuValues \subseteq Int
    /\ MaxProxies \in Nat

VARIABLES
    config,   \* struct Config
    end,      \* the out parameter end
    operands, \* some argument is no option: optind # argn after the loop
    cli       \* "getopt", or how parse_cli_arguments returned

config_vars == <<config, end, operands, cli>>

Families == {"AF_INET", "AF_INET6"}

EmptyConfig == [interface_name |-> FALSE, inner_address |-> "none", mtu |-> 0,
                bind_address |-> FALSE, connect_address |-> FALSE, proxies |-> 0]

ConfigInit ==
    /\ config = EmptyConfig
    /\ end = FALSE
    /\ operands = FALSE
    /\ cli = "getopt"

MtuAccepted(value) == ~(value < 68 \/ value > 65535)

Set(changed) ==
    /\ config' = changed
    /\ UNCHANGED <<end, operands, cli>>

\* One option; -n and an accepted value of every other one.
Option ==
    /\ cli = "getopt"
    /\ \/ Set([config EXCEPT !.interface_name = TRUE])
       \/ \E value \in MtuValues : MtuAccepted(value) /\ Set([config EXCEPT !.mtu = value % 65536])
       \/ \E family \in Families : Set([config EXCEPT !.inner_address = family])
       \/ Set([config EXCEPT !.connect_address = TRUE])
       \/ Set([config EXCEPT !.bind_address = TRUE])
       \/ config.proxies < MaxProxies /\ Set([config EXCEPT !.proxies = @ + 1])

\* -h or -v: they print and the loop goes on.
HelpOrVersion ==
    /\ cli = "getopt"
    /\ end' = TRUE
    /\ UNCHANGED <<config, operands, cli>>

Operand ==
    /\ cli = "getopt"
    /\ operands' = TRUE
    /\ UNCHANGED <<config, end, cli>>

\* A text a parser refuses, an unknown option or a missing argument.  An MTU
\* out of range changes nothing before it throws.
Throw ==
    /\ cli = "getopt"
    /\ cli' = "failed"
    /\ UNCHANGED <<config, end, operands>>

Verdict(complete) ==
    IF end THEN "end" ELSE IF complete THEN "start" ELSE "failed"

\* getopt returned -1: the checks behind the loop.
Checks ==
    /\ cli = "getopt"
    /\ cli' = Verdict(/\ ~operands
                      /\ config.interface_name
                      /\ config.mtu # 0
                      /\ config.inner_address # "none"
                      /\ config.bind_address # config.connect_address)
    /\ UNCHANGED <<config, end, operands>>

ParseCli == Option \/ HelpOrVersion \/ Operand \/ Throw \/ Checks

-----------------------------------------------------------------------------
\* What starts is what the help text (config.cpp:15, 18) asks for: a name, an
\* MTU in 68..65535, an address, exactly one of -b and -c; and nothing starts
\* when help or the version was asked for, wherever on the command line.
StartsAsDocumented ==
    cli = "start" =>
        /\ ~end /\ ~operands
        /\ config.interface_name
        /\ 68 <= config.mtu /\ config.mtu <= 65535
        /\ config.inner_address \in Families
        /\ config.bind_address # config.connect_address

=============================================================================
