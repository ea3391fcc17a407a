--------------------------------- MODULE Cli ---------------------------------
(***************************************************************************)
(* The commands of the CLI (cli/): for each the input it reads before it   *)
(* calls anything, the functions of the SDK it then calls in this order,   *)
(* and what it prints when all of them returned nil.  With a wrong number  *)
(* of arguments every command prints its usage.                            *)
(***************************************************************************)
EXTENDS ApiErrors

(* What is printed before the first call when the arguments are wrong: a   *)
(* JSON argument or a file that cannot be read ends the command with an    *)
(* error, and so does the token missing from flags and configuration.      *)
FromFile == {"usage", "error"}
Inputs ==
    [arguments |-> {"usage"}, json |-> {"usage", "error"}, file |-> FromFile,
     userAuthToken |-> {"usage", "error"}]

Command(input, calls, prints) == [input |-> input, calls |-> calls, prints |-> prints]

ThingCommands ==
    [things_create |-> Command("json", <<"CreateThing">>, "created"),
     things_get_all |-> Command("arguments", <<"Things">>, "JSON"),
     things_get |-> Command("arguments", <<"Thing">>, "JSON"),
     things_delete |-> Command("arguments", <<"DeleteThing">>, "ok"),
     things_update |-> Command("json", <<"UpdateThing">>, "ok")]
ConnectionCommands ==
    [things_connect |-> Command("arguments", <<"Connect">>, "ok"),
     things_disconnect |-> Command("arguments", <<"DisconnectThing">>, "ok"),
     things_connections |-> Command("arguments", <<"ChannelsByThing">>, "JSON"),
     things_not_connected |-> Command("arguments", <<"ChannelsByThing">>, "JSON")]

ChannelCommands ==
    [channels_create |-> Command("json", <<"CreateChannel">>, "created"),
     channels_get_all |-> Command("arguments", <<"Channels">>, "JSON"),
     channels_get |-> Command("arguments", <<"Channel">>, "JSON"),
     channels_update |-> Command("json", <<"UpdateChannel">>, "ok"),
     channels_delete |-> Command("arguments", <<"DeleteChannel">>, "ok"),
     channels_connections |-> Command("arguments", <<"ThingsByChannel">>, "JSON"),
     channels_not_connected |-> Command("arguments", <<"ThingsByChannel">>, "JSON")]

(* "get children" with too few arguments panics; it prints nothing false.  *)
GroupCommands ==
    [groups_create |-> Command("json", <<"CreateGroup">>, "created"),
     groups_get_all |-> Command("arguments", <<"Groups">>, "JSON"),
     groups_get_children |-> Command("arguments", <<"GroupsOf">>, "JSON"),
     groups_get |-> Command("arguments", <<"Group">>, "JSON"),
     groups_assign |-> Command("arguments", <<"Assign">>, "ok"),
     groups_unassign |-> Command("arguments", <<"Unassign">>, "ok"),
     groups_delete |-> Command("arguments", <<"DeleteGroup">>, "ok"),
     groups_members |-> Command("arguments", <<"Members">>, "JSON"),
     groups_membership |-> Command("arguments", <<"Memberships">>, "JSON")]

UserCommands ==
    [users_create |-> Command("arguments", <<"CreateUser">>, "created"),
     users_get |-> Command("arguments", <<"User">>, "JSON"),
     users_token |-> Command("arguments", <<"CreateToken">>, "created"),
     users_update |-> Command("json", <<"UpdateUser">>, "ok"),
     users_password |-> Command("arguments", <<"UpdatePassword">>, "ok")]

BootstrapCommands ==
    [bootstrap_add |-> Command("json", <<"AddBootstrap">>, "created"),
     bootstrap_view |-> Command("arguments", <<"ViewBootstrap">>, "JSON"),
     bootstrap_update |-> Command("json", <<"UpdateBootstrap">>, "ok"),
     bootstrap_remove |-> Command("arguments", <<"RemoveBootstrap">>, "ok"),
     bootstrap_bootstrap |-> Command("arguments", <<"Bootstrap">>, "JSON")]

CertCommands ==
    [certs_issue |-> Command("userAuthToken", <<"IssueCert">>, "JSON")]

MessageCommands ==
    [messages_send |-> Command("arguments", <<"SendMessage">>, "ok"),
     messages_send_on |-> Command("arguments", <<"SendMessageOn">>, "ok"),
     messages_read |-> Command("arguments", <<"ReadMessages">>, "JSON")]

ProvisionCommands ==
    [provision_things |-> Command("file", <<"CreateThings">>, "JSON"),
     provision_channels |-> Command("file", <<"CreateChannels">>, "JSON"),
     provision_connect |-> Command("file", <<"Connect">>, "nothing")]

(* A test user, whose token makes two things, two channels and connects.   *)
Test ==
    [provision_test |->
        Command("arguments",
                <<"CreateUser", "CreateToken", "CreateThings", "CreateChannels", "Connect", "Connect">>,
                "JSON")]

Commands ==
    ThingCommands @@ ConnectionCommands @@ ChannelCommands @@ GroupCommands @@ UserCommands
        @@ BootstrapCommands @@ CertCommands @@ MessageCommands @@ ProvisionCommands @@ Test
==============================================================================
