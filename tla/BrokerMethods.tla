--------------------------- MODULE BrokerMethods ---------------------------
(* The request methods of IQ_Option (iqoptionapi/stable_api.py) as programs.  *)
(* A method clears a box of the api object, sends a request, and spins until  *)
(* the thread of the websocket has put the answer into the box. Boxes belong  *)
(* to the kind of message, not to the call. A program is a sequence of these  *)
(* instructions; what a method computes from its answer is left out.          *)
EXTENDS Sequences

Instruction(op, boxes) == <<[op |-> op, boxes |-> boxes, skip |-> 0]>>

Clear(boxes) == Instruction("clear", boxes)

\* The request and its answers: each a message, with the boxes its handler writes.
Send(messages) == <<[op |-> "send", boxes |-> {}, skip |-> 0, messages |-> messages]>>

\* Spins until all of the boxes are filled; AwaitOr gives up some time later.
Await(boxes) == Instruction("await", boxes)
AwaitOr(boxes) == Instruction("awaitOr", boxes)

\* Spins and sends the request once more, while there is no answer or a bad one.
AwaitOrResend(b, message) ==
  <<[op |-> "awaitOrResend", boxes |-> {b}, skip |-> 0, messages |-> {message}]>>

\* Spins until two of the boxes are filled, whoever asked for that.
AwaitTwo(boxes, counts) ==
  <<[op |-> "awaitTwo", boxes |-> boxes, skip |-> 0, counts |-> counts]>>

\* A loop around requests: after a bad answer, or after none in time, the next turn is
\* the named program, from its beginning.
Again(method) == <<[op |-> "again", boxes |-> {}, skip |-> 0, method |-> method]>>
AwaitOrAgain(b, method) ==
  <<[op |-> "awaitOrAgain", boxes |-> {b}, skip |-> 0, method |-> method]>>

Read(boxes) == Instruction("read", boxes)

\* A part that depends on the arguments or on an answer; MayReturn is an early end.
Maybe(part) == <<[op |-> "maybe", boxes |-> {}, skip |-> Len(part)]>> \o part
MayReturn == Instruction("mayReturn", {})

AskNoClear(b) == Send({<<b>>}) \o Await({b}) \o Read({b})

AskClearLate(b) == Send({<<b>>}) \o Clear({b}) \o Await({b}) \o Read({b})

\* The pattern of most methods.
Ask(b) == Clear({b}) \o Send({<<b>>}) \o Await({b}) \o Read({b})

----------------------------------------------------------------------------
(* Assets, balances, candles *)

get_financial_information == Ask("financial_information")
get_leader_board == Ask("leaderboard_deals_client")
get_instruments ==
  Clear({"instruments"}) \o Send({<<"instruments">>})
    \o AwaitOrResend("instruments", <<"instruments">>) \o Read({"instruments"})
instruments_input_all_in_ACTIVES == get_instruments \o get_instruments \o get_instruments
get_all_init ==
  Clear({"init_all"}) \o Send({<<"init_all">>}) \o AwaitOrAgain("init_all", "get_all_init")
    \o Read({"init_all"}) \o Again("get_all_init")
get_all_init_v2 ==
  Clear({"init_all_v2"}) \o Send({<<"init_all_v2">>}) \o AwaitOr({"init_all_v2"})
    \o Read({"init_all_v2"})
get_digital_underlying_list_data ==
  Clear({"underlying_list_data"}) \o Send({<<"underlying_list_data">>})
    \o AwaitOr({"underlying_list_data"}) \o Read({"underlying_list_data"})
get_all_open_time ==
  get_all_init_v2 \o get_digital_underlying_list_data \o instruments_input_all_in_ACTIVES
get_ALL_Binary_ACTIVES_OPCODE == get_all_init
get_binary_option_detail == get_all_init
get_all_profit == get_all_init
get_profile_ansyc == Await({"profile"}) \o Read({"profile"})
get_balances == Ask("balances_raw")
get_balance == get_balances
get_currency == get_balances
get_balance_mode == get_profile_ansyc
reset_practice_balance == Ask("training_balance_reset")
get_candles ==
  Clear({"candles_data"}) \o Send({<<"candles_data">>}) \o AwaitOrResend("candles_data", <<"candles_data">>)
    \o Read({"candles_data"})

----------------------------------------------------------------------------
(* Options *)

\* The entries of listinfodata and of order_async are those of one option or position.
check_win == Await({"listinfodata"}) \o Read({"listinfodata"})

\* The handler of the answer writes the verdict first and the data after it.
Betinfo == <<"betinfo_isSuccessful", "betinfo_dict">>
get_betinfo ==
  Clear({"betinfo_isSuccessful"}) \o Send({Betinfo})
    \o AwaitOrResend("betinfo_isSuccessful", Betinfo) \o Read({"betinfo_isSuccessful"})
    \o Maybe(Read({"betinfo_dict"}))
check_win_v2 == get_betinfo \o Again("check_win_v2")
check_win_v3 == Await({"option_closed"}) \o Read({"option_closed"})
get_optioninfo == Ask("game_getoptions_result")
get_optioninfo_v2 == Ask("get_options_v2_data")

\* buy_multi_option is one dictionary, emptied as a whole, and its entries are counted.
Options == {"option_buy", "option_buyraw", "option_0", "option_1"}
buy_multi ==
  Clear(Options) \o Send({<<"option_0">>}) \o Send({<<"option_1">>})
    \o AwaitTwo({"option_0", "option_1"}, Options) \o Read({"option_0", "option_1"})

\* buy() and its twin: result is cleared only after the request is out.
BuyAs(key) ==
  Clear(Options) \o Send({<<"result">>, <<key>>}) \o Clear({"result"})
    \o AwaitOr({key}) \o AwaitOr({"result"}) \o Read({"result", key})
buy_by_raw_expirations == BuyAs("option_buyraw")
buy == BuyAs("option_buy")
sell_option == AskClearLate("sold_options_respond")

----------------------------------------------------------------------------
(* Digital options *)

get_strike_list == Ask("strike_list")
get_instrument_quites_generated_data == Await({"quotes"}) \o Read({"quotes"})
get_realtime_strike_list == Await({"quotes"}) \o Maybe(get_strike_list) \o Read({"quotes"})
buy_digital_spot == Ask("digital_option_placed_id")
buy_digital ==
  Clear({"digital_option_placed_id"}) \o Send({<<"digital_option_placed_id">>})
    \o AwaitOr({"digital_option_placed_id"}) \o Read({"digital_option_placed_id"})
get_digital_spot_profit_after_sale ==
  Await({"position_changed"}) \o Read({"position_changed"}) \o get_instrument_quites_generated_data
close_digital_option ==
  Clear({"result"}) \o Await({"position_changed"}) \o Send({<<"result">>}) \o Await({"result"})
    \o Read({"result"})
get_digital_position_by_position_id == Ask("position")
get_digital_position ==
  Clear({"position"}) \o Await({"position_changed"}) \o Send({<<"position">>})
    \o Await({"position"}) \o Read({"position"})
check_win_digital == get_digital_position \o Again("check_win_digital")
check_win_digital_v2 == Await({"position_changed"}) \o Read({"position_changed"})

----------------------------------------------------------------------------
(* Forex, shares and the rest *)

get_order == Ask("order_data")
buy_order_again == get_order \o Again("buy_order_again")
buy_order == Ask("buy_order_id") \o buy_order_again
change_auto_margin_call == Ask("auto_margin_call_changed")
change_order ==
  Maybe(get_order \o MayReturn) \o Clear({"tpsl_changed"}) \o Send({<<"tpsl_changed">>})
    \o change_auto_margin_call \o Await({"tpsl_changed"}) \o Read({"tpsl_changed"})
get_pending == Ask("deferred_orders")
get_positions == Ask("positions")
get_position ==
  Clear({"position"}) \o get_order \o Send({<<"position">>}) \o Await({"position"})
    \o Read({"position"})
get_position_history == Ask("position_history")
get_position_history_v2 == Ask("position_history_v2")
get_available_leverages == Ask("available_leverages")
cancel_order == Ask("order_canceled")
close_position == get_order \o MayReturn \o Ask("close_position_data")
close_position_v2 == AskNoClear("close_position_data")
get_overnight_fee == Ask("overnight_fee")
get_user_profile_client == Ask("user_profile_client")
request_leaderboard_userinfo_deals_client ==
  Clear({"leaderboard_userinfo"}) \o Send({<<"leaderboard_userinfo">>})
    \o AwaitOrResend("leaderboard_userinfo", <<"leaderboard_userinfo">>) \o Read({"leaderboard_userinfo"})
get_users_availability ==
  Clear({"users_availability"}) \o Send({<<"users_availability">>})
    \o AwaitOrResend("users_availability", <<"users_availability">>) \o Read({"users_availability"})

----------------------------------------------------------------------------

\* Boxes that the broker fills without being asked, once.
EventBoxes == {"profile", "listinfodata", "option_closed", "position_changed", "quotes"}

Program ==
  [get_financial_information |-> get_financial_information, get_leader_board |-> get_leader_board,
   get_instruments |-> get_instruments,
   instruments_input_all_in_ACTIVES |-> instruments_input_all_in_ACTIVES,
   get_all_init |-> get_all_init, get_all_init_v2 |-> get_all_init_v2,
   get_digital_underlying_list_data |-> get_digital_underlying_list_data,
   get_all_open_time |-> get_all_open_time,
   get_ALL_Binary_ACTIVES_OPCODE |-> get_ALL_Binary_ACTIVES_OPCODE,
   get_binary_option_detail |-> get_binary_option_detail, get_all_profit |-> get_all_profit,
   get_profile_ansyc |-> get_profile_ansyc, get_balances |-> get_balances,
   get_balance |-> get_balance, get_currency |-> get_currency,
   get_balance_mode |-> get_balance_mode, reset_practice_balance |-> reset_practice_balance,
   get_candles |-> get_candles, check_win |-> check_win, get_betinfo |-> get_betinfo,
   check_win_v2 |-> check_win_v2, check_win_v3 |-> check_win_v3,
   get_optioninfo |-> get_optioninfo, get_optioninfo_v2 |-> get_optioninfo_v2,
   buy_multi |-> buy_multi, buy_by_raw_expirations |-> buy_by_raw_expirations, buy |-> buy,
   sell_option |-> sell_option, get_strike_list |-> get_strike_list,
   get_instrument_quites_generated_data |-> get_instrument_quites_generated_data,
   get_realtime_strike_list |-> get_realtime_strike_list, buy_digital_spot |-> buy_digital_spot,
   buy_digital |-> buy_digital,
   get_digital_spot_profit_after_sale |-> get_digital_spot_profit_after_sale,
   close_digital_option |-> close_digital_option,
   get_digital_position_by_position_id |-> get_digital_position_by_position_id,
   get_digital_position |-> get_digital_position, check_win_digital |-> check_win_digital,
   check_win_digital_v2 |-> check_win_digital_v2, get_order |-> get_order,
   buy_order |-> buy_order, buy_order_again |-> buy_order_again, change_auto_margin_call |-> change_auto_margin_call,
   change_order |-> change_order, get_pending |-> get_pending, get_positions |-> get_positions,
   get_position |-> get_position, get_position_history |-> get_position_history,
   get_position_history_v2 |-> get_position_history_v2,
   get_available_leverages |-> get_available_leverages, cancel_order |-> cancel_order,
   close_position |-> close_position, close_position_v2 |-> close_position_v2,
   get_overnight_fee |-> get_overnight_fee, get_user_profile_client |-> get_user_profile_client,
   request_leaderboard_userinfo_deals_client |-> request_leaderboard_userinfo_deals_client,
   get_users_availability |-> get_users_availability]
=============================================================================
