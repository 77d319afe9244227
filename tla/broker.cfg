CONSTANTS
    Plans <- TwiceOrTogether
    MaxResends = 2
    None = None
CHECK_DEADLOCK FALSE
SPECIFICATION ClientSpec
INVARIANT AnswersFit
 
