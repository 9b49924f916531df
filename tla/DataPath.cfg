SPECIFICATION DataSpec
CONSTANTS
    Half = 4
    Opcodes = {"ADC", "SBC", "AND", "ORA", "EOR", "BIT", "CMP", "CPX", "CPY",
     "ASL", "LSR", "ROL", "ROR", "INC", "DEC", "INX", "INY", "DEX", "DEY",
     "LDA", "LDX", "LDY", "STA", "STX", "STY", "TAX", "TAY", "TXA", "TYA",
     "CLC", "CLV", "SEC", "NOP",
     "ALR", "ANC", "ARR", "DCP", "ISB", "LAX", "RLA", "RRA", "SAX", "SBX",
     "SLO", "SRE"}
INVARIANTS
    DataTypeOK
    WordsAdd
    WordsSubtract
    ComparisonsOrder
    WordsShift
    IllegalsFuse
